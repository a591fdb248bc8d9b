------------------------------ MODULE StreamFifo ------------------------------
(***************************************************************************)
(* What a stream buffer promises (spec section 4.1): a bounded FIFO of     *)
(* units.  A producer appends up to the free space, a consumer takes the   *)
(* oldest n units and sees exactly them, and a re-initialisation discards  *)
(* everything.  out is the chunk the last take delivered.                  *)
(***************************************************************************)
EXTENDS Naturals, Sequences, SequencesExt

CONSTANT Capacity

VARIABLES q, out

(* The producer appends some units, never beyond the capacity. *)
Append_ ==
  /\ IsStrictPrefix(q, q')
  /\ Len(q') <= Capacity
  /\ UNCHANGED out

(* The consumer takes the n oldest units, in order. *)
Take ==
  \E n \in 1 .. Len(q) :
    /\ out' = SubSeq(q, 1, n)
    /\ q' = SubSeq(q, n + 1, Len(q))

(* Re-initialisation discards the contents. *)
Discard ==
  /\ q' = << >>
  /\ UNCHANGED out

Init == q = << >> /\ out = << >>

Next == Append_ \/ Take \/ Discard

Spec == Init /\ [][Next]_<<q, out>>

=============================================================================
