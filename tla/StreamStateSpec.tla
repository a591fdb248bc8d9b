---------------------------- MODULE StreamStateSpec ----------------------------
(***************************************************************************)
(* What the two streams promise (spec section 4.2): each direction is OFF *)
(* or ON; switching to OFF discards the buffered audio and deactivates the *)
(* voice, switching to ON activates it and keeps the buffer; the host      *)
(* writes playback packets and reads capture data only while ON; the      *)
(* voice forwards or fills whole packets only while active.  level is the  *)
(* amount of audio buffered, in units, never above Capacity.               *)
(*                                                                         *)
(* The directions are independent (spec section 5), so a step is a step   *)
(* of each direction, most of them idle.  The actions constrain one        *)
(* direction's part of the next state, which is how the detailed           *)
(* specification's steps are checked against them.                         *)
(***************************************************************************)
EXTENDS Naturals

CONSTANTS P, Capacity

VARIABLES alt, level, voice

avars == <<alt, level, voice>>

Dirs == {"out", "in"}
OFF == 0
ON == 1

Init ==
  /\ alt = [d \in Dirs |-> OFF]
  /\ level = [d \in Dirs |-> 0]
  /\ voice = [d \in Dirs |-> FALSE]

(* ON -> OFF and OFF -> OFF: discard the buffer, deactivate the voice. *)
SwitchOff(d) == alt'[d] = OFF /\ level'[d] = 0 /\ ~voice'[d]

(* OFF -> ON (and ON -> ON): activate the voice, keep the buffer. *)
SwitchOn(d) == alt'[d] = ON /\ level'[d] = level[d] /\ voice'[d]

Keep(d) == alt'[d] = alt[d] /\ voice'[d] = voice[d]

(* The host's playback packet is queued whole while the stream is ON. *)
Write(d) ==
  /\ d = "out" /\ alt[d] = ON /\ Keep(d)
  /\ level'[d] = level[d] + P /\ level'[d] <= Capacity

(* The active playback voice takes whole packets. *)
Forward(d) ==
  /\ d = "out" /\ voice[d] /\ Keep(d)
  /\ \E k \in 1 .. Capacity : level'[d] = level[d] - k * P /\ level'[d] >= 0

(* The active capture voice fills whole packets into free space. *)
Fill(d) ==
  /\ d = "in" /\ voice[d] /\ Keep(d)
  /\ \E k \in 1 .. Capacity : level'[d] = level[d] + k * P /\ level'[d] <= Capacity

(* The host reads at most a packet of buffered capture data while ON. *)
Read(d) ==
  /\ d = "in" /\ alt[d] = ON /\ Keep(d)
  /\ \E len \in 1 .. P : level'[d] = level[d] - len /\ level'[d] >= 0

Idle(d) == Keep(d) /\ level'[d] = level[d]

Next ==
  /\ \A d \in Dirs :
       \/ SwitchOff(d) \/ SwitchOn(d) \/ Write(d) \/ Forward(d)
       \/ Fill(d) \/ Read(d) \/ Idle(d)
  /\ DOMAIN alt' = Dirs /\ DOMAIN level' = Dirs /\ DOMAIN voice' = Dirs

Spec == Init /\ [][Next]_avars

=============================================================================
