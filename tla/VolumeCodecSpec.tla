--------------------------- MODULE VolumeCodecSpec ---------------------------
(***************************************************************************)
(* A host adjusting one volume control of the device: it sets codes, reads *)
(* the current value back with GET CUR, and writes back what it read.  The *)
(* stored volume follows usb_audio_set_control and the replies follow      *)
(* usb_audio_get_control, through the operators of VolumeCodec.            *)
(***************************************************************************)
EXTENDS VolumeCodec

CONSTANT Codes   \* the codes the host sets, a subset of 0..65535

ASSUME Codes \subseteq 0 .. 65535

NoSet == -1

VARIABLES
  vol,    \* the stored linear volume
  reply,  \* bytes of the last GET CUR reply not yet written back
  code    \* the last code the host set, or NoSet

vars == <<vol, reply, code>>

(* Any stored volume: every value 0..255 is reachable by some SET CUR. *)
Init ==
  /\ vol \in 0 .. 255
  /\ reply = << >>
  /\ code = NoSet

GetCur ==
  /\ reply' = LE16(GetCurCode(vol))
  /\ UNCHANGED <<vol, code>>

SetCur(c) ==
  /\ vol' = SetCurVolume(Word(LE16(c)))
  /\ reply' = << >>
  /\ code' = c

(* The host writes back the code it just read. *)
WriteBack ==
  /\ reply # << >>
  /\ SetCur(Word(reply))

Next == GetCur \/ WriteBack \/ \E c \in Codes : SetCur(c)

Spec == Init /\ [][Next]_vars

-----------------------------------------------------------------------------

TypeOK ==
  /\ vol \in 0 .. 255
  /\ reply \in {<< >>} \cup [1 .. 2 -> 0 .. 255]
  /\ code \in {NoSet} \cup (0 .. 65535)

(* Writing back the code a GET CUR returned leaves the volume unchanged:  *)
(* the two roundings of the GET and SET formulas cancel for every value.  *)
ReadBackStable == [][WriteBack => vol' = vol]_vars

(* Every current value GET CUR reports lies in the range the unit         *)
(* advertises: between MIN (or 0x8000, silence) and MAX, in signed order, *)
(* and a louder volume reads as a strictly higher code.                   *)
GetCurInRange ==
  LET s == Signed(GetCurCode(vol)) IN
  /\ Signed(VolMinCode) - 1 <= s /\ s <= Signed(VolMaxCode)
  /\ vol < 255 => s < Signed(GetCurCode(vol + 1))

=============================================================================
