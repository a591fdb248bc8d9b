---------------------------- MODULE MCVolumeCodecSpec ----------------------------
(***************************************************************************)
(* Model-checking instance of VolumeCodecSpec. Every stored volume 0..255 is  *)
(* an initial state, so the read-back and range properties are checked    *)
(* for all of them.  The host sets the boundary codes of the signed range: *)
(* silence, MIN, -64 dB, -1/256 dB, 0 dB, +1/256 dB, +4 dB, MAX, just     *)
(* above MAX, and the largest positive code.                               *)
(***************************************************************************)
EXTENDS VolumeCodecSpec

MC_Codes == {32768, 32769, 49152, 65535, 0, 1, 1024, 2048, 2049, 32767}

=============================================================================
