--------------------------- MODULE MCUsbAudioControl ---------------------------
(***************************************************************************)
(* Model-checking instance of UsbAudioControl.  The host sends SET CUR     *)
(* codes for silence, -64 dB, 0 dB, MAX and a code above MAX that is     *)
(* clamped; mute bytes 0, 1 and 2 (bit 0 only counts); wire channels 0     *)
(* (the master, index 255), 1 and 2.  A snapshot carries 0 or 240.         *)
(***************************************************************************)
EXTENDS UsbAudioControl

MC_Codes == {32768, 49152, 0, 2048, 32767}
MC_MuteBytes == {0, 1, 2}
MC_Channels == {0, 1, 2}
MC_RestoreVols == {0, 240}

(* SET CUR, and SET MAX standing for the SET requests no key accepts. *)
MC_SetAttribs == {CR_SET_CUR, CR_SET_MAX}

(* Data stages of the full length of their value; the stale byte is then *)
(* never read.                                                             *)
MC_FullStages == {0}
MC_NoStale == {0}

(* Data stages one byte short (a zero-length mute SET, a one-byte volume *)
(* SET), over a control buffer last holding 0x00 or 0xff.                 *)
MC_ShortStages == {0, 1}
MC_StaleBytes == {0, 255}

====
