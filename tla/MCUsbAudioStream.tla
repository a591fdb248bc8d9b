-------------------------- MODULE MCUsbAudioStream --------------------------
(***************************************************************************)
(* Model-checking instance of UsbAudioStream.  A unit is 32 bytes, so a    *)
(* packet (192 bytes) is 6 units and a mono 48 kHz frame (96 bytes) is 3.  *)
(* The buffer holds 3 packets instead of 64: what matters to the cursor    *)
(* arithmetic is that it is a whole number of packets.  The cursors are   *)
(* bounded by MC_MaxCursor (7 packets, so every buffer goes round its      *)
(* storage twice); the uint32_t modulus 2^32 bytes is 2^27 units, and a    *)
(* model modulus above the bound behaves the same.  The backend offers    *)
(* one, two or three packets per callback: a partial drain or fill, the   *)
(* capture offer the fairness relies on, and a whole buffer.               *)
(***************************************************************************)
EXTENDS UsbAudioStream

MC_P == 6
MC_BufferUnits == 18
MC_CursorMod == 64
MC_MaxCursor == 42
MC_AvailSet == {6, 12, 18}
MC_RestoreAlts == {0, 1}

(* A migration stream is loaded as it comes: VMSTATE_UINT32 accepts any    *)
(* altset, and 2 stands for every value other than OFF and ON.             *)
MC_AnyRestoreAlts == {0, 1, 2}

(* Hosts that request whole packets on the capture endpoint. *)
MC_FullInLens == {6}

(* Hosts that also request one frame of the capture format the            *)
(* descriptors declare (mono, 16-bit, 48 kHz: 96 bytes, 3 units).          *)
MC_FrameInLens == {Desc!FrameBytes(Desc!StreamingSetting("in")) \div 32, MC_P}

(* Hosts that send whole 192-byte packets on the playback endpoint. *)
MC_FullOutLens == {6}

(* Hosts that also send a 96-byte packet (one mono frame), short of the   *)
(* 192 bytes the playback format declares.                                 *)
MC_FrameOutLens == {3, 6}

(* A modulus below the bound, so the uint32_t cursors wrap in the model.  *)
(* Like 2^27 against the real 384-unit buffer (remainder 128), 32 is not  *)
(* a multiple of the 18-unit buffer.                                       *)
MC_WrapCursorMod == 32
MC_WrapMaxCursor == 54

=============================================================================
