--------------------------- MODULE MCStreamBufSpec ---------------------------
(***************************************************************************)
(* Model-checking instance of StreamBufSpec.  A packet is 2 units and the  *)
(* buffer is asked for 7 units, so streambuf_init rounds it down to 3      *)
(* packets, and within MaxPackets the producer and consumer go round the   *)
(* ring three times.  Consumers read one whole packet at a time, as        *)
(* output_callback and a full-size data-in transfer do (a read of two      *)
(* packets can straddle the end of the storage).  The cursors stay far     *)
(* below the uint32_t wrap, which is the subject of the UsbAudioStream     *)
(* runs.                                                                   *)
(***************************************************************************)
EXTENDS StreamBufSpec

MC_P == 2
MC_CursorMod == 64
MC_Capacity == 7
MC_ReadLens == {2}
MC_MaxPackets == 9

=============================================================================
