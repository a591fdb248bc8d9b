---------------------------- MODULE UsbAudioStream ----------------------------
(***************************************************************************)
(* The streaming side of the USB audio device (dev-audio.c): for each      *)
(* direction the alternate setting, the stream buffer and the backend      *)
(* voice, driven by the handlers the USB core and the audio backend call:  *)
(* realize, reset, set_interface, data-out and data-in transfers, the      *)
(* output and input callbacks, destroy, the post-load hook of a snapshot   *)
(* restore, and the host power-event callback.                             *)
(*                                                                         *)
(* Everything runs on one thread (spec section 5), so each handler is one  *)
(* atomic step.  Transfers that stall or drop their packet change no state *)
(* and are the stuttering steps.  The contents of the buffers are the      *)
(* subject of StreamBufSpec; here a buffer is its cursors and size.        *)
(***************************************************************************)
EXTENDS Naturals, FiniteSets, TLC

CONSTANTS
  P,            \* USBAUDIO_PACKET_SIZE, in units
  CursorMod,    \* 2^32 bytes, in units
  BufferUnits,  \* s->buffer = 64 * USBAUDIO_PACKET_SIZE, in units
  InLens,       \* sizes of the host's data-in transfers, in units
  OutLens,      \* sizes of the host's data-out packets, in units
  AvailSet,     \* the avail values the backend passes to the callbacks
  RestoreAlts,  \* alternate settings a snapshot can carry
  MaxCursor     \* bound on the buffer cursors

ASSUME /\ BufferUnits \in Nat /\ MaxCursor \in Nat
       /\ InLens \subseteq Nat \ {0} /\ OutLens \subseteq Nat \ {0}
       /\ AvailSet \subseteq Nat

SB == INSTANCE StreamBuf

Dirs == {"out", "in"}

ALTSET_OFF == 0
ALTSET_ON  == 1

(* The descriptor tables: the USB core calls set_interface only with an   *)
(* interface and alternate setting they declare.                           *)
Desc == INSTANCE UsbAudioDesc

(* usb_audio_set_interface: interface 1 is playback, 2 is capture. *)
IfaceDir == (1 :> "out") @@ (2 :> "in")

VARIABLES
  st,      \* st[d]: s->out / s->in: altset, buf, and the voice's state
  phase,   \* "realized", "running" or "destroyed"
  faults,  \* memory faults that have happened (history)
  suspended \* whether the last host power event suspended the voices

vars == <<st, phase, faults, suspended>>

FaultUnless(cond, kind) == IF cond THEN {} ELSE {kind}

Min2(a, b) == IF a < b THEN a ELSE b

(***************************************************************************)
(* usb_audio_set_output_altset / usb_audio_set_input_altset: OFF           *)
(* re-initialises the buffer and deactivates the voice, ON activates it,   *)
(* any other value returns -1 and changes nothing.                         *)
(***************************************************************************)
(* Mutant: switching ON re-initialises the buffer as well. *)
SetAltset_reinit_on(sd, v) ==
  CASE v = ALTSET_OFF -> [sd EXCEPT !.buf = SB!streambuf_init(BufferUnits),
                                    !.active = FALSE, !.altset = v]
    [] v = ALTSET_ON  -> [sd EXCEPT !.buf = SB!streambuf_init(BufferUnits),
                                    !.active = TRUE, !.altset = v]
    [] OTHER          -> sd

SetAltset(sd, v) ==
  CASE v = ALTSET_OFF -> [sd EXCEPT !.buf = SB!streambuf_init(BufferUnits),
                                    !.active = FALSE, !.altset = v]
    [] v = ALTSET_ON  -> [sd EXCEPT !.active = TRUE, !.altset = v]
    [] OTHER          -> sd

(***************************************************************************)
(* usb_audio_realize.  s->buffer is still zero (the object is allocated    *)
(* zeroed) when the out buffer is initialised, and is set to 64 packets    *)
(* only before the in buffer is.  Both voices are opened inactive.         *)
(***************************************************************************)
Init ==
  /\ st = [d \in Dirs |->
             [altset |-> ALTSET_OFF,
              buf    |-> SB!streambuf_init(IF d = "out" THEN 0 ELSE BufferUnits),
              open   |-> TRUE,
              active |-> FALSE]]
  /\ phase = "realized"
  /\ faults = {}
  /\ suspended = FALSE

(* usb_audio_handle_reset: both directions to ALTSET_OFF. *)
Reset ==
  /\ phase \in {"realized", "running"}
  /\ st' = [d \in Dirs |-> SetAltset(st[d], ALTSET_OFF)]
  /\ phase' = "running"
  /\ UNCHANGED <<faults, suspended>>

(* usb_audio_set_interface: interface 1 is playback, 2 is capture, any    *)
(* other interface is ignored.  The USB core only passes alternate        *)
(* settings the descriptors declare.                                       *)
SetInterface(iface, v) ==
  /\ phase = "running"
  /\ st' = IF iface \in DOMAIN IfaceDir
             THEN [st EXCEPT ![IfaceDir[iface]] = SetAltset(@, v)]
             ELSE st
  /\ UNCHANGED <<phase, faults, suspended>>

(* usb_audio_handle_data, OUT token to endpoint 1: usb_audio_handle_dataout *)
(* offers the packet to streambuf_put when the stream is not OFF.  That    *)
(* copies a whole USBAUDIO_PACKET_SIZE out of the packet with              *)
(* usb_packet_copy, which asserts that the packet holds that many bytes.   *)
DataOut(size) ==
  LET b == st["out"].buf IN
  /\ phase = "running"
  /\ st["out"].altset # ALTSET_OFF
  /\ SB!PutAccepts(b)
  /\ b.prod + P <= MaxCursor
  /\ faults' = faults \cup FaultUnless(SB!PutAssertHolds(b), "assert")
                      \cup FaultUnless(P <= size, "packet_assert")
                      \cup FaultUnless(SB!InStorage(b, b.prod, P), "overflow")
  /\ st' = [st EXCEPT !["out"].buf = SB!streambuf_put(b)]
  /\ UNCHANGED <<phase, suspended>>

(* usb_audio_handle_data, IN token to endpoint 1: usb_audio_handle_datain  *)
(* takes MIN(USBAUDIO_PACKET_SIZE, transfer size) from the in buffer when *)
(* the stream is not OFF and that much is there.                           *)
DataIn(size) ==
  LET b   == st["in"].buf
      len == Min2(P, size)
  IN
  /\ phase = "running"
  /\ st["in"].altset # ALTSET_OFF
  /\ SB!GetOk(b, len)
  /\ faults' = faults \cup FaultUnless(SB!InStorage(b, b.cons, len), "overread")
  /\ st' = [st EXCEPT !["in"].buf = SB!streambuf_get(b, len)]
  /\ UNCHANGED <<phase, suspended>>

(***************************************************************************)
(* output_callback: while avail admits a packet and the buffer has one,   *)
(* hand it to the voice.  input_callback: while avail exceeds a packet and *)
(* the buffer has room, let the voice fill one.  Each returns the new      *)
(* buffer and the faults its accesses made.                                *)
(***************************************************************************)
(* Mutants: the loop stops at avail <= P, or misses the NULL check. *)
RECURSIVE output_loop_le(_, _)
output_loop_le(b, avail) ==
  IF avail <= P \/ ~SB!GetOk(b, P)
    THEN [buf |-> b, faults |-> {}]
    ELSE LET r == output_loop_le(SB!streambuf_get(b, P), avail - P)
         IN  [r EXCEPT !.faults =
                @ \cup FaultUnless(SB!InStorage(b, b.cons, P), "overread")]

RECURSIVE output_loop_nonull(_, _)
output_loop_nonull(b, avail) ==
  IF avail < P
    THEN [buf |-> b, faults |-> {}]
    ELSE output_loop_nonull(SB!streambuf_get(b, P), avail - P)

RECURSIVE output_loop(_, _)
output_loop(b, avail) ==
  IF avail < P \/ ~SB!GetOk(b, P)
    THEN [buf |-> b, faults |-> {}]
    ELSE LET r == output_loop(SB!streambuf_get(b, P), avail - P)
         IN  [r EXCEPT !.faults =
                @ \cup FaultUnless(SB!InStorage(b, b.cons, P), "overread")]

(* Mutant: the loop keeps a packet of the backend's data in reserve. *)
RECURSIVE input_loop_reserve(_, _)
input_loop_reserve(b, avail) ==
  IF ~(avail > 2 * P) \/ ~SB!AllocOk(b, P)
    THEN [buf |-> b, faults |-> {}]
    ELSE LET r == input_loop_reserve(SB!streambuf_alloc(b, P), avail - P)
         IN  [r EXCEPT !.faults =
                @ \cup FaultUnless(SB!InStorage(b, b.prod, P), "overflow")]

RECURSIVE input_loop(_, _)
input_loop(b, avail) ==
  IF ~(avail > P) \/ ~SB!AllocOk(b, P)
    THEN [buf |-> b, faults |-> {}]
    ELSE LET r == input_loop(SB!streambuf_alloc(b, P), avail - P)
         IN  [r EXCEPT !.faults =
                @ \cup FaultUnless(SB!InStorage(b, b.prod, P), "overflow")]

(* The backend calls a voice's callback only while the voice is active. *)
OutputCallback(avail) ==
  LET r == output_loop(st["out"].buf, avail) IN
  /\ st["out"].open /\ st["out"].active
  /\ st' = [st EXCEPT !["out"].buf = r.buf]
  /\ faults' = faults \cup r.faults
  /\ UNCHANGED <<phase, suspended>>

InputCallback(avail) ==
  LET r == input_loop(st["in"].buf, avail) IN
  /\ st["in"].open /\ st["in"].active
  /\ r.buf.prod <= MaxCursor
  /\ st' = [st EXCEPT !["in"].buf = r.buf]
  /\ faults' = faults \cup r.faults
  /\ UNCHANGED <<phase, suspended>>

(* usb_audio_handle_data: an OUT token to endpoint 1 is a data-out        *)
(* transfer, an IN token to endpoint 1 a data-in transfer; anything else  *)
(* stalls and changes nothing.                                             *)
HandleData(pid, ep, size) ==
  \/ pid = "out" /\ ep = 1 /\ DataOut(size)
  \/ pid = "in" /\ ep = 1 /\ DataIn(size)

(* usb_audio_handle_destroy: each direction to OFF and its voice closed,   *)
(* then both buffers freed.  The power-event callback stays registered.    *)
Destroy ==
  /\ phase \in {"realized", "running"}
  /\ st' = [d \in Dirs |-> [SetAltset(st[d], ALTSET_OFF) EXCEPT !.open = FALSE]]
  /\ phase' = "destroyed"
  /\ UNCHANGED <<faults, suspended>>

(* A snapshot restore into the freshly realized device: the saved altset  *)
(* fields are loaded, then usb_audio_post_load re-applies each of them.    *)
Restore(vo, vi) ==
  LET loaded == [st EXCEPT !["out"].altset = vo, !["in"].altset = vi] IN
  /\ phase = "realized"
  /\ st' = [d \in Dirs |-> SetAltset(loaded[d], loaded[d].altset)]
  /\ phase' = "running"
  /\ UNCHANGED <<faults, suspended>>

(* host_power_event_callback: event 0 suspends both voices, any other     *)
(* resumes them, through the pointers in s.  Once the device is destroyed *)
(* those voices are closed.                                                *)
PowerEvent(event) ==
  /\ suspended' = (event = 0)
  /\ faults' = faults \cup FaultUnless(phase # "destroyed", "closed_voice")
  /\ UNCHANGED <<st, phase>>

Next ==
  \/ Reset
  \/ \E iface \in Desc!Interfaces : \E v \in Desc!AltsOf[iface] : SetInterface(iface, v)
  \/ \E pid \in {"out", "in"}, ep \in {1, 2} :
       \E size \in IF pid = "out" THEN OutLens ELSE InLens :
         HandleData(pid, ep, size)
  \/ \E avail \in AvailSet : OutputCallback(avail)
  \/ \E avail \in AvailSet : InputCallback(avail)
  \/ Destroy
  \/ \E vo, vi \in RestoreAlts : Restore(vo, vi)
  \/ \E event \in {0, 1} : PowerEvent(event)

(* The audio backend keeps pulling an active playback voice, and offers   *)
(* it room for at least one packet each period.  It keeps pushing an      *)
(* active capture voice, and what it recorded and the callback did not    *)
(* read stays pending, so an offer of two packets keeps coming.            *)
Fairness ==
  /\ WF_vars(OutputCallback(P))
  /\ WF_vars(InputCallback(2 * P))

Spec == Init /\ [][Next]_vars /\ Fairness

-----------------------------------------------------------------------------

(* A buffer's cursors: the consumer never passes the producer, and the   *)
(* producer is never more than the storage ahead of it.                    *)
Buffer == {b \in [size : 0 .. BufferUnits, prod : Nat, cons : Nat] :
             b.cons <= b.prod /\ b.prod <= b.cons + b.size}

TypeOK ==
  /\ st \in [Dirs -> [altset : {ALTSET_OFF, ALTSET_ON}, buf : Buffer,
                      open : BOOLEAN, active : BOOLEAN]]
  /\ phase \in {"realized", "running", "destroyed"}
  /\ faults \subseteq {"assert", "packet_assert", "overflow", "overread",
                       "closed_voice"}
  /\ suspended \in BOOLEAN

(* Every access the transfers and callbacks make through streambuf_put,   *)
(* streambuf_get and streambuf_alloc stays inside the buffer's storage,   *)
(* and the assertion in streambuf_put holds.                               *)
MemorySafe == faults \cap {"assert", "overflow", "overread"} = {}

(* The streams implement the altset state machine of spec section 4.2    *)
(* (StreamStateSpec) under the mapping: state <- altset, buffered level    *)
(* <- the buffer's used count, voice <- open and active.  Every handler,   *)
(* realize, reset, set_interface, the routed transfers, both callbacks,   *)
(* post_load and destroy, moves each direction by a step the state        *)
(* machine allows: OFF discards and deactivates, ON activates and keeps    *)
(* the buffer, the host moves data only while ON and the voice only while  *)
(* active, in whole packets, within the capacity.                          *)
Abstract == INSTANCE StreamStateSpec WITH
  alt      <- [d \in Dirs |-> st[d].altset],
  level    <- [d \in Dirs |-> SB!Used(st[d].buf)],
  voice    <- [d \in Dirs |-> st[d].open /\ st[d].active],
  Capacity <- BufferUnits - (BufferUnits % P)

RefinesStreamState == Abstract!Spec

(* Every packet the playback buffer accepts is eventually handed to the   *)
(* backend by output_callback, unless switching the stream off discards   *)
(* it first.                                                               *)
PlaybackDelivered ==
  \A k \in 1 .. MaxCursor :
    (st["out"].buf.prod >= k)
      ~> (st["out"].buf.cons >= k \/ st["out"].buf.prod < k)

(* While capture is ON, an empty capture buffer with room below the      *)
(* cursor bound is eventually given data by input_callback, unless the    *)
(* stream is switched off first.  input_callback reads only while avail   *)
(* exceeds a packet, so this rests on the backend offering more than one. *)
CaptureFilled ==
  LET b == st["in"].buf IN
  (st["in"].active /\ SB!Used(b) = 0 /\ b.prod + P <= MaxCursor)
    ~> (SB!Used(st["in"].buf) > 0 \/ ~st["in"].active)

(* A stream that is ON has its buffer of 64 packets to stream through      *)
(* (spec section 3: the buffer is created at construction and re-created   *)
(* on every transition to OFF).                                            *)
StreamBufferAllocated ==
  \A d \in Dirs :
    st[d].altset = ALTSET_ON => st[d].buf.size = BufferUnits - (BufferUnits % P)

(* A stream whose transfers the data handlers serve (altset not OFF) has  *)
(* an active voice to feed or drain its buffer.                            *)
StreamingVoiceActive ==
  \A d \in Dirs : st[d].open /\ st[d].altset # ALTSET_OFF => st[d].active

(* A data-out packet of any size the host sends is handled without        *)
(* aborting the emulator: usb_packet_copy is never asked for more bytes   *)
(* than the packet holds (spec section 7: nothing is fatal to the device, *)
(* every failure is scoped to one transaction).                            *)
PacketCopyInBounds == "packet_assert" \notin faults

(* The host power-event callback never reaches the voices of a destroyed  *)
(* device.                                                                 *)
NoPowerEventAfterDestroy == "closed_voice" \notin faults

=============================================================================
