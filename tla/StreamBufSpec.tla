---------------------------- MODULE StreamBufSpec ----------------------------
(***************************************************************************)
(* One stream buffer driven through its whole interface by one producer    *)
(* and one consumer, the way dev-audio.c drives it: the host's data-out    *)
(* packets go in through streambuf_put, the capture callback's packets     *)
(* through streambuf_alloc followed by the backend's fill, the consumers   *)
(* take chunks through streambuf_get, and an alternate-setting change to   *)
(* OFF re-initialises it.  Every cell written carries the number of the    *)
(* packet and its position in it, so the model can tell whether a          *)
(* consumer gets back exactly what was put in.                             *)
(***************************************************************************)
EXTENDS Naturals, Sequences, FiniteSets

CONSTANTS
  P,           \* packet size, in units
  CursorMod,   \* modulus of the uint32_t cursors, in units
  Capacity,    \* the size passed to streambuf_init, in units
  ReadLens,    \* the lengths consumers pass to streambuf_get
  MaxPackets,  \* bound on the packets produced in a behaviour
  Junk         \* the contents of storage nothing has written

ASSUME ReadLens \subseteq 1 .. Capacity /\ MaxPackets \in Nat

SB == INSTANCE StreamBuf

VARIABLES
  buf,     \* cursors and size of the buffer
  data,    \* its storage, offset -> cell
  seq,     \* packets produced so far (history)
  view,    \* the chunk the last streambuf_get returned
  faults   \* memory faults that have happened (history)

vars == <<buf, data, seq, view, faults>>

(* A unit written by the host (usb_packet_copy) or by the backend voice   *)
(* (AUD_read), as part i of packet n.                                      *)
Cell == [src : {"host", "voice"}, pkt : 0 .. MaxPackets - 1, part : 1 .. P]

(* The P cells of packet n, as its producer copies them in. *)
Packet(src, n) == [i \in 1 .. P |-> [src |-> src, pkt |-> n, part |-> i]]

(* Freshly g_malloc'ed storage: nothing written yet. *)
FreshStorage(b) == [i \in SB!Storage(b) |-> Junk]

(* A fault of the given kind unless the condition holds. *)
FaultUnless(cond, kind) == IF cond THEN {} ELSE {kind}

Init ==
  /\ buf = SB!streambuf_init(Capacity)
  /\ data = FreshStorage(buf)
  /\ seq = 0
  /\ view = << >>
  /\ faults = {}

(* streambuf_put with no free space returns 0 and drops the packet: a    *)
(* stuttering step.                                                        *)
(* streambuf_put with a full packet and free space: the assertion, the    *)
(* copy at the producer offset, the producer advance.                      *)
Put ==
  /\ seq < MaxPackets
  /\ SB!PutAccepts(buf)
  /\ faults' = faults \cup FaultUnless(SB!PutAssertHolds(buf), "assert")
                      \cup FaultUnless(SB!InStorage(buf, buf.prod, P), "overflow")
  /\ data' = SB!Copy(buf, data, buf.prod, Packet("host", seq))
  /\ buf' = SB!streambuf_put(buf)
  /\ seq' = seq + 1
  /\ UNCHANGED view

(* streambuf_alloc of a packet followed by the backend filling the region *)
(* it returned (one iteration of input_callback).                          *)
AllocFill ==
  /\ seq < MaxPackets
  /\ SB!AllocOk(buf, P)
  /\ faults' = faults \cup FaultUnless(SB!InStorage(buf, buf.prod, P), "overflow")
  /\ data' = SB!Copy(buf, data, buf.prod, Packet("voice", seq))
  /\ buf' = SB!streambuf_alloc(buf, P)
  /\ seq' = seq + 1
  /\ UNCHANGED view

(* streambuf_get of len units that are there: the consumer reads len      *)
(* cells from the consumer offset.                                         *)
Get(len) ==
  /\ SB!GetOk(buf, len)
  /\ faults' = faults \cup FaultUnless(SB!InStorage(buf, buf.cons, len), "overread")
  /\ view' = SB!View(buf, data, buf.cons, len, Junk)
  /\ buf' = SB!streambuf_get(buf, len)
  /\ UNCHANGED <<data, seq>>

(* streambuf_init on a transition to ALTSET_OFF. *)
Reinit ==
  /\ buf' = SB!streambuf_init(Capacity)
  /\ data' = FreshStorage(buf')
  /\ UNCHANGED <<seq, view, faults>>

Next ==
  \/ Put
  \/ AllocFill
  \/ \E len \in ReadLens : Get(len)
  \/ Reinit

Spec == Init /\ [][Next]_vars

-----------------------------------------------------------------------------

TypeOK ==
  /\ buf \in [size : 0 .. Capacity, prod : Nat, cons : Nat]
  /\ buf.cons <= buf.prod /\ buf.prod <= buf.cons + buf.size
  /\ data \in [SB!Storage(buf) -> Cell \cup {Junk}]
  /\ seq \in 0 .. MaxPackets
  /\ view \in Seq(Cell \cup {Junk})
  /\ faults \subseteq {"assert", "overflow", "overread"}

(* The buffer's contents as the code addresses them: the unit at cursor   *)
(* value c lives at data[U32(c) % size], for c from cons up to prod.       *)
Contents ==
  [i \in 1 .. SB!Used(buf) |-> data[SB!Offset(buf, buf.cons + i - 1)]]

(* Every access streambuf_put, streambuf_alloc and streambuf_get make     *)
(* lies inside the storage, and the assertion in streambuf_put holds.      *)
MemorySafe == faults = {}

Fifo == INSTANCE StreamFifo WITH
          Capacity <- Capacity - (Capacity % P),
          q <- Contents,
          out <- view

(* The buffer implements a bounded FIFO: each streambuf_get returns the   *)
(* oldest units put in, in order, each put appends exactly the packet,    *)
(* nothing is ever overwritten before it is read, and streambuf_init       *)
(* discards everything.                                                    *)
RefinesFifo == Fifo!Spec

=============================================================================
