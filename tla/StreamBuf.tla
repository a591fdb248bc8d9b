------------------------------ MODULE StreamBuf ------------------------------
(***************************************************************************)
(* The circular byte buffer of dev-audio.c (struct streambuf and the       *)
(* streambuf_* functions), as pure operators over a buffer value.          *)
(*                                                                         *)
(* Lengths are counted in units of a fixed number of bytes (32 in the      *)
(* configurations), so a packet is P units.  A buffer value is a record    *)
(*   [size |-> allocated units, prod |-> producer cursor,                 *)
(*    cons |-> consumer cursor]                                            *)
(* The cursors are kept as mathematical naturals; the uint32_t the code    *)
(* stores is U32(cursor), and every computation the code makes (used,      *)
(* free, the physical offset) is made on that value, so the wrap of the    *)
(* 32-bit cursors happens exactly where it happens in the code.  The       *)
(* storage itself is a function from offsets to cells, kept apart from the *)
(* cursors by the modules that care about contents.                        *)
(***************************************************************************)
EXTENDS Naturals, Sequences

CONSTANTS
  P,          \* USBAUDIO_PACKET_SIZE, in units
  CursorMod   \* 2^32 in units: the modulus of the uint32_t cursors

ASSUME P \in Nat \ {0} /\ CursorMod \in Nat \ {0}

(* The value the uint32_t cursor field holds. *)
U32(x) == x % CursorMod

(* streambuf_init: free the old storage, allocate size rounded down to a   *)
(* whole number of packets, reset both cursors.                            *)
(* Mutant: the size is not rounded down to whole packets. *)
streambuf_init_unrounded(size) == [size |-> size, prod |-> 0, cons |-> 0]

streambuf_init(size) ==
  [size |-> size - (size % P), prod |-> 0, cons |-> 0]

(* uint32_t used = buf->prod - buf->cons *)
Used(b) == U32(U32(b.prod) - U32(b.cons))

(* uint32_t free = buf->size - (buf->prod - buf->cons) *)
Free(b) == U32(b.size - Used(b))

(* buf->data + (cursor % buf->size): the offset an access starts at. *)
(* Mutant: the cursor is used as the offset without % buf->size. *)
Offset_nomod(b, cursor) == U32(cursor)

Offset(b, cursor) == U32(cursor) % b.size

(* Whether len units starting at the cursor's offset lie in the storage. *)
(* On a buffer of size 0 the % buf->size divides by zero, and no access   *)
(* is inside the storage.                                                  *)
InStorage(b, cursor, len) == b.size # 0 /\ Offset(b, cursor) + len <= b.size

(***************************************************************************)
(* streambuf_put: returns 0 when there is no free space at all; otherwise  *)
(* asserts that a whole packet fits, copies P units at the producer        *)
(* offset and advances the producer.                                       *)
(***************************************************************************)
(* Mutant: the !free early return is missing. *)
PutAccepts_always(b) == TRUE

PutAccepts(b) == Free(b) # 0
PutAssertHolds(b) == Free(b) >= P
streambuf_put(b) == [b EXCEPT !.prod = @ + P]

(***************************************************************************)
(* streambuf_get: NULL when nothing or fewer than len units are used;      *)
(* otherwise the view starts at the consumer offset and the consumer       *)
(* advances by len.                                                        *)
(***************************************************************************)
GetOk(b, len) == Used(b) # 0 /\ ~(Used(b) < len)
streambuf_get(b, len) == [b EXCEPT !.cons = @ + len]

(***************************************************************************)
(* streambuf_alloc: NULL when there is no or too little free space;        *)
(* otherwise the region starts at the producer offset and the producer     *)
(* advances by len.                                                        *)
(***************************************************************************)
AllocOk(b, len) == Free(b) # 0 /\ ~(Free(b) < len)
streambuf_alloc(b, len) == [b EXCEPT !.prod = @ + len]

(***************************************************************************)
(* Storage contents.  data is a function from 0..size-1 to cells.  A copy  *)
(* of len cells at the cursor's offset changes only the cells inside the   *)
(* storage (what lands beyond it is a heap overflow, reported by the       *)
(* caller through InStorage); a view of len cells reads Junk beyond it.    *)
(***************************************************************************)
Storage(b) == 0 .. b.size - 1

Copy(b, data, cursor, cells) ==
  LET off == Offset(b, cursor)
  IN  [i \in Storage(b) |->
         IF off <= i /\ i < off + Len(cells) THEN cells[i - off + 1]
                                             ELSE data[i]]

(* Mutant: the view starts one unit past the consumer offset. *)
View_skew(b, data, cursor, len, Junk) ==
  LET off == Offset(b, cursor) + 1
  IN  [i \in 1 .. len |->
         IF off + i - 1 < b.size THEN data[off + i - 1] ELSE Junk]

View(b, data, cursor, len, Junk) ==
  LET off == Offset(b, cursor)
  IN  [i \in 1 .. len |->
         IF off + i - 1 < b.size THEN data[off + i - 1] ELSE Junk]

=============================================================================
