----------------------------- MODULE LogBuffer ------------------------------
(***************************************************************************)
(* The ring of log entries of the driver (core/drv/log_buff.c).  An entry  *)
(* is stored as                                                            *)
(*       SIZE  SEQ  data  SIZE                                             *)
(* so that the ring can be walked forwards, to drop the oldest entries,    *)
(* and backwards, to find the entry a reader has not seen yet.             *)
(*                                                                         *)
(* The model counts in cells of two bytes (a WCHAR), the unit in which all *)
(* entries are laid out: a ULONG takes two cells and may itself lie across *)
(* the end of the ring.  A cell holds a digit, so ULONGs are modulo        *)
(* Base * Base.  A pointer is the distance from buffer_data, and may be    *)
(* off by one round, as in the code.                                       *)
(***************************************************************************)
EXTENDS Integers, Sequences

CONSTANTS
    BufferSize,     (* cells of the ring                                   *)
    Base            (* values of a cell                                    *)

ASSUME RingAssumption ==
    /\ BufferSize \in Nat /\ BufferSize > 0
    /\ Base \in Nat /\ Base > 1

Ulong == 2                      (* sizeof(LOG_BUFFER_SIZE_T), in cells     *)
Limit == Base * Base            (* 2^32                                    *)

Cell  == 0 .. Base - 1
Ring  == [seq_counter : 0 .. Limit - 1, buffer_used : 0 .. BufferSize,
          buffer_start_ptr : 0 .. BufferSize - 1,
          buffer_data : [0 .. BufferSize - 1 -> Cell]]

(* A ring whatever is written in it, where nothing needs to be an entry.   *)
AnyRing == [seq_counter : Int, buffer_used : Int, buffer_start_ptr : Int,
            buffer_data : [0 .. BufferSize - 1 -> Int]]

TotalSize(size) == size + 2 * Ulong + Ulong

(* No loop over the entries of a ring takes more rounds than there can be  *)
(* entries.                                                                *)
MostEntries == BufferSize \div TotalSize(0)

(* log_buffer_init.  The memory is not cleared, and nothing is read that   *)
(* was not written before.                                                 *)
EmptyRing == [seq_counter |-> 0, buffer_used |-> 0, buffer_start_ptr |-> 0,
              buffer_data |-> [i \in 0 .. BufferSize - 1 |-> 0]]

-----------------------------------------------------------------------------
(* Bytes                                                                   *)

(* log_buffer_byte_at corrects a pointer by one round, either way.         *)
ByteAt(ptr) ==
    IF ptr >= BufferSize THEN ptr - BufferSize
    ELSE IF ptr < 0 THEN ptr + BufferSize
    ELSE ptr

(* The position of the i-th byte from ptr on: the pointer is corrected      *)
(* before every access, and then moves by one.                             *)
Nth(ptr, i) == (ByteAt(ptr) + i - 1) % BufferSize

(* The pointer behind k bytes.                                             *)
Behind(ptr, k) == IF k = 0 THEN ptr ELSE Nth(ptr, k) + 1

PushBytes(ring, ptr, bytes) ==
    LET at(p) == ((p - ByteAt(ptr)) % BufferSize) + 1 IN
    [ring EXCEPT !.buffer_data =
        [p \in DOMAIN @ |-> IF at(p) \in DOMAIN bytes THEN bytes[at(p)] ELSE @[p]]]

GetBytes(ring, ptr, k) == [i \in 1 .. k |-> ring.buffer_data[Nth(ptr, i)]]

ToBytes(n)     == <<n % Base, n \div Base>>
FromBytes(b)   == b[1] + Base * b[2]
GetUlong(ring, ptr) == FromBytes(GetBytes(ring, ptr, Ulong))

-----------------------------------------------------------------------------
(* Entries                                                                 *)

Wrapped(ptr) == IF ptr >= BufferSize THEN ptr - BufferSize ELSE ptr

(* log_buffer_pop_entry drops the oldest entry, if there is one.           *)
PopEntry(ring) ==
    IF ring.buffer_used = 0 THEN ring
    ELSE LET total == TotalSize(GetUlong(ring, ring.buffer_start_ptr))
         IN [ring EXCEPT !.buffer_start_ptr = Wrapped(@ + total),
                         !.buffer_used = @ - total]

HasRoom(ring, size) == BufferSize - ring.buffer_used >= TotalSize(size)

(* What the rounds of a loop do to x: step once, twice, ... n times.       *)
Iterate(step, x, n) ==
    LET round[k \in 0 .. n] == IF k = 0 THEN x ELSE step[round[k - 1]]
    IN round

(* The loop of log_buffer_push_entry: entries are dropped until there is   *)
(* room.                                                                   *)
PopUntilRoom(ring, size) ==
    LET popped == Iterate([r \in AnyRing |-> PopEntry(r)], ring, MostEntries)
        enough == CHOOSE k \in 0 .. MostEntries :
                      /\ HasRoom(popped[k], size)
                      /\ \A j \in 0 .. k - 1 : ~ HasRoom(popped[j], size)
    IN popped[enough]

Successor(seq) == (seq + 1) % Limit

(* log_buffer_push_entry and the log_buffer_push_bytes calls that follow.  *)
(* The number is used up also when the entry does not fit and nothing may  *)
(* be dropped.                                                             *)
Fits(size) == TotalSize(size) <= BufferSize

AppendEntry(ring, data) ==
    LET size  == Len(data)
        first == ring.buffer_start_ptr + ring.buffer_used
        used  == [ring EXCEPT !.buffer_used = @ + TotalSize(size)]
        head  == PushBytes(used, first, ToBytes(size) \o ToBytes(ring.seq_counter))
        write_ptr == Behind(first, 2 * Ulong)
        tail  == PushBytes(head, write_ptr + size, ToBytes(size))
    IN PushBytes(tail, write_ptr, data)

PushEntry(ring, data, can_pop) ==
    LET size   == Len(data)
        number == [ring EXCEPT !.seq_counter = Successor(@)]
    IN IF ~ Fits(size) THEN ring
       ELSE IF HasRoom(ring, size) THEN AppendEntry(number, data)
       ELSE IF can_pop THEN AppendEntry(PopUntilRoom(number, size), data)
       ELSE number

(* Whether log_buffer_push_entry returned a pointer. *)
Pushed(ring, data, can_pop) ==
    Fits(Len(data)) /\ (can_pop \/ HasRoom(ring, Len(data)))

-----------------------------------------------------------------------------
(* Reading                                                                 *)

BugGetNext(seq, ring) ==
    IF ring.buffer_used = 0 THEN {} ELSE {ring.buffer_start_ptr}

(* The end of the entry that ends where left cells of the ring are left,   *)
(* its size, its beginning and its number.                                 *)
EndPtr(ring, left)  == ring.buffer_start_ptr + left - Ulong
TotalAt(ring, left) == TotalSize(GetUlong(ring, EndPtr(ring, left)))
ReadPtr(ring, left) == Behind(EndPtr(ring, left), Ulong) - TotalAt(ring, left)
NumberAt(ring, left) == GetUlong(ring, ReadPtr(ring, left) + Ulong)

(* log_buffer_get_next: the entry after number seq, found by walking back  *)
(* from the newest entry, or the oldest entry, or none.  A pointer is      *)
(* returned as a set with one member, NULL as the empty set.               *)
GetNext(seq, ring) ==
    LET left == Iterate([l \in Int |-> l - TotalAt(ring, l)], ring.buffer_used, MostEntries)
        gotLast(k) == k = 0 /\ NumberAt(ring, left[k]) = seq
        ends(k) == \/ left[k] = 0 \/ gotLast(k)
                   \/ NumberAt(ring, left[k]) = Successor(seq)
        k == CHOOSE k \in 0 .. MostEntries : ends(k) /\ \A j \in 0 .. k - 1 : ~ ends(j)
    IN IF ring.buffer_used = 0 THEN {}
       ELSE IF left[k] = 0 THEN {ring.buffer_start_ptr}
       ELSE IF gotLast(k) THEN {}
       ELSE {ReadPtr(ring, left[k])}

SizeAt(ring, ptr)  == GetUlong(ring, ptr)
SeqAt(ring, ptr)   == GetUlong(ring, Behind(ptr, Ulong))
DataPtr(ptr)       == Behind(ptr, 2 * Ulong)

(* What walking the ring forwards yields: what is read at each entry, a    *)
(* member of S, oldest first.                                              *)
WalkOne(ring, read, walk) ==
    LET ptr == ring.buffer_start_ptr + walk.past IN
    IF walk.past = ring.buffer_used THEN walk
    ELSE [past |-> walk.past + TotalSize(SizeAt(ring, ptr)),
          seen |-> Append(walk.seen, read[ptr])]

Walk(ring, S, read) ==
    LET step == [walk \in [past : Int, seen : Seq(S)] |-> WalkOne(ring, read, walk)]
    IN Iterate(step, [past |-> 0, seen |-> << >>], MostEntries)[MostEntries].seen
=============================================================================
