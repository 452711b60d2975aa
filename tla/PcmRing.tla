------------------------------ MODULE PcmRing ------------------------------
(***************************************************************************)
(* PcmRingBuffer (src/pcm_ring.{h,cpp}): the lock-free byte ring between    *)
(* the sync task that writes audio and the audio callback that reads it.    *)
(*                                                                          *)
(* Every access to a shared atomic is a step of its own.  The producer      *)
(* side -- write(), free_space() and request_clear(), and drop() and        *)
(* reset() while the stream is stopped -- is one thread at a time, because  *)
(* every caller holds the sink's mutex; read() runs beside it.  A memcpy is *)
(* one step per contiguous chunk; NoDataRace says why that is enough.       *)
(* Bytes are numbered as they are accepted.                                 *)
(***************************************************************************)
EXTENDS Integers, Sequences, FiniteSets

CONSTANTS
    Capacities,        \* what reset() is called with
    MaxLen,            \* bound of the length of one call
    MaxWritten         \* bound of the bytes ever written

ASSUME RingAssumption ==
    /\ Capacities \subseteq Nat
    /\ MaxLen \in Nat
    /\ MaxWritten \in Nat

VARIABLES
    buffer, capacity,                       \* the storage
    write_pos, read_pos, clear_requested,   \* the atomics
    running,    \* the backend's stream is started: read() may be called
    producer,   \* where write() is, and its locals
    consumer,   \* where read() is, and its locals
    room,       \* what free_space() last said in this critical section
    written,    \* history: bytes accepted
    cleared,    \* history: bytes accepted when a clear was last requested
    floor,      \* history: `cleared` as the current read() began
    overtaken,  \* history: a drain's store has been seen after its load
    returned    \* history: what the last finished read() gave back

shared == <<buffer, capacity, write_pos, read_pos, clear_requested>>
history == <<written, cleared, floor, overtaken, returned>>
vars == <<shared, running, producer, consumer, room, history>>

idle == [pc |-> "idle"]

Init ==
    /\ buffer = <<>> /\ capacity = 0
    /\ write_pos = 0 /\ read_pos = 0 /\ clear_requested = FALSE
    /\ running = FALSE
    /\ producer = idle /\ consumer = idle
    /\ room = 0
    /\ written = 0 /\ cleared = 0 /\ floor = 0 /\ overtaken = FALSE
    /\ returned = <<>>

-----------------------------------------------------------------------------
lesser(a, b) == IF a <= b THEN a ELSE b

used(w, r, cap) == (w - r + cap) % cap

\* One byte is always left spare, which tells a full ring from an empty one.
bug_no_spare_byte(w, r, cap) == IF cap = 0 THEN 0 ELSE cap - used(w, r, cap)
free(w, r, cap) == IF cap = 0 THEN 0 ELSE cap - 1 - used(w, r, cap)

\* The indices of n bytes from pos on, and the two chunks they are copied in.
Cells(pos, n) == {(pos + i) % capacity : i \in 0 .. n - 1}
FirstChunk(pos, n) == lesser(n, capacity - pos)

-----------------------------------------------------------------------------
(* The producer's side.                                                     *)

bug_clear_is_room ==
    /\ producer.pc = "idle"
    /\ room' = IF clear_requested /\ capacity > 0 THEN capacity - 1
               ELSE free(write_pos, read_pos, capacity)
    /\ UNCHANGED <<shared, running, producer, consumer, history>>

\* The sink asks for room before it writes; write_pos cannot move meanwhile.
FreeSpace ==
    /\ producer.pc = "idle"
    /\ room' = free(write_pos, read_pos, capacity)
    /\ UNCHANGED <<shared, running, producer, consumer, history>>

\* write(): both positions are loaded and the amount is fixed.
WriteLoad(len) ==
    /\ producer.pc = "idle"
    /\ written + len <= MaxWritten
    /\ LET to_write == lesser(len, free(write_pos, read_pos, capacity)) IN
       /\ to_write > 0
       /\ producer' = [pc |-> "copy", at |-> write_pos, len |-> len, to_write |-> to_write]
    /\ UNCHANGED <<shared, running, consumer, room, history>>

\* The memcpy up to the end of the storage.
WriteCopy ==
    /\ producer.pc = "copy"
    /\ LET n == FirstChunk(producer.at, producer.to_write) IN
       /\ buffer' = [i \in DOMAIN buffer |->
                        IF i \in Cells(producer.at, n) THEN written + 1 + i - producer.at
                        ELSE buffer[i]]
       /\ producer' = [producer EXCEPT !.pc = IF n < producer.to_write THEN "wrap" ELSE "publish"]
    /\ UNCHANGED <<capacity, write_pos, read_pos, clear_requested, running, consumer, room, history>>

\* The memcpy of what wrapped round to its beginning.
WriteWrap ==
    /\ producer.pc = "wrap"
    /\ LET n == FirstChunk(producer.at, producer.to_write) IN
       buffer' = [i \in DOMAIN buffer |->
                     IF i < producer.to_write - n THEN written + n + 1 + i ELSE buffer[i]]
    /\ producer' = [producer EXCEPT !.pc = "publish"]
    /\ UNCHANGED <<capacity, write_pos, read_pos, clear_requested, running, consumer, room, history>>

\* The release store that hands the bytes over.
WritePublish ==
    /\ producer.pc = "publish"
    /\ write_pos' = (producer.at + producer.to_write) % capacity
    /\ written' = written + producer.to_write
    /\ producer' = idle
    /\ room' = 0
    /\ UNCHANGED <<buffer, capacity, read_pos, clear_requested, running, consumer,
                   cleared, floor, overtaken, returned>>

request_clear ==
    /\ producer.pc = "idle"
    /\ clear_requested' = TRUE
    /\ cleared' = written
    /\ room' = 0
    /\ UNCHANGED <<buffer, capacity, write_pos, read_pos, running, producer, consumer,
                   written, floor, overtaken, returned>>

-----------------------------------------------------------------------------
(* The consumer's side: one call of read() at a time, on the audio thread.  *)

\* read() looks at the request flag first.
ReadBegin(len) ==
    /\ running /\ consumer.pc = "idle"
    /\ capacity > 0
    /\ consumer' = [pc |-> IF clear_requested THEN "store" ELSE "load", len |-> len, seen |-> -1]
    /\ floor' = cleared
    /\ UNCHANGED <<shared, running, producer, room, written, cleared, overtaken, returned>>

\* The relaxed store that takes the request.
ClearStore ==
    /\ consumer.pc = "store"
    /\ clear_requested' = FALSE
    /\ consumer' = [consumer EXCEPT !.pc = "drain"]
    /\ UNCHANGED <<buffer, capacity, write_pos, read_pos, running, producer, room, history>>

\* The load that says how far to drain.  Nothing orders it after the store
\* before it: it may take effect first.
ClearLoad ==
    /\ consumer.pc \in {"drain", "store"}
    /\ consumer.seen = -1
    /\ consumer' = [consumer EXCEPT !.seen = write_pos]
    /\ overtaken' = (overtaken \/ consumer.pc = "store")
    /\ UNCHANGED <<shared, running, producer, room, written, cleared, floor, returned>>

\* The release store of the position; this read() returns silence.
ClearPublish ==
    /\ consumer.pc = "drain" /\ consumer.seen # -1
    /\ read_pos' = consumer.seen
    /\ returned' = <<>>
    /\ consumer' = idle
    /\ UNCHANGED <<buffer, capacity, write_pos, clear_requested, running, producer, room,
                   written, cleared, floor, overtaken>>

bug_room_given_back_first ==
    /\ consumer.pc = "load"
    /\ LET to_read == lesser(consumer.len, used(write_pos, read_pos, capacity)) IN
       IF to_read = 0
       THEN consumer' = idle /\ returned' = <<>> /\ UNCHANGED read_pos
       ELSE /\ consumer' = [pc |-> "copy", at |-> read_pos, to_read |-> to_read, dest |-> <<>>]
            /\ read_pos' = (read_pos + to_read) % capacity
            /\ UNCHANGED returned
    /\ UNCHANGED <<buffer, capacity, write_pos, clear_requested, running, producer, room,
                   written, cleared, floor, overtaken>>

\* With no clear requested both positions are loaded and the amount is fixed.
ReadLoad ==
    /\ consumer.pc = "load"
    /\ LET to_read == lesser(consumer.len, used(write_pos, read_pos, capacity)) IN
       IF to_read = 0
       THEN consumer' = idle /\ returned' = <<>>
       ELSE /\ consumer' = [pc |-> "copy", at |-> read_pos, to_read |-> to_read, dest |-> <<>>]
            /\ UNCHANGED returned
    /\ UNCHANGED <<shared, running, producer, room, written, cleared, floor, overtaken>>

\* The memcpy up to the end of the storage.
ReadCopy ==
    /\ consumer.pc = "copy"
    /\ LET n == FirstChunk(consumer.at, consumer.to_read) IN
       consumer' = [consumer EXCEPT
                      !.dest = [i \in 1..n |-> buffer[consumer.at + i - 1]],
                      !.pc = IF n < consumer.to_read THEN "wrap" ELSE "publish"]
    /\ UNCHANGED <<shared, running, producer, room, history>>

\* The memcpy of what wrapped round to its beginning.
ReadWrap ==
    /\ consumer.pc = "wrap"
    /\ LET n == consumer.to_read - Len(consumer.dest) IN
       consumer' = [consumer EXCEPT !.dest = @ \o [i \in 1..n |-> buffer[i - 1]],
                                    !.pc = "publish"]
    /\ UNCHANGED <<shared, running, producer, room, history>>

\* The release store that gives the room back, and the bytes returned.
ReadPublish ==
    /\ consumer.pc = "publish"
    /\ read_pos' = (consumer.at + consumer.to_read) % capacity
    /\ returned' = consumer.dest
    /\ consumer' = idle
    /\ UNCHANGED <<buffer, capacity, write_pos, clear_requested, running, producer, room,
                   written, cleared, floor, overtaken>>

-----------------------------------------------------------------------------
(* The backend around it.                                                   *)

\* Starting and stopping a stream; a stopped stream's callback has finished.
Start ==
    /\ ~ running
    /\ running' = TRUE
    /\ UNCHANGED <<shared, producer, consumer, room, history>>

Stop ==
    /\ running /\ consumer.pc = "idle"
    /\ running' = FALSE
    /\ UNCHANGED <<shared, producer, consumer, room, history>>

\* drop() and reset(): "only safe with no reader running".
drop ==
    /\ ~ running /\ producer.pc = "idle"
    /\ clear_requested' = FALSE
    /\ read_pos' = 0 /\ write_pos' = 0
    /\ room' = 0
    /\ UNCHANGED <<buffer, capacity, running, producer, consumer, history>>

reset(new_capacity) ==
    /\ ~ running /\ producer.pc = "idle"
    /\ buffer' = [i \in 0 .. new_capacity - 1 |-> 0]
    /\ capacity' = new_capacity
    /\ clear_requested' = FALSE
    /\ read_pos' = 0 /\ write_pos' = 0
    /\ room' = 0
    /\ UNCHANGED <<running, producer, consumer, history>>

Next ==
    \/ FreeSpace
    \/ \E len \in 1..MaxLen : WriteLoad(len)
    \/ WriteCopy \/ WriteWrap \/ WritePublish
    \/ request_clear
    \/ \E len \in 1..MaxLen : ReadBegin(len)
    \/ ClearStore \/ ClearLoad \/ ClearPublish
    \/ ReadLoad \/ ReadCopy \/ ReadWrap \/ ReadPublish
    \/ Start \/ Stop
    \/ drop
    \/ \E new_capacity \in Capacities : reset(new_capacity)

Spec == Init /\ [][Next]_vars

-----------------------------------------------------------------------------
\* Positions stay inside the storage, and the locals are of their step's kind.
TypeOK ==
    /\ capacity \in Nat /\ DOMAIN buffer = 0 .. capacity - 1
    /\ write_pos \in 0 .. capacity /\ (capacity > 0 => write_pos < capacity)
    /\ read_pos \in 0 .. capacity /\ (capacity > 0 => read_pos < capacity)
    /\ {clear_requested, running} \subseteq BOOLEAN
    /\ producer.pc \in {"idle", "copy", "wrap", "publish"}
    /\ consumer.pc \in {"idle", "store", "drain", "load", "copy", "wrap", "publish"}
    /\ room \in 0 .. capacity

\* write() and read() never touch the same byte of storage at the same time:
\* the memcpys are plain accesses, and nothing but the positions separates them.
NoDataRace ==
    producer.pc \in {"copy", "wrap"} /\ consumer.pc \in {"copy", "wrap"}
      => Cells(producer.at, producer.to_write) \cap Cells(consumer.at, consumer.to_read) = {}

\* "Asks the consumer to drop everything buffered, on its next read()": a read()
\* that began after a request_clear() never plays a byte written before it.
ClearDropsEverything ==
    consumer.pc \in {"copy", "wrap", "publish"}
      => \A i \in DOMAIN consumer.dest : consumer.dest[i] > floor

\* That much is true as long as the two accesses of the drain take effect in order.
ClearDropsAllInOrder == ~ overtaken => ClearDropsEverything

\* What the two threads may rely on without a lock: positions inside the storage, memcpys
\* apart from one another, and no byte played that was to be dropped.
SharedWithoutALock == TypeOK /\ NoDataRace /\ ClearDropsAllInOrder

\* Room found by free_space() is still there for the write() that follows it in
\* the same critical section, whatever the callback did in between: PortAudioSink
\* rounds a write down to whole frames on the strength of it.
RoomIsKept ==
    [][WritePublish /\ producer.len <= room => producer.to_write = producer.len]_vars

\* The bytes between the two positions, oldest first.
contents ==
    IF capacity = 0 THEN <<>>
    ELSE [i \in 1 .. used(write_pos, read_pos, capacity) |->
             buffer[(read_pos + i - 1) % capacity]]

Fifo == INSTANCE PcmFifo WITH
    queue    <- contents,
    size     <- IF capacity = 0 THEN 0 ELSE capacity - 1,
    accepted <- written,
    Sizes    <- {IF c = 0 THEN 0 ELSE c - 1 : c \in Capacities \cup {0}},
    owed     <- clear_requested \/ consumer.pc \in {"store", "drain"}

\* The ring is a bounded FIFO: nothing is torn, repeated, reordered or lost but
\* to a drain asked for since the ring was last dropped.
ImplementsFifo == Fifo!Spec
=============================================================================
