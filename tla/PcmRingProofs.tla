--------------------------- MODULE PcmRingProofs ---------------------------
(***************************************************************************)
(* For every capacity and every length of a call: the two threads of the    *)
(* ring never touch one byte at a time, a drain drops what it was asked to, *)
(* room that was reported stays, and the ring is the FIFO it promises.      *)
(***************************************************************************)
EXTENDS PcmRing, TLAPS

-----------------------------------------------------------------------------
(* Positions, without the remainders they are computed with.                *)

\* How far `w` is ahead of `r`, and the index `i` cells after `p`.
gap(w, r, c) == IF r <= w THEN w - r ELSE w - r + c
cell(p, i, c) == IF p + i < c THEN p + i ELSE p + i - c

\* Bytes that can be read, and the number of those that no longer can.
Held == gap(write_pos, read_pos, capacity)
Gone == written - Held

\* n consecutive bytes, the first of them numbered a + 1.
Stretch(a, n) == [i \in 1..n |-> a + i]

\* The amount that both sides compute from the positions is their distance.
LEMMA UsedIsGap ==
    ASSUME NEW c \in Nat, c > 0, NEW w \in 0 .. c - 1, NEW r \in 0 .. c - 1
    PROVE  used(w, r, c) = gap(w, r, c) /\ free(w, r, c) = c - 1 - gap(w, r, c)
<1>1. used(w, r, c) = gap(w, r, c)
  BY DEF used, gap
<1> QED BY <1>1 DEF free

\* A position that is moved on by less than a turn wraps once at most.
LEMMA WrapIsCell ==
    ASSUME NEW c \in Nat, c > 0, NEW p \in 0 .. c - 1, NEW i \in 0 .. c - 1
    PROVE  (p + i) % c = cell(p, i, c) /\ cell(p, i, c) \in 0 .. c - 1
  BY DEF cell

-----------------------------------------------------------------------------
(* The inductive invariant.                                                 *)

Writing == [pc : {"copy", "wrap", "publish"}, at : Nat, len : Nat, to_write : Nat]

Draining == [pc : {"store", "drain", "load"}, len : Nat, seen : Int]

Reading == [pc : {"copy", "wrap", "publish"}, at : Nat, to_read : Nat, dest : Seq(Int)]

Types ==
    /\ capacity \in Capacities \cup {0}
    /\ buffer \in [0 .. capacity - 1 -> Int]
    /\ {write_pos, read_pos} \subseteq Nat
    /\ capacity = 0 => write_pos = 0 /\ read_pos = 0
    /\ capacity > 0 => write_pos < capacity /\ read_pos < capacity
    /\ {clear_requested, running, overtaken} \subseteq BOOLEAN
    /\ producer \in {idle} \cup Writing
    /\ consumer \in {idle} \cup Draining \cup Reading
    /\ room \in 0 .. capacity
    /\ {written, cleared, floor} \subseteq Nat

\* What can be read are the bytes accepted last, in their order.
QueueInv == \A i \in 0 .. Held - 1 : buffer[cell(read_pos, i, capacity)] = Gone + 1 + i

\* A write stays in the room it found, and has copied what its step says.
Copied(b, n) == \A i \in 0 .. n - 1 : b[cell(write_pos, i, capacity)] = written + 1 + i

WriteInv ==
    producer \in Writing =>
        /\ capacity > 0
        /\ producer.at = write_pos
        /\ 0 < producer.to_write /\ Held + producer.to_write < capacity
        /\ producer.pc = "wrap" => /\ capacity - write_pos < producer.to_write
                                   /\ Copied(buffer, capacity - write_pos)
        /\ producer.pc = "publish" => Copied(buffer, producer.to_write)

\* A read stays in what it found, and has been given the bytes at the head.
ReadInv ==
    /\ consumer # idle => running /\ capacity > 0
    /\ consumer \in Draining /\ consumer.seen # -1 =>
          /\ consumer.seen \in 0 .. capacity - 1
          /\ gap(consumer.seen, read_pos, capacity) <= Held
    /\ consumer \in Reading =>
          /\ consumer.at = read_pos
          /\ 0 < consumer.to_read /\ consumer.to_read <= Held
          /\ consumer.pc = "copy" => consumer.dest = <<>>
          /\ consumer.pc = "wrap" => /\ capacity - read_pos < consumer.to_read
                                     /\ consumer.dest = Stretch(Gone, capacity - read_pos)
          /\ consumer.pc = "publish" => consumer.dest = Stretch(Gone, consumer.to_read)

\* What free_space() said is still free, or has been given to the write.
RoomInv ==
    /\ producer = idle => room = 0 \/ room + Held < capacity
    /\ producer \in Writing /\ producer.len <= room => producer.to_write = producer.len

\* A clear that is no longer asked for has been carried out, or is about to be.
ClearInv ==
    /\ cleared <= written
    /\ consumer.pc = "store" => clear_requested
    /\ ~ overtaken =>
          /\ consumer.pc = "store" => consumer.seen = -1
          /\ ~ clear_requested =>
                /\ consumer.pc # "drain" => cleared <= Gone
                /\ consumer.pc = "drain" /\ consumer.seen # -1
                     => cleared <= Gone + gap(consumer.seen, read_pos, capacity)
          /\ consumer.pc = "load" \/ consumer \in Reading => floor <= Gone

IInv == Types /\ QueueInv /\ WriteInv /\ ReadInv /\ RoomInv /\ ClearInv

\* Moving the front position on adds to the distance.
LEMMA GapOfMoved ==
    ASSUME NEW c \in Nat, NEW w \in 0 .. c - 1, NEW r \in 0 .. c - 1,
           NEW n \in Nat, gap(w, r, c) + n < c
    PROVE  gap(cell(w, n, c), r, c) = gap(w, r, c) + n
  BY DEF gap, cell

\* Moving the back position on, no further than the front, takes from it.
LEMMA GapToMoved ==
    ASSUME NEW c \in Nat, NEW w \in 0 .. c - 1, NEW r \in 0 .. c - 1,
           NEW n \in 0 .. gap(w, r, c)
    PROVE  gap(w, cell(r, n, c), c) = gap(w, r, c) - n
  BY DEF gap, cell

\* Counting on from a position that was counted to.
LEMMA CellOfCell ==
    ASSUME NEW c \in Nat, NEW p \in 0 .. c - 1, NEW n \in Nat, NEW i \in Nat, n + i < c
    PROVE  cell(cell(p, n, c), i, c) = cell(p, n + i, c)
  BY DEF cell

\* A position is as many cells ahead as the distance says.
LEMMA CellAtGap ==
    ASSUME NEW c \in Nat, NEW w \in 0 .. c - 1, NEW r \in 0 .. c - 1
    PROVE  cell(r, gap(w, r, c), c) = w /\ gap(w, r, c) \in 0 .. c - 1
  BY DEF gap, cell

\* Within a turn, other counts are other cells.
LEMMA CellsDiffer ==
    ASSUME NEW c \in Nat, NEW p \in 0 .. c - 1, NEW i \in 0 .. c - 1, NEW j \in 0 .. c - 1,
           i # j
    PROVE  cell(p, i, c) # cell(p, j, c)
  BY DEF cell

\* A stretch is a sequence, cut and joined where its numbers say.
LEMMA Stretches ==
    ASSUME NEW a \in Int, NEW n \in Nat, NEW k \in Nat
    PROVE  /\ Stretch(a, n) \in Seq(Int) /\ Len(Stretch(a, n)) = n
           /\ Stretch(a, n) \o Stretch(a + n, k) = Stretch(a, n + k)
           /\ k <= n => /\ SubSeq(Stretch(a, n), 1, k) = Stretch(a, k)
                        /\ SubSeq(Stretch(a, n), k + 1, n) = Stretch(a + k, n - k)
<1>1. Stretch(a, n) \in Seq(Int) /\ Len(Stretch(a, n)) = n
  BY DEF Stretch
<1>2. Stretch(a, n) \o Stretch(a + n, k) = Stretch(a, n + k)
  BY DEF Stretch
<1>3. ASSUME k <= n PROVE SubSeq(Stretch(a, n), 1, k) = Stretch(a, k)
  BY <1>3 DEF Stretch
<1>4. ASSUME k <= n PROVE SubSeq(Stretch(a, n), k + 1, n) = Stretch(a + k, n - k)
  BY <1>4 DEF Stretch
<1> QED BY <1>1, <1>2, <1>3, <1>4

\* The amounts the code computes, in a state of the ring.
LEMMA Amounts ==
    ASSUME Types
    PROVE  /\ capacity \in Nat /\ Held \in 0 .. capacity
           /\ capacity = 0 => Held = 0 /\ free(write_pos, read_pos, capacity) = 0
           /\ capacity > 0 => /\ Held < capacity
                              /\ used(write_pos, read_pos, capacity) = Held
                              /\ free(write_pos, read_pos, capacity) = capacity - 1 - Held
<1>1. capacity \in Nat
  BY RingAssumption DEF Types
<1>2. CASE capacity = 0
  BY <1>2 DEF Types, free, Held, gap
<1>3. CASE capacity > 0
  <2>1. write_pos \in 0 .. capacity - 1 /\ read_pos \in 0 .. capacity - 1
    BY <1>1, <1>3 DEF Types
  <2>2. Held \in 0 .. capacity - 1
    BY <1>1, <1>3, <2>1 DEF Held, gap
  <2> QED BY <1>1, <1>3, <2>1, <2>2, UsedIsGap DEF Held
<1> QED BY <1>1, <1>2, <1>3

-----------------------------------------------------------------------------
(* Every step keeps the invariant.                                          *)

\* The ring starts with no storage, so nothing is in it.
LEMMA InitIInv == Init => IInv
<1> SUFFICES ASSUME Init PROVE IInv
  OBVIOUS
<1>1. Types
  <2>1. <<>> \in [0 .. 0 - 1 -> Int]
    <3>1. \A i \in 0 .. 0 - 1 : FALSE
      OBVIOUS
    <3>2. 0 .. 0 - 1 = 1 .. 0
      OBVIOUS
    <3> QED BY <3>1, <3>2
  <2>2. buffer \in [0 .. capacity - 1 -> Int] /\ room \in 0 .. capacity
    BY <2>1 DEF Init
  <2>3. {clear_requested, running, overtaken} \subseteq BOOLEAN
    BY DEF Init
  <2>4. producer \in {idle} /\ consumer \in {idle}
    BY DEF Init
  <2> QED BY <2>2, <2>3, <2>4 DEF Init, Types
<1>2. QueueInv /\ WriteInv /\ ReadInv /\ RoomInv /\ ClearInv
  BY DEF Init, QueueInv, WriteInv, ReadInv, RoomInv, ClearInv, Held, Gone, gap, idle,
         Writing, Draining, Reading
<1> QED BY <1>1, <1>2 DEF IInv

\* Asking for room changes nothing else.
LEMMA FreeSpaceKeeps == IInv /\ FreeSpace => IInv'
<1> SUFFICES ASSUME IInv, FreeSpace PROVE IInv'
  OBVIOUS
<1> USE DEF IInv, FreeSpace, shared, history
<1>1. producer = idle
  BY DEF Types, Writing
<1>2. room' = 0 \/ room' + Held < capacity
  BY Amounts
<1>3. room' \in 0 .. capacity
  BY <1>2, Amounts
<1>4. Types' /\ QueueInv' /\ WriteInv'
  BY <1>3 DEF Types, QueueInv, WriteInv, Held, Gone, Copied
<1>5. RoomInv'
  BY <1>1, <1>2 DEF RoomInv, Held, Writing, idle
<1>6. ReadInv' /\ ClearInv'
  BY DEF ReadInv, ClearInv, Held, Gone
<1> QED BY <1>4, <1>5, <1>6

\* write() takes no more than the room it finds.
LEMMA WriteLoadKeeps ==
    ASSUME IInv, NEW len \in 1..MaxLen, WriteLoad(len)
    PROVE  IInv'
<1> USE DEF IInv, WriteLoad, shared, history
<1> DEFINE n == lesser(len, free(write_pos, read_pos, capacity))
<1>1. producer = idle /\ len \in Nat
  BY RingAssumption DEF Types, Writing
<1>2. n > 0 /\ n \in Nat /\ capacity > 0 /\ Held + n < capacity /\ Held' = Held
  BY <1>1, Amounts DEF lesser, Held
<1>3. producer' = [pc |-> "copy", at |-> write_pos, len |-> len, to_write |-> n]
  BY DEF n
<1>4. len <= room => n = len
  BY <1>1, <1>2, Amounts DEF RoomInv, Types, lesser
<1> HIDE DEF n
<1>5. producer' \in Writing /\ producer' # idle
  BY <1>1, <1>2, <1>3 DEF Writing, Types, idle
<1>6. Types' /\ QueueInv'
  BY <1>5 DEF Types, QueueInv, Held, Gone
<1>7. WriteInv'
  BY <1>2, <1>3 DEF WriteInv
<1>8. RoomInv'
  BY <1>3, <1>4, <1>5 DEF RoomInv
<1>9. ReadInv' /\ ClearInv'
  BY DEF ReadInv, ClearInv, Held, Gone
<1> QED BY <1>6, <1>7, <1>8, <1>9

\* A chunk that does not wrap is a range of cells.
LEMMA ChunkIsRange ==
    ASSUME NEW c \in Nat, NEW at \in 0 .. c - 1, NEW n \in Nat, at + n <= c, capacity = c
    PROVE  Cells(at, n) = at .. at + n - 1
<1>1. \A i \in 0 .. n - 1 : (at + i) % c = at + i
  BY WrapIsCell DEF cell
<1>2. Cells(at, n) = {at + i : i \in 0 .. n - 1}
  BY <1>1 DEF Cells
<1>3. \A x \in at .. at + n - 1 : x - at \in 0 .. n - 1 /\ x = at + (x - at)
  OBVIOUS
<1> QED BY <1>2, <1>3

\* A copy into cells with nothing in them disturbs no byte that is held.
LEMMA CopyKeeps ==
    ASSUME IInv, producer \in Writing, NEW q \in Writing, producer' = q,
           buffer' \in [0 .. capacity - 1 -> Int],
           \A i \in 0 .. Held - 1 :
               buffer'[cell(read_pos, i, capacity)] = buffer[cell(read_pos, i, capacity)],
           q = [producer EXCEPT !.pc = q.pc],
           q.pc = "wrap" => /\ capacity - write_pos < producer.to_write
                            /\ Copied(buffer', capacity - write_pos),
           q.pc = "publish" => Copied(buffer', producer.to_write),
           UNCHANGED <<capacity, write_pos, read_pos, clear_requested, running, consumer, room,
                       history>>
    PROVE  IInv'
<1> USE DEF IInv, history
<1>1. Held' = Held /\ Gone' = Gone
  BY DEF Held, Gone
<1>2. q.at = producer.at /\ q.to_write = producer.to_write /\ q.len = producer.len /\ q # idle
  BY DEF Writing, idle
<1>3. Types' /\ QueueInv'
  BY <1>1 DEF Types, QueueInv
<1>4. WriteInv'
  BY <1>1, <1>2 DEF WriteInv, Copied
<1>5. RoomInv' /\ ReadInv' /\ ClearInv'
  BY <1>1, <1>2 DEF RoomInv, ReadInv, ClearInv
<1> QED BY <1>3, <1>4, <1>5

\* Held bytes are in other cells than a write is given.
LEMMA WriteIsApart ==
    ASSUME Types, producer \in Writing, WriteInv,
           NEW i \in 0 .. Held - 1, NEW j \in 0 .. producer.to_write - 1
    PROVE  cell(read_pos, i, capacity) # cell(write_pos, j, capacity)
<1>1. capacity \in Nat /\ write_pos \in 0 .. capacity - 1 /\ read_pos \in 0 .. capacity - 1
  BY Amounts DEF Types, WriteInv
<1>2. producer.to_write \in Nat /\ Held \in Nat /\ Held + producer.to_write < capacity
  BY Amounts DEF WriteInv, Writing
<1>3. cell(write_pos, j, capacity) = cell(read_pos, Held + j, capacity)
  <2>1. cell(read_pos, Held, capacity) = write_pos
    BY <1>1, CellAtGap DEF Held
  <2>2. j \in Nat /\ Held + j < capacity
    BY <1>1, <1>2
  <2> QED BY <1>1, <1>2, <2>1, <2>2, CellOfCell
<1>4. i \in 0 .. capacity - 1 /\ Held + j \in 0 .. capacity - 1 /\ i # Held + j
  BY <1>1, <1>2
<1> QED BY <1>1, <1>3, <1>4, CellsDiffer

\* The chunk up to the end of the storage.
LEMMA WriteCopyKeeps == IInv /\ WriteCopy => IInv'
<1> SUFFICES ASSUME IInv, WriteCopy PROVE IInv'
  OBVIOUS
<1> USE DEF IInv
<1> DEFINE n == FirstChunk(producer.at, producer.to_write)
<1>1. producer \in Writing /\ producer.at = write_pos /\ write_pos \in 0 .. capacity - 1
  BY Amounts DEF WriteCopy, Types, idle, Draining, Reading, WriteInv
<1>2. /\ producer.to_write \in Nat /\ Held + producer.to_write < capacity
      /\ capacity \in Nat /\ Held \in Nat /\ capacity > 0
  BY <1>1, Amounts DEF WriteInv, Writing
<1>3. /\ n \in Nat /\ write_pos + n <= capacity /\ n <= producer.to_write
      /\ n < producer.to_write => n = capacity - write_pos
  BY <1>1, <1>2 DEF FirstChunk, lesser
<1>4. Cells(producer.at, n) = write_pos .. write_pos + n - 1
  BY <1>1, <1>2, <1>3, ChunkIsRange
<1>5. buffer' = [i \in 0 .. capacity - 1 |-> IF i \in write_pos .. write_pos + n - 1
                                             THEN written + 1 + i - write_pos ELSE buffer[i]]
  BY <1>1, <1>4 DEF WriteCopy, Types, n
<1>6. producer' = [producer EXCEPT !.pc = IF n < producer.to_write THEN "wrap" ELSE "publish"]
  BY DEF WriteCopy, n
<1> HIDE DEF n
<1>7. \A j \in 0 .. n - 1 : cell(write_pos, j, capacity) = write_pos + j
  BY <1>1, <1>2, <1>3 DEF cell
<1>8. buffer' \in [0 .. capacity - 1 -> Int]
  BY <1>1, <1>2, <1>3, <1>5 DEF Types
<1>9. ASSUME NEW i \in 0 .. Held - 1
      PROVE  buffer'[cell(read_pos, i, capacity)] = buffer[cell(read_pos, i, capacity)]
  <2>1. cell(read_pos, i, capacity) \in 0 .. capacity - 1
    <3>1. read_pos \in 0 .. capacity - 1 /\ i \in 0 .. capacity - 1
      BY <1>2, <1>1 DEF Types, Writing
    <3> QED BY <1>2, <3>1, WrapIsCell
  <2>2. cell(read_pos, i, capacity) \notin write_pos .. write_pos + n - 1
    <3> SUFFICES ASSUME cell(read_pos, i, capacity) \in write_pos .. write_pos + n - 1
                 PROVE  FALSE
      OBVIOUS
    <3> DEFINE j == cell(read_pos, i, capacity) - write_pos
    <3>1. j \in 0 .. n - 1 /\ cell(read_pos, i, capacity) = write_pos + j
      BY <1>1, <1>2, <1>3, <2>1
    <3>2. j \in 0 .. producer.to_write - 1
      BY <3>1, <1>2, <1>3
    <3> QED BY <3>1, <3>2, <1>1, <1>7, WriteIsApart
  <2> QED BY <1>5, <2>1, <2>2
<1>10. Copied(buffer', n)
  <2> SUFFICES ASSUME NEW j \in 0 .. n - 1
               PROVE  buffer'[cell(write_pos, j, capacity)] = written + 1 + j
    BY DEF Copied
  <2>1. cell(write_pos, j, capacity) = write_pos + j
    BY <1>7
  <2>2. write_pos + j \in 0 .. capacity - 1 /\ write_pos + j \in write_pos .. write_pos + n - 1
    BY <1>1, <1>2, <1>3
  <2>3. written + 1 + (write_pos + j) - write_pos = written + 1 + j
    BY <1>1, <1>3 DEF Types
  <2> QED BY <1>5, <2>1, <2>2, <2>3
<1>11. producer' \in Writing
  BY <1>1, <1>6 DEF Writing
<1>12. /\ producer'.pc = "wrap" => capacity - write_pos < producer.to_write
                                   /\ Copied(buffer', capacity - write_pos)
       /\ producer'.pc = "publish" => Copied(buffer', producer.to_write)
  BY <1>1, <1>2, <1>3, <1>6, <1>10 DEF Writing, WriteCopy
<1> QED BY <1>1, <1>6, <1>8, <1>9, <1>11, <1>12, CopyKeeps DEF Writing, WriteCopy, history

\* The chunk that has wrapped to the beginning of the storage.
LEMMA WriteWrapKeeps == IInv /\ WriteWrap => IInv'
<1> SUFFICES ASSUME IInv, WriteWrap PROVE IInv'
  OBVIOUS
<1> USE DEF IInv
<1> DEFINE n == FirstChunk(producer.at, producer.to_write)
<1>1. producer \in Writing /\ producer.pc = "wrap" /\ write_pos \in 0 .. capacity - 1
  BY Amounts DEF WriteWrap, Types, idle, Draining, Reading, WriteInv
<1>2. /\ producer.to_write \in Nat /\ Held + producer.to_write < capacity
      /\ capacity \in Nat /\ Held \in Nat /\ capacity > 0
  BY <1>1, Amounts DEF WriteInv, Writing
<1>3. n = capacity - write_pos /\ n \in Nat /\ n < producer.to_write /\ Copied(buffer, n)
  BY <1>1, <1>2 DEF FirstChunk, lesser, WriteInv
<1>4. buffer' = [i \in 0 .. capacity - 1 |-> IF i < producer.to_write - n
                                             THEN written + n + 1 + i ELSE buffer[i]]
  BY DEF WriteWrap, Types, n
<1>5. producer' = [producer EXCEPT !.pc = "publish"] /\ producer' \in Writing
  BY <1>1 DEF WriteWrap, Writing
<1> HIDE DEF n
<1>6. \A j \in n .. producer.to_write - 1 :
          cell(write_pos, j, capacity) = j - n /\ j - n \in 0 .. capacity - 1
  BY <1>1, <1>2, <1>3 DEF cell
<1>7. \A j \in 0 .. n - 1 : cell(write_pos, j, capacity) = write_pos + j
  BY <1>1, <1>2, <1>3 DEF cell
<1>8. buffer' \in [0 .. capacity - 1 -> Int]
  BY <1>1, <1>2, <1>3, <1>4 DEF Types
<1>9. ASSUME NEW i \in 0 .. Held - 1
      PROVE  buffer'[cell(read_pos, i, capacity)] = buffer[cell(read_pos, i, capacity)]
  <2> DEFINE x == cell(read_pos, i, capacity)
  <2>1. read_pos \in 0 .. capacity - 1 /\ i \in 0 .. capacity - 1
    BY <1>2, <1>1 DEF Types
  <2>2. x \in 0 .. capacity - 1
    BY <1>2, <2>1, WrapIsCell
  <2> HIDE DEF x
  <2>3. ~ (x < producer.to_write - n)
    <3> SUFFICES ASSUME x < producer.to_write - n PROVE FALSE
      OBVIOUS
    <3>1. n + x \in n .. producer.to_write - 1 /\ n + x \in 0 .. producer.to_write - 1
      BY <1>2, <1>3, <2>2
    <3>2. cell(write_pos, n + x, capacity) = x
      BY <1>6, <3>1, <1>3, <2>2
    <3> QED BY <1>1, <3>1, <3>2, WriteIsApart DEF x
  <2>4. buffer'[x] = buffer[x]
    BY <1>4, <2>2, <2>3
  <2> QED BY <2>4 DEF x
<1>10. Copied(buffer', producer.to_write)
  <2> SUFFICES ASSUME NEW j \in 0 .. producer.to_write - 1
               PROVE  buffer'[cell(write_pos, j, capacity)] = written + 1 + j
    BY DEF Copied
  <2>1. written \in Nat /\ j \in Nat
    BY <1>2 DEF Types
  <2>2. CASE j < n
    <3>1. j \in 0 .. n - 1 /\ write_pos + j \in 0 .. capacity - 1
      BY <1>1, <1>2, <1>3, <2>1, <2>2
    <3>2. ~ (write_pos + j < producer.to_write - n)
      BY <1>1, <1>2, <1>3, <2>1
    <3>3. buffer[write_pos + j] = written + 1 + j
      BY <1>3, <1>7, <3>1 DEF Copied
    <3> QED BY <1>4, <1>7, <3>1, <3>2, <3>3
  <2>3. CASE ~ (j < n)
    <3>1. j \in n .. producer.to_write - 1 /\ j - n < producer.to_write - n
      BY <1>1, <1>2, <1>3, <2>1, <2>3
    <3>2. written + n + 1 + (j - n) = written + 1 + j
      BY <1>3, <2>1
    <3> QED BY <1>4, <1>6, <3>1, <3>2
  <2> QED BY <2>2, <2>3
<1> QED BY <1>1, <1>5, <1>8, <1>9, <1>10, CopyKeeps DEF Writing, WriteWrap, history

\* The bytes that were copied join those that can be read.
LEMMA WritePublishKeeps ==
    ASSUME IInv, WritePublish
    PROVE  /\ IInv'
           /\ Held' = Held + producer.to_write /\ Gone' = Gone
<1> USE DEF IInv
<1> DEFINE n == producer.to_write
<1>1. producer \in Writing /\ producer.pc = "publish" /\ producer.at = write_pos
  BY DEF WritePublish, Types, idle, WriteInv
<1>2. /\ capacity \in Nat /\ capacity > 0 /\ Held \in Nat /\ n \in Nat /\ n > 0
      /\ Held + n < capacity /\ written \in Nat
      /\ write_pos \in 0 .. capacity - 1 /\ read_pos \in 0 .. capacity - 1
  BY <1>1, Amounts DEF WriteInv, Writing, Types
<1>3. Copied(buffer, n)
  BY <1>1 DEF WriteInv
<1>4. /\ producer' = idle /\ written' = written + n /\ room' = 0
      /\ UNCHANGED <<buffer, capacity, read_pos, clear_requested, running, consumer,
                     cleared, floor, overtaken>>
  BY DEF WritePublish
<1> HIDE DEF n
<1>5. write_pos' = cell(write_pos, n, capacity) /\ write_pos' \in 0 .. capacity - 1
  <2>1. n \in 0 .. capacity - 1 /\ write_pos' = (write_pos + n) % capacity
    BY <1>1, <1>2 DEF WritePublish, n
  <2> QED BY <1>2, <2>1, WrapIsCell
<1>6. Held' = Held + n
  BY <1>2, <1>4, <1>5, GapOfMoved DEF Held
<1>7. Gone' = Gone /\ Gone \in Int
  BY <1>2, <1>4, <1>6 DEF Gone
<1>8. Types'
  BY <1>2, <1>4, <1>5 DEF Types
<1>9. QueueInv'
  <2> SUFFICES ASSUME NEW i \in 0 .. (Held + n) - 1
               PROVE  buffer[cell(read_pos, i, capacity)] = Gone + 1 + i
    BY <1>4, <1>6, <1>7 DEF QueueInv
  <2>1. CASE i < Held
    BY <1>2, <2>1 DEF QueueInv
  <2>2. CASE ~ (i < Held)
    <3> DEFINE j == i - Held
    <3>1. j \in 0 .. n - 1 /\ j \in Nat /\ i = Held + j /\ Held + j < capacity
      BY <1>2, <2>2
    <3>2. cell(read_pos, Held, capacity) = write_pos
      BY <1>2, CellAtGap DEF Held
    <3>3. cell(read_pos, i, capacity) = cell(write_pos, j, capacity)
      BY <1>2, <3>1, <3>2, CellOfCell
    <3>4. buffer[cell(write_pos, j, capacity)] = written + 1 + j
      BY <1>3, <3>1 DEF Copied
    <3> QED BY <1>2, <3>1, <3>3, <3>4 DEF Gone
  <2> QED BY <2>1, <2>2
<1>10. WriteInv' /\ RoomInv'
  BY <1>4 DEF WriteInv, RoomInv, Writing, idle
<1>11. ReadInv'
  <2>1. ASSUME consumer \in Draining, consumer.seen # -1
        PROVE  gap(consumer.seen, read_pos, capacity) <= Held + n
    <3>1. consumer.seen \in 0 .. capacity - 1 /\ gap(consumer.seen, read_pos, capacity) <= Held
      BY <2>1 DEF ReadInv
    <3>2. gap(consumer.seen, read_pos, capacity) \in Int
      BY <1>2, <3>1 DEF gap
    <3> QED BY <1>2, <3>1, <3>2
  <2>2. ASSUME consumer \in Reading
        PROVE  consumer.to_read <= Held + n
    BY <1>2, <2>2 DEF ReadInv, Reading
  <2> QED BY <1>4, <1>6, <1>7, <2>1, <2>2 DEF ReadInv
<1>12. ClearInv'
  BY <1>2, <1>4, <1>7 DEF ClearInv, Types
<1> QED BY <1>6, <1>7, <1>8, <1>9, <1>10, <1>11, <1>12 DEF n

\* A clear that is asked for is of all that was accepted.
LEMMA RequestKeeps == IInv /\ request_clear => IInv'
<1> SUFFICES ASSUME IInv, request_clear PROVE IInv'
  OBVIOUS
<1> USE DEF IInv, request_clear
<1>1. Held' = Held /\ Gone' = Gone /\ producer = idle
  BY DEF Held, Gone, Types, Writing
<1>2. Types' /\ QueueInv'
  BY <1>1, Amounts DEF Types, QueueInv
<1>3. WriteInv' /\ ReadInv' /\ RoomInv'
  BY <1>1 DEF WriteInv, ReadInv, RoomInv, Writing, idle
<1>4. ClearInv'
  BY <1>1 DEF ClearInv, Types
<1> QED BY <1>2, <1>3, <1>4

-----------------------------------------------------------------------------
(* The consumer's side.                                                     *)

\* A step of read() that moves no position keeps what the producer relies on.
LEMMA ReaderKeeps ==
    ASSUME IInv, UNCHANGED <<buffer, capacity, write_pos, read_pos, running, producer, room,
                             written, cleared>>,
           consumer' \in {idle} \cup Draining \cup Reading,
           {clear_requested', overtaken'} \subseteq BOOLEAN, floor' \in Nat
    PROVE  /\ Types' /\ QueueInv' /\ WriteInv' /\ RoomInv'
           /\ Held' = Held /\ Gone' = Gone
<1> USE DEF IInv
<1>1. Held' = Held /\ Gone' = Gone
  BY DEF Held, Gone
<1>2. Types' /\ QueueInv'
  BY <1>1 DEF Types, QueueInv
<1>3. WriteInv' /\ RoomInv'
  BY <1>1 DEF WriteInv, RoomInv, Copied
<1> QED BY <1>1, <1>2, <1>3

\* What has left the queue is a whole number of bytes.
LEMMA GoneIsInt == ASSUME Types PROVE Gone \in Int /\ Held \in Nat /\ written = Gone + Held
  BY Amounts DEF Types, Gone

\* read() looks whether a clear is asked for.
LEMMA ReadBeginKeeps ==
    ASSUME IInv, NEW len \in 1..MaxLen, ReadBegin(len)
    PROVE  IInv'
<1> USE DEF IInv, ReadBegin, shared
<1>1. consumer = idle /\ consumer' \in Draining /\ consumer' # idle /\ consumer' \notin Reading
  <2>1. len \in Nat
    BY RingAssumption
  <2> QED BY <2>1 DEF Types, idle, Draining, Reading
<1>2. Types' /\ QueueInv' /\ WriteInv' /\ RoomInv' /\ Held' = Held /\ Gone' = Gone
  BY <1>1, ReaderKeeps DEF Types
<1>3. ReadInv'
  BY <1>1, <1>2 DEF ReadInv, Types
<1>4. ClearInv'
  BY <1>1, <1>2 DEF ClearInv, Types, idle
<1> QED BY <1>2, <1>3, <1>4

\* The request is taken: all that was written when it was made is behind what is there.
LEMMA ClearStoreKeeps == IInv /\ ClearStore => IInv'
<1> SUFFICES ASSUME IInv, ClearStore PROVE IInv'
  OBVIOUS
<1> USE DEF IInv, ClearStore, history
<1>1. /\ consumer \in Draining /\ consumer' \in Draining /\ consumer' \notin Reading
      /\ consumer'.seen = consumer.seen /\ consumer'.pc = "drain" /\ consumer # idle
      /\ consumer' # idle
  BY DEF Types, idle, Draining, Reading
<1>2. Types' /\ QueueInv' /\ WriteInv' /\ RoomInv' /\ Held' = Held /\ Gone' = Gone
  BY <1>1, ReaderKeeps DEF Types
<1>3. ReadInv'
  BY <1>1, <1>2 DEF ReadInv
<1>4. ClearInv'
  BY <1>1, <1>2 DEF ClearInv
<1> QED BY <1>2, <1>3, <1>4

\* How far to drain: to what is there now.
LEMMA ClearLoadKeeps == IInv /\ ClearLoad => IInv'
<1> SUFFICES ASSUME IInv, ClearLoad PROVE IInv'
  OBVIOUS
<1> USE DEF IInv, ClearLoad, shared
<1>1. /\ consumer \in Draining /\ consumer' \in Draining /\ consumer' \notin Reading
      /\ consumer'.seen = write_pos /\ consumer'.pc = consumer.pc
      /\ consumer # idle /\ consumer' # idle
  BY DEF Types, idle, Draining, Reading
<1>2. Types' /\ QueueInv' /\ WriteInv' /\ RoomInv' /\ Held' = Held /\ Gone' = Gone
  BY <1>1, ReaderKeeps DEF Types
<1>3. gap(write_pos, read_pos, capacity) = Held /\ written = Gone + Held
  BY GoneIsInt DEF Held
<1>4. ReadInv'
  BY <1>1, <1>2, <1>3, Amounts DEF ReadInv, Types
<1>5. ClearInv'
  BY <1>1, <1>2, <1>3 DEF ClearInv
<1> QED BY <1>2, <1>4, <1>5

\* The amount to read is fixed.
LEMMA ReadLoadKeeps == IInv /\ ReadLoad => IInv'
<1> SUFFICES ASSUME IInv, ReadLoad PROVE IInv'
  OBVIOUS
<1> USE DEF IInv, ReadLoad, shared
<1> DEFINE n == lesser(consumer.len, used(write_pos, read_pos, capacity))
<1>1. consumer \in Draining /\ consumer # idle /\ capacity > 0 /\ running
  BY DEF Types, idle, Reading, ReadInv
<1>2. n \in Nat /\ n <= Held
  BY <1>1, Amounts DEF lesser, Draining
<1>3. \/ consumer' = idle
      \/ n > 0 /\ consumer' = [pc |-> "copy", at |-> read_pos, to_read |-> n, dest |-> <<>>]
  BY <1>2
<1> HIDE DEF n
<1>4. consumer' \in {idle} \cup Reading /\ consumer'.pc \in {"idle", "copy"}
  <2>1. <<>> \in Seq(Int) /\ read_pos \in Nat
    BY DEF Types
  <2>2. idle.pc = "idle"
    BY DEF idle
  <2>3. ASSUME n > 0 PROVE [pc |-> "copy", at |-> read_pos, to_read |-> n, dest |-> <<>>] \in Reading
    BY <1>2, <2>1 DEF Reading
  <2> QED BY <1>3, <2>2, <2>3
<1>5. Types' /\ QueueInv' /\ WriteInv' /\ RoomInv' /\ Held' = Held /\ Gone' = Gone
  BY <1>4, ReaderKeeps DEF Types
<1>6. ReadInv'
  BY <1>1, <1>2, <1>3, <1>4, <1>5 DEF ReadInv, idle, Reading, Draining
<1>7. ClearInv'
  BY <1>3, <1>4, <1>5 DEF ClearInv, idle, Reading
<1> QED BY <1>5, <1>6, <1>7

\* The memcpy up to the end of the storage.
LEMMA ReadCopyKeeps == IInv /\ ReadCopy => IInv'
<1> SUFFICES ASSUME IInv, ReadCopy PROVE IInv'
  OBVIOUS
<1> USE DEF IInv
<1> DEFINE n == FirstChunk(consumer.at, consumer.to_read)
           copy == [i \in 1..n |-> buffer[consumer.at + i - 1]]
<1>1. consumer \in Reading /\ consumer # idle /\ capacity > 0 /\ running /\ consumer.pc = "copy"
  BY DEF Types, idle, Draining, ReadCopy, ReadInv
<1>2. /\ capacity \in Nat /\ Held \in Nat /\ Held < capacity /\ Gone \in Int
      /\ consumer.at = read_pos /\ read_pos \in 0 .. capacity - 1
      /\ consumer.to_read \in Nat /\ consumer.to_read > 0 /\ consumer.to_read <= Held
  BY <1>1, Amounts, GoneIsInt DEF ReadInv, Reading, Types
<1>3. /\ n \in Nat /\ read_pos + n <= capacity /\ n <= consumer.to_read
      /\ n < consumer.to_read => n = capacity - read_pos
  BY <1>2 DEF FirstChunk, lesser
<1>4. consumer' = [consumer EXCEPT !.dest = copy,
                                   !.pc = IF n < consumer.to_read THEN "wrap" ELSE "publish"]
  BY DEF ReadCopy
<1> HIDE DEF n
<1>5. copy = Stretch(Gone, n)
  <2>1. ASSUME NEW i \in 1..n PROVE buffer[consumer.at + i - 1] = Gone + i
    <3>1. i - 1 \in 0 .. Held - 1 /\ cell(read_pos, i - 1, capacity) = read_pos + i - 1
      BY <1>2, <1>3 DEF cell
    <3>2. buffer[cell(read_pos, i - 1, capacity)] = Gone + 1 + (i - 1)
      BY <3>1 DEF QueueInv
    <3> QED BY <1>2, <3>1, <3>2
  <2> QED BY <2>1 DEF Stretch
<1> HIDE DEF copy
<1>6. Stretch(Gone, n) \in Seq(Int)
  BY <1>2, <1>3, Stretches
<1>7. /\ consumer' \in Reading /\ consumer' # idle /\ consumer' \notin Draining
      /\ consumer'.at = read_pos /\ consumer'.to_read = consumer.to_read
      /\ consumer'.dest = Stretch(Gone, n) /\ consumer'.pc \in {"wrap", "publish"}
      /\ consumer'.pc = "wrap" => n < consumer.to_read
      /\ consumer'.pc = "publish" => n = consumer.to_read
  <2> DEFINE pc == IF n < consumer.to_read THEN "wrap" ELSE "publish"
  <2>1. consumer' = [pc |-> pc, at |-> read_pos, to_read |-> consumer.to_read,
                     dest |-> Stretch(Gone, n)]
    BY <1>1, <1>2, <1>4, <1>5 DEF Reading
  <2>2. /\ pc \in {"wrap", "publish"}
        /\ pc = "wrap" => n < consumer.to_read
        /\ pc = "publish" => n = consumer.to_read
    BY <1>2, <1>3
  <2> HIDE DEF pc
  <2> QED BY <1>2, <1>6, <2>1, <2>2 DEF Reading, Draining, idle
<1>8. Types' /\ QueueInv' /\ WriteInv' /\ RoomInv' /\ Held' = Held /\ Gone' = Gone
  BY <1>7, ReaderKeeps DEF Types, ReadCopy, shared, history
<1>9. ReadInv'
  BY <1>1, <1>2, <1>3, <1>7, <1>8 DEF ReadInv, ReadCopy, shared, history
<1>10. ClearInv'
  BY <1>1, <1>7, <1>8 DEF ClearInv, ReadCopy, shared, history
<1> QED BY <1>8, <1>9, <1>10

\* The memcpy of what wrapped round.
LEMMA ReadWrapKeeps == IInv /\ ReadWrap => IInv'
<1> SUFFICES ASSUME IInv, ReadWrap PROVE IInv'
  OBVIOUS
<1> USE DEF IInv
<1> DEFINE n == consumer.to_read - Len(consumer.dest)
           copy == [i \in 1..n |-> buffer[i - 1]]
           k == capacity - read_pos
<1>1. consumer \in Reading /\ consumer # idle /\ capacity > 0 /\ running /\ consumer.pc = "wrap"
  BY DEF Types, idle, Draining, ReadWrap, ReadInv
<1>2. /\ capacity \in Nat /\ Held \in Nat /\ Held < capacity /\ Gone \in Int
      /\ consumer.at = read_pos /\ read_pos \in 0 .. capacity - 1
      /\ consumer.to_read \in Nat /\ k < consumer.to_read /\ consumer.to_read <= Held
      /\ k \in Nat /\ consumer.dest = Stretch(Gone, k)
  <2>1. capacity \in Nat /\ Held \in Nat /\ Held < capacity /\ Gone \in Int
    BY <1>1, Amounts, GoneIsInt
  <2>2. read_pos \in 0 .. capacity - 1 /\ k \in Nat
    BY <1>1, <2>1 DEF Types
  <2> QED BY <1>1, <2>1, <2>2 DEF ReadInv, Reading
<1>3. n = consumer.to_read - k /\ n \in Nat
  <2>1. Len(Stretch(Gone, k)) = k
    BY <1>2, Stretches
  <2>2. Len(consumer.dest) = k
    BY <1>2, <2>1
  <2> QED BY <1>2, <2>2
<1>4. consumer' = [consumer EXCEPT !.dest = consumer.dest \o copy, !.pc = "publish"]
  BY DEF ReadWrap
<1> HIDE DEF n
<1>5. copy = Stretch(Gone + k, n)
  <2>1. ASSUME NEW i \in 1..n PROVE buffer[i - 1] = Gone + k + i
    <3>1. k + (i - 1) \in 0 .. Held - 1 /\ cell(read_pos, k + (i - 1), capacity) = i - 1
      BY <1>2, <1>3 DEF cell
    <3>2. buffer[cell(read_pos, k + (i - 1), capacity)] = Gone + 1 + (k + (i - 1))
      BY <3>1 DEF QueueInv
    <3> QED BY <1>2, <3>1, <3>2
  <2> QED BY <2>1 DEF Stretch
<1> HIDE DEF copy, k
<1>6. /\ consumer.dest \o copy = Stretch(Gone, consumer.to_read)
      /\ Stretch(Gone, consumer.to_read) \in Seq(Int)
  <2>1. k + n = consumer.to_read
    BY <1>2, <1>3
  <2>2. Stretch(Gone, k) \o Stretch(Gone + k, n) = Stretch(Gone, k + n)
    BY <1>2, <1>3, Stretches
  <2>3. Stretch(Gone, consumer.to_read) \in Seq(Int)
    BY <1>2, Stretches
  <2> QED BY <1>2, <1>5, <2>1, <2>2, <2>3
<1>7. /\ consumer' \in Reading /\ consumer' # idle /\ consumer' \notin Draining
      /\ consumer'.at = read_pos /\ consumer'.to_read = consumer.to_read
      /\ consumer'.dest = Stretch(Gone, consumer.to_read) /\ consumer'.pc = "publish"
  BY <1>1, <1>2, <1>4, <1>6 DEF Reading, Draining, idle
<1>8. Types' /\ QueueInv' /\ WriteInv' /\ RoomInv' /\ Held' = Held /\ Gone' = Gone
  BY <1>7, ReaderKeeps DEF Types, ReadWrap, shared, history
<1>9. ReadInv'
  BY <1>1, <1>2, <1>7, <1>8 DEF ReadInv, ReadWrap, shared, history, k
<1>10. ClearInv'
  BY <1>1, <1>7, <1>8 DEF ClearInv, ReadWrap, shared, history
<1> QED BY <1>8, <1>9, <1>10

\* The bytes at the front leave the queue, and the call is over.
LEMMA AdvanceKeeps ==
    ASSUME IInv, capacity > 0, NEW n \in 0 .. Held, read_pos' = cell(read_pos, n, capacity),
           consumer' = idle,
           ~ overtaken /\ ~ clear_requested => cleared <= Gone + n,
           UNCHANGED <<buffer, capacity, write_pos, clear_requested, running, producer, room,
                       written, cleared, floor, overtaken>>
    PROVE  IInv' /\ Held' = Held - n /\ Gone' = Gone + n
<1> USE DEF IInv
<1>1. /\ capacity \in Nat /\ Held \in Nat /\ Held < capacity /\ Gone \in Int /\ written \in Nat
      /\ write_pos \in 0 .. capacity - 1 /\ read_pos \in 0 .. capacity - 1 /\ n \in Nat
  BY Amounts, GoneIsInt DEF Types
<1>2. Held' = Held - n
  BY <1>1, GapToMoved DEF Held
<1>3. Gone' = Gone + n
  BY <1>1, <1>2 DEF Gone
<1>4. n \in 0 .. capacity - 1
  BY <1>1
<1>5. read_pos' \in 0 .. capacity - 1
  BY <1>1, <1>4, WrapIsCell
<1>6. Types'
  BY <1>1, <1>5 DEF Types
<1>7. QueueInv'
  <2> SUFFICES ASSUME NEW i \in 0 .. (Held - n) - 1
               PROVE  buffer[cell(cell(read_pos, n, capacity), i, capacity)] = Gone + n + 1 + i
    BY <1>2, <1>3 DEF QueueInv
  <2>1. n + i \in 0 .. Held - 1 /\ i \in Nat /\ n + i < capacity
    BY <1>1
  <2>2. cell(cell(read_pos, n, capacity), i, capacity) = cell(read_pos, n + i, capacity)
    BY <1>1, <2>1, CellOfCell
  <2>3. buffer[cell(read_pos, n + i, capacity)] = Gone + 1 + (n + i)
    BY <2>1 DEF QueueInv
  <2> QED BY <1>1, <2>1, <2>2, <2>3
<1>8. WriteInv'
  BY <1>1, <1>2 DEF WriteInv, Copied, Writing
<1>9. RoomInv'
  BY <1>1, <1>2 DEF RoomInv, Types
<1>10. ReadInv' /\ ClearInv'
  BY <1>3 DEF ReadInv, ClearInv, idle, Draining, Reading
<1> QED BY <1>2, <1>3, <1>6, <1>7, <1>8, <1>9, <1>10

\* A drain takes what was there when it looked.
LEMMA ClearPublishKeeps ==
    ASSUME IInv, ClearPublish
    PROVE  /\ IInv'
           /\ \E n \in 0 .. Held : Held' = Held - n /\ Gone' = Gone + n
<1> DEFINE n == gap(consumer.seen, read_pos, capacity)
<1>1. /\ consumer \in Draining /\ capacity > 0 /\ capacity \in Nat /\ Held \in Nat
      /\ consumer.seen \in 0 .. capacity - 1 /\ n <= Held /\ read_pos \in 0 .. capacity - 1
  <2>1. consumer \in Draining /\ consumer # idle /\ consumer.seen # -1
    BY DEF IInv, Types, idle, Draining, Reading, ClearPublish
  <2>2. /\ capacity > 0 /\ n <= Held /\ consumer.seen \in 0 .. capacity - 1
    BY <2>1 DEF IInv, ReadInv
  <2>3. capacity \in Nat /\ Held \in Nat
    BY Amounts DEF IInv
  <2>4. read_pos \in 0 .. capacity - 1
    BY <2>2, <2>3 DEF IInv, Types
  <2> QED BY <2>1, <2>2, <2>3, <2>4
<1>2. n \in 0 .. Held /\ cell(read_pos, n, capacity) = consumer.seen
  <2>1. cell(read_pos, n, capacity) = consumer.seen /\ n \in 0 .. capacity - 1
    BY <1>1, CellAtGap
  <2> QED BY <1>1, <2>1
<1>3. ~ overtaken /\ ~ clear_requested => cleared <= Gone + n
  BY DEF IInv, ClearInv, ClearPublish
<1> HIDE DEF n
<1> QED BY <1>1, <1>2, <1>3, AdvanceKeeps DEF ClearPublish

\* What was copied is returned, and its room given back.
LEMMA ReadPublishKeeps ==
    ASSUME IInv, ReadPublish
    PROVE  /\ IInv'
           /\ consumer.to_read \in 0 .. Held /\ returned' = Stretch(Gone, consumer.to_read)
           /\ Held' = Held - consumer.to_read /\ Gone' = Gone + consumer.to_read
<1> DEFINE n == consumer.to_read
<1>1. consumer \in Reading /\ consumer.pc = "publish"
  BY DEF IInv, Types, Draining, idle, ReadPublish
<1>2. /\ capacity > 0 /\ capacity \in Nat /\ Held \in Nat /\ Held < capacity /\ Gone \in Int
      /\ consumer.at = read_pos /\ n \in 0 .. Held /\ consumer.dest = Stretch(Gone, n)
      /\ read_pos \in 0 .. capacity - 1
  BY <1>1, Amounts, GoneIsInt DEF IInv, Types, ReadInv, Reading, idle
<1>3. read_pos' = cell(read_pos, n, capacity)
  <2>1. n \in 0 .. capacity - 1 /\ read_pos' = (read_pos + n) % capacity
    BY <1>2 DEF ReadPublish
  <2> QED BY <1>2, <2>1, WrapIsCell
<1>4. ~ overtaken /\ ~ clear_requested => cleared <= Gone + n
  BY <1>1, <1>2 DEF IInv, ClearInv, Types
<1> HIDE DEF n
<1>5. IInv' /\ Held' = Held - n /\ Gone' = Gone + n
  BY <1>2, <1>3, <1>4, AdvanceKeeps DEF ReadPublish
<1> QED BY <1>2, <1>5 DEF ReadPublish, n

-----------------------------------------------------------------------------
(* The backend.                                                             *)

\* Starting and stopping move no byte.
LEMMA StreamKeeps == IInv /\ (Start \/ Stop) => IInv'
<1> SUFFICES ASSUME IInv, Start \/ Stop PROVE IInv'
  OBVIOUS
<1> USE DEF IInv, Start, Stop, shared, history
<1>1. Held' = Held /\ Gone' = Gone /\ consumer = idle
  BY DEF Held, Gone, ReadInv, Types, Draining, Reading
<1>2. Types'
  BY DEF Types
<1>3. QueueInv' /\ WriteInv' /\ RoomInv' /\ ReadInv' /\ ClearInv'
  BY <1>1 DEF QueueInv, WriteInv, RoomInv, ReadInv, ClearInv, Copied, idle, Draining, Reading
<1> QED BY <1>2, <1>3

\* An emptied ring holds nothing, whatever its storage is now.
LEMMA EmptyKeeps ==
    ASSUME IInv, drop \/ \E new_capacity \in Capacities : reset(new_capacity)
    PROVE  IInv' /\ Held' = 0 /\ producer' = idle /\ consumer' = idle
<1> USE DEF IInv
<1>1. /\ producer = idle /\ consumer = idle /\ ~ running
      /\ UNCHANGED <<running, producer, consumer, written, cleared, floor, overtaken>>
      /\ clear_requested' = FALSE /\ read_pos' = 0 /\ write_pos' = 0 /\ room' = 0
  BY DEF drop, reset, history, Types, Writing, ReadInv
<1>2. /\ capacity' \in Capacities \cup {0} /\ capacity' \in Nat
      /\ buffer' \in [0 .. capacity' - 1 -> Int]
  BY RingAssumption DEF drop, reset, Types
<1>3. Types'
  <2>1. {clear_requested', running', overtaken'} \subseteq BOOLEAN
    BY <1>1 DEF Types
  <2>2. {write_pos', read_pos'} \subseteq Nat /\ room' \in 0 .. capacity'
    BY <1>1, <1>2
  <2>3. {written', cleared', floor'} \subseteq Nat
    BY <1>1 DEF Types
  <2>4. producer' \in {idle} /\ consumer' \in {idle}
    BY <1>1
  <2> QED BY <1>1, <1>2, <2>1, <2>2, <2>3, <2>4 DEF Types
<1>4. Held' = 0
  BY <1>1 DEF Held, gap
<1>5. Gone' = written /\ written \in Nat
  BY <1>1, <1>4 DEF Gone, Types
<1>6. QueueInv'
  BY <1>4 DEF QueueInv
<1>7. WriteInv' /\ RoomInv' /\ ReadInv'
  BY <1>1 DEF WriteInv, RoomInv, ReadInv, idle, Writing, Draining, Reading
<1>8. ClearInv'
  BY <1>1, <1>5 DEF ClearInv, idle, Reading
<1> QED BY <1>1, <1>3, <1>4, <1>6, <1>7, <1>8

-----------------------------------------------------------------------------
(* Induction.                                                               *)

\* Any step keeps the invariant.
LEMMA NextIInv == IInv /\ [Next]_vars => IInv'
<1> SUFFICES ASSUME IInv, [Next]_vars PROVE IInv'
  OBVIOUS
<1>1. CASE UNCHANGED vars
  BY <1>1 DEF vars, shared, history, IInv, Types, QueueInv, WriteInv, ReadInv, RoomInv, ClearInv,
              Held, Gone, Copied
<1>2. CASE Next
  <2>1. CASE FreeSpace \/ WriteCopy \/ WriteWrap \/ WritePublish \/ request_clear
    BY <2>1, FreeSpaceKeeps, WriteCopyKeeps, WriteWrapKeeps, WritePublishKeeps, RequestKeeps
  <2>2. CASE \E len \in 1..MaxLen : WriteLoad(len)
    BY <2>2, WriteLoadKeeps
  <2>3. CASE \E len \in 1..MaxLen : ReadBegin(len)
    BY <2>3, ReadBeginKeeps
  <2>4. CASE ClearStore \/ ClearLoad \/ ClearPublish
    BY <2>4, ClearStoreKeeps, ClearLoadKeeps, ClearPublishKeeps
  <2>5. CASE ReadLoad \/ ReadCopy \/ ReadWrap \/ ReadPublish
    BY <2>5, ReadLoadKeeps, ReadCopyKeeps, ReadWrapKeeps, ReadPublishKeeps
  <2>6. CASE Start \/ Stop
    BY <2>6, StreamKeeps
  <2>7. CASE drop \/ \E new_capacity \in Capacities : reset(new_capacity)
    BY <2>7, EmptyKeeps
  <2> QED BY <1>2, <2>1, <2>2, <2>3, <2>4, <2>5, <2>6, <2>7 DEF Next
<1> QED BY <1>1, <1>2

\* The invariant holds of every behaviour.
LEMMA AlwaysIInv == Spec => []IInv
  BY InitIInv, NextIInv, PTL DEF Spec

-----------------------------------------------------------------------------
(* What the two threads rely on.                                            *)

\* Cells that are read hold bytes, cells that are written are free.
LEMMA NobodyRaces == IInv => NoDataRace
<1> SUFFICES ASSUME IInv, producer.pc \in {"copy", "wrap"}, consumer.pc \in {"copy", "wrap"},
                    NEW x \in Cells(producer.at, producer.to_write),
                    x \in Cells(consumer.at, consumer.to_read)
             PROVE  FALSE
  BY DEF NoDataRace
<1>1. producer \in Writing /\ consumer \in Reading
  BY DEF IInv, Types, idle, Draining
<1>2. /\ producer.at = write_pos /\ consumer.at = read_pos
      /\ producer.to_write \in Nat /\ consumer.to_read \in Nat
      /\ Held + producer.to_write < capacity /\ consumer.to_read <= Held
  BY <1>1 DEF IInv, WriteInv, ReadInv, Writing, Reading
<1>3. /\ capacity \in Nat /\ capacity > 0 /\ Held \in Nat /\ Held < capacity
      /\ write_pos \in 0 .. capacity - 1 /\ read_pos \in 0 .. capacity - 1
  BY <1>1, Amounts DEF IInv, Types, WriteInv
<1>4. PICK j \in 0 .. producer.to_write - 1 : x = (write_pos + j) % capacity
  BY <1>2 DEF Cells
<1>5. PICK i \in 0 .. consumer.to_read - 1 : x = (read_pos + i) % capacity
  BY <1>2 DEF Cells
<1>6. j \in 0 .. capacity - 1 /\ i \in 0 .. capacity - 1 /\ i \in 0 .. Held - 1
  BY <1>2, <1>3
<1>7. x = cell(write_pos, j, capacity)
  BY <1>3, <1>4, <1>6, WrapIsCell
<1>8. x = cell(read_pos, i, capacity)
  BY <1>3, <1>5, <1>6, WrapIsCell
<1> QED BY <1>1, <1>6, <1>7, <1>8, WriteIsApart DEF IInv

\* The inductive invariant says what is wanted.
LEMMA Safe == IInv => SharedWithoutALock
<1> SUFFICES ASSUME IInv PROVE SharedWithoutALock
  OBVIOUS
<1>1. TypeOK
  <2>1. capacity \in Nat
    BY Amounts DEF IInv
  <2>2. DOMAIN buffer = 0 .. capacity - 1 /\ {clear_requested, running} \subseteq BOOLEAN
    BY DEF IInv, Types
  <2>3. /\ producer.pc \in {"idle", "copy", "wrap", "publish"}
        /\ consumer.pc \in {"idle", "store", "drain", "load", "copy", "wrap", "publish"}
    BY DEF IInv, Types, idle, Writing, Draining, Reading
  <2> QED BY <2>1, <2>2, <2>3 DEF IInv, Types, TypeOK
<1>2. ClearDropsAllInOrder
  <2> SUFFICES ASSUME ~ overtaken, consumer.pc \in {"copy", "wrap", "publish"},
                      NEW i \in DOMAIN consumer.dest
               PROVE  consumer.dest[i] > floor
    BY DEF ClearDropsAllInOrder, ClearDropsEverything
  <2>1. consumer \in Reading /\ floor <= Gone /\ Gone \in Int /\ floor \in Nat
    BY GoneIsInt DEF IInv, Types, ClearInv, idle, Draining
  <2>2. PICK n \in Int : consumer.dest = Stretch(Gone, n)
    <3>1. consumer.dest = <<>> => consumer.dest = Stretch(Gone, 0)
      BY DEF Stretch
    <3>2. consumer.to_read \in Int /\ capacity - read_pos \in Int
      BY <2>1, Amounts DEF Reading, IInv, Types
    <3> QED BY <2>1, <3>1, <3>2 DEF IInv, ReadInv, Reading
  <2>3. i \in 1..n /\ consumer.dest[i] = Gone + i
    BY <2>2 DEF Stretch
  <2> QED BY <2>1, <2>3
<1> QED BY <1>1, <1>2, NobodyRaces DEF SharedWithoutALock

\* For every capacity and every length of a call: positions stay in the storage, the
\* memcpys of write() and read() never touch one byte at the same time, and no byte is
\* played that a request_clear() before this read() was to drop, unless the drain's store
\* has been seen after its load.
THEOREM LockFree == Spec => []SharedWithoutALock
  BY AlwaysIInv, Safe, PTL

\* A write() of no more than free_space() said in the same critical section lands whole.
THEOREM RoomKept == Spec => RoomIsKept
<1>1. IInv /\ [Next]_vars => [WritePublish /\ producer.len <= room
                                 => producer.to_write = producer.len]_vars
  BY DEF IInv, Types, RoomInv, idle, WritePublish
<1> QED BY <1>1, AlwaysIInv, PTL DEF Spec, RoomIsKept

-----------------------------------------------------------------------------
(* The ring implements the FIFO.                                            *)

\* What it holds are the bytes accepted last.
LEMMA ContentsAre == IInv => contents = Stretch(Gone, Held)
<1> SUFFICES ASSUME IInv PROVE contents = Stretch(Gone, Held)
  OBVIOUS
<1>1. CASE capacity = 0
  BY <1>1, Amounts DEF contents, Stretch, IInv
<1>2. CASE capacity # 0
  <2>1. /\ capacity \in Nat /\ capacity > 0 /\ Held \in Nat /\ Held < capacity
        /\ used(write_pos, read_pos, capacity) = Held
        /\ read_pos \in 0 .. capacity - 1 /\ Gone \in Int
    BY <1>2, Amounts, GoneIsInt DEF IInv, Types
  <2>2. ASSUME NEW i \in 1..Held
        PROVE  buffer[(read_pos + i - 1) % capacity] = Gone + i
    <3>1. i - 1 \in 0 .. capacity - 1 /\ i - 1 \in 0 .. Held - 1
      BY <2>1
    <3>2. (read_pos + (i - 1)) % capacity = cell(read_pos, i - 1, capacity)
      BY <2>1, <3>1, WrapIsCell
    <3>3. read_pos + (i - 1) = read_pos + i - 1 /\ Gone + 1 + (i - 1) = Gone + i
      BY <2>1
    <3> QED BY <3>1, <3>2, <3>3 DEF IInv, QueueInv
  <2> QED BY <1>2, <2>1, <2>2 DEF contents, Stretch
<1> QED BY <1>1, <1>2

\* And in the next state.
LEMMA ContentsWillBe == IInv' => (contents = Stretch(Gone, Held))'
  BY ContentsAre, PTL

\* A ring with no storage is an empty FIFO of size 0.
LEMMA InitFifo == Init => Fifo!Init
  BY DEF Init, Fifo!Init, contents, idle

\* The refinement mapping, by name.
Size == IF capacity = 0 THEN 0 ELSE capacity - 1
Owed == clear_requested \/ consumer.pc \in {"store", "drain"}

\* The ring never holds more than the FIFO may.
LEMMA LengthIsHeld == IInv => Len(contents) = Held /\ Held \in Nat /\ Held <= Size /\ Size \in Nat
<1> SUFFICES ASSUME IInv PROVE Len(contents) = Held /\ Held \in Nat /\ Held <= Size /\ Size \in Nat
  OBVIOUS
<1>1. Held \in Nat /\ Gone \in Int
  BY GoneIsInt DEF IInv
<1>2. Held <= Size /\ Size \in Nat
  BY Amounts DEF Size, IInv
<1> QED BY <1>1, <1>2, ContentsAre, Stretches

\* A step that neither hands bytes over nor takes any stutters.
LEMMA Stutters ==
    ASSUME IInv, IInv', UNCHANGED <<capacity, written, returned>>, Held' = Held, Owed' = Owed
    PROVE  UNCHANGED Fifo!vars
<1>1. contents' = contents
  BY ContentsAre, ContentsWillBe DEF Gone
<1>2. UNCHANGED Size
  BY DEF Size
<1> QED BY <1>1, <1>2 DEF Fifo!vars, Size, Owed

\* write() puts its bytes behind the others as it publishes them.
LEMMA PublishIsPut == IInv /\ WritePublish => \E n \in 1..Size : Fifo!Put(n)
<1> SUFFICES ASSUME IInv, WritePublish PROVE \E n \in 1..Size : Fifo!Put(n)
  OBVIOUS
<1> DEFINE n == producer.to_write
<1>1. IInv' /\ Held' = Held + n /\ Gone' = Gone
  BY WritePublishKeeps
<1>2. n \in Nat /\ n > 0 /\ Held + n <= Size /\ Held \in Nat /\ Gone \in Int /\ written = Gone + Held
  <2>1. producer \in Writing
    BY DEF IInv, Types, idle, WritePublish
  <2> QED BY <2>1, Amounts, GoneIsInt DEF IInv, WriteInv, Writing, Size
<1>3. contents' = contents \o [i \in 1..n |-> written + i]
  <2>1. contents = Stretch(Gone, Held) /\ contents' = Stretch(Gone, Held + n)
    BY <1>1, ContentsAre, ContentsWillBe
  <2>2. [i \in 1..n |-> written + i] = Stretch(Gone + Held, n)
    BY <1>2 DEF Stretch
  <2>3. Stretch(Gone, Held) \o Stretch(Gone + Held, n) = Stretch(Gone, Held + n)
    BY <1>2, Stretches
  <2> QED BY <2>1, <2>2, <2>3
<1>4. written' = written + n /\ UNCHANGED <<capacity, returned, clear_requested, consumer>>
  BY DEF WritePublish
<1>5. n \in 1..Size /\ Len(contents) + n <= Size
  BY <1>2, LengthIsHeld
<1> HIDE DEF n
<1>6. Fifo!Put(n)
  BY <1>3, <1>4, <1>5 DEF Fifo!Put, Size
<1> QED BY <1>5, <1>6

\* read() takes its bytes from the front as it publishes its position.
LEMMA PublishIsTake == IInv /\ ReadPublish => \E n \in 0..Len(contents) : Fifo!Take(n)
<1> SUFFICES ASSUME IInv, ReadPublish PROVE \E n \in 0..Len(contents) : Fifo!Take(n)
  OBVIOUS
<1> DEFINE n == consumer.to_read
<1>1. /\ IInv' /\ n \in 0..Held /\ returned' = Stretch(Gone, n)
      /\ Held' = Held - n /\ Gone' = Gone + n
  BY ReadPublishKeeps
<1>2. Held \in Nat /\ Gone \in Int /\ Len(contents) = Held
  BY LengthIsHeld, GoneIsInt DEF IInv
<1>3. contents = Stretch(Gone, Held) /\ contents' = Stretch(Gone + n, Held - n)
  BY <1>1, ContentsAre, ContentsWillBe
<1>4. /\ UNCHANGED <<capacity, written, clear_requested>>
      /\ consumer.pc = "publish" /\ consumer'.pc = "idle"
  BY DEF ReadPublish, idle
<1> HIDE DEF n
<1>5. /\ SubSeq(contents, 1, n) = Stretch(Gone, n)
      /\ SubSeq(contents, n + 1, Len(contents)) = Stretch(Gone + n, Held - n)
  <2>1. n \in Nat /\ n <= Held
    BY <1>1, <1>2
  <2>2. /\ SubSeq(Stretch(Gone, Held), 1, n) = Stretch(Gone, n)
        /\ SubSeq(Stretch(Gone, Held), n + 1, Held) = Stretch(Gone + n, Held - n)
    BY <1>2, <2>1, Stretches
  <2> QED BY <1>2, <1>3, <2>2
<1>6. Fifo!Take(n)
  BY <1>1, <1>2, <1>3, <1>4, <1>5 DEF Fifo!Take
<1> QED BY <1>1, <1>2, <1>6

\* A drain takes bytes from the front, and returns none.
LEMMA PublishIsDrain == IInv /\ ClearPublish => \E n \in 0..Len(contents) : Fifo!Drain(n)
<1> SUFFICES ASSUME IInv, ClearPublish PROVE \E n \in 0..Len(contents) : Fifo!Drain(n)
  OBVIOUS
<1>1. IInv' /\ \E n \in 0..Held : Held' = Held - n /\ Gone' = Gone + n
  BY ClearPublishKeeps
<1>2. PICK n \in 0..Held : Held' = Held - n /\ Gone' = Gone + n
  BY <1>1
<1>3. Held \in Nat /\ Gone \in Int /\ Len(contents) = Held
  BY LengthIsHeld, GoneIsInt DEF IInv
<1>4. contents = Stretch(Gone, Held) /\ contents' = Stretch(Gone + n, Held - n)
  BY <1>1, <1>2, ContentsAre, ContentsWillBe
<1>5. SubSeq(contents, n + 1, Len(contents)) = contents'
  <2>1. n \in Nat /\ n <= Held
    BY <1>2, <1>3
  <2>2. SubSeq(Stretch(Gone, Held), n + 1, Held) = Stretch(Gone + n, Held - n)
    BY <1>3, <2>1, Stretches
  <2> QED BY <1>3, <1>4, <2>2
<1>6. /\ UNCHANGED <<capacity, written, clear_requested>> /\ returned' = <<>>
      /\ consumer.pc = "drain" /\ consumer'.pc = "idle" /\ clear_requested \in BOOLEAN
  BY DEF ClearPublish, idle, IInv, Types
<1>7. Fifo!Drain(n)
  BY <1>2, <1>3, <1>5, <1>6 DEF Fifo!Drain
<1> QED BY <1>2, <1>3, <1>7

\* A read that finds nothing takes nothing.
LEMMA LoadIsTakeOrStutter ==
    IInv /\ ReadLoad => (\E n \in 0..Len(contents) : Fifo!Take(n)) \/ UNCHANGED Fifo!vars
<1> SUFFICES ASSUME IInv, ReadLoad
             PROVE  (\E n \in 0..Len(contents) : Fifo!Take(n)) \/ UNCHANGED Fifo!vars
  OBVIOUS
<1>1. IInv' /\ Held' = Held /\ Owed' = Owed /\ UNCHANGED <<capacity, written, clear_requested>>
  BY ReadLoadKeeps DEF ReadLoad, shared, Held, Owed, idle
<1>2. CASE returned' = returned
  BY <1>1, <1>2, Stutters
<1>3. CASE returned' = <<>>
  <2>1. Held \in Nat /\ Gone \in Int /\ Len(contents) = Held
    BY LengthIsHeld, GoneIsInt DEF IInv
  <2>2. contents' = contents /\ contents = Stretch(Gone, Held)
    BY <1>1, ContentsAre, ContentsWillBe DEF Gone
  <2>3. SubSeq(contents, 1, 0) = Stretch(Gone, 0) /\ SubSeq(contents, 1, Len(contents)) = contents
    BY <2>1, <2>2 DEF Stretch
  <2>4. Stretch(Gone, 0) = <<>>
    BY DEF Stretch
  <2>5. Fifo!Take(0)
    BY <1>1, <1>3, <2>1, <2>2, <2>3, <2>4 DEF Fifo!Take, Owed
  <2> QED BY <2>1, <2>5
<1> QED BY <1>2, <1>3 DEF ReadLoad

\* A request is owed until it is carried out.
LEMMA RequestIsAsk == IInv /\ request_clear => Fifo!Ask
<1> SUFFICES ASSUME IInv, request_clear PROVE Fifo!Ask
  OBVIOUS
<1>1. IInv' /\ Held' = Held /\ Gone' = Gone
  BY RequestKeeps DEF request_clear, Held, Gone
<1>2. contents' = contents
  BY <1>1, ContentsAre, ContentsWillBe
<1> QED BY <1>2 DEF Fifo!Ask, request_clear

\* drop() and reset() empty it.
LEMMA EmptyIsEmpty ==
    ASSUME IInv, drop \/ \E new_capacity \in Capacities : reset(new_capacity)
    PROVE  \E new_size \in {IF c = 0 THEN 0 ELSE c - 1 : c \in Capacities \cup {0}} :
              Fifo!Empty(new_size)
<1>1. IInv' /\ Held' = 0 /\ consumer' = idle
  BY EmptyKeeps
<1>2. contents' = <<>>
  <2>1. Stretch(Gone', 0) = <<>>
    BY DEF Stretch
  <2> QED BY <1>1, <2>1, ContentsWillBe
<1>3. Size' \in {IF c = 0 THEN 0 ELSE c - 1 : c \in Capacities \cup {0}}
  BY <1>1 DEF IInv, Types, Size
<1>4. clear_requested' = FALSE /\ UNCHANGED <<written, returned>>
  BY DEF drop, reset, history
<1>5. Fifo!Empty(Size')
  BY <1>1, <1>2, <1>4 DEF Fifo!Empty, Size, idle
<1> QED BY <1>3, <1>5

\* Every step of the ring is a step of the FIFO, or none.
LEMMA StepIsFifo == IInv /\ [Next]_vars => [Fifo!Next]_(Fifo!vars)
<1> SUFFICES ASSUME IInv, [Next]_vars PROVE [Fifo!Next]_(Fifo!vars)
  OBVIOUS
<1>0. IInv'
  BY NextIInv
<1>1. CASE UNCHANGED vars
  <2>1. Held' = Held /\ Owed' = Owed /\ UNCHANGED <<capacity, written, returned>>
    BY <1>1 DEF vars, shared, history, Held, Owed
  <2> QED BY <1>0, <2>1, Stutters
<1>2. CASE \/ FreeSpace \/ WriteCopy \/ WriteWrap \/ Start \/ Stop
           \/ \E len \in 1..MaxLen : WriteLoad(len) \/ ReadBegin(len)
           \/ ClearStore \/ ClearLoad \/ ReadCopy \/ ReadWrap
  <2>1. UNCHANGED <<capacity, written, returned>> /\ Held' = Held
    BY <1>2 DEF FreeSpace, WriteCopy, WriteWrap, Start, Stop, WriteLoad, ReadBegin, ClearStore,
                ClearLoad, ReadCopy, ReadWrap, shared, history, Held
  <2>2. ASSUME \E len \in 1..MaxLen : ReadBegin(len) PROVE Owed' = Owed
    BY <2>2 DEF ReadBegin, shared, Owed, idle, IInv, Types
  <2>3. ASSUME ClearStore PROVE Owed' = Owed
    BY <2>3 DEF ClearStore, Owed, IInv, Types, idle, Draining, Reading
  <2>4. ASSUME ClearLoad PROVE Owed' = Owed
    BY <2>4 DEF ClearLoad, shared, Owed, IInv, Types, idle, Draining, Reading
  <2>5. ASSUME ReadCopy \/ ReadWrap PROVE Owed' = Owed
    <3>1. consumer'.pc \in {"wrap", "publish"} /\ consumer.pc \in {"copy", "wrap"}
      BY <2>5 DEF ReadCopy, ReadWrap, IInv, Types, idle, Draining, Reading
    <3> QED BY <2>5, <3>1 DEF ReadCopy, ReadWrap, shared, Owed
  <2>6. ASSUME \/ FreeSpace \/ WriteCopy \/ WriteWrap \/ Start \/ Stop
               \/ \E len \in 1..MaxLen : WriteLoad(len)
        PROVE  Owed' = Owed
    BY <2>6 DEF FreeSpace, WriteCopy, WriteWrap, Start, Stop, WriteLoad, shared, Owed
  <2>7. Owed' = Owed
    BY <1>2, <2>2, <2>3, <2>4, <2>5, <2>6
  <2> QED BY <1>0, <2>1, <2>7, Stutters
<1>3. CASE WritePublish
  BY <1>3, PublishIsPut DEF Fifo!Next, Size
<1>4. CASE ReadPublish \/ ClearPublish \/ ReadLoad
  BY <1>4, PublishIsTake, PublishIsDrain, LoadIsTakeOrStutter DEF Fifo!Next
<1>5. CASE request_clear
  BY <1>5, RequestIsAsk DEF Fifo!Next
<1>6. CASE drop \/ \E new_capacity \in Capacities : reset(new_capacity)
  BY <1>6, EmptyIsEmpty DEF Fifo!Next
<1> QED BY <1>1, <1>2, <1>3, <1>4, <1>5, <1>6 DEF Next

\* For every capacity, the ring that two threads share without a lock is a bounded FIFO:
\* nothing is torn, repeated, reordered or lost but to a drain somebody asked for.
THEOREM RingIsFifo == Spec => ImplementsFifo
  BY InitFifo, StepIsFifo, AlwaysIInv, PTL DEF Spec, ImplementsFifo, Fifo!Spec
=============================================================================
