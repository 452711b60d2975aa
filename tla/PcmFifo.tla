------------------------------ MODULE PcmFifo ------------------------------
(***************************************************************************)
(* What PcmRingBuffer promises the sink around it: a bounded FIFO of bytes. *)
(* Bytes are numbered in the order they were accepted, so a byte that is    *)
(* lost, repeated, reordered or torn is a wrong number.  Nothing leaves the *)
(* queue but by being returned from its head or by a drain somebody asked   *)
(* for after the queue was last dropped.                                    *)
(***************************************************************************)
EXTENDS Naturals, Sequences

CONSTANT Sizes   \* the sizes it can be given

VARIABLES
    queue,      \* the bytes accepted and not yet returned or dropped
    size,       \* how many the queue can hold
    accepted,   \* how many bytes were ever accepted
    returned,   \* what the last finished read gave back
    owed        \* a drain was asked for and not carried out

vars == <<queue, size, accepted, returned, owed>>

Init ==
    /\ queue = <<>>
    /\ size = 0
    /\ accepted = 0
    /\ returned = <<>>
    /\ owed = FALSE

\* A write lands n bytes behind the others.
Put(n) ==
    /\ Len(queue) + n <= size
    /\ queue' = queue \o [i \in 1..n |-> accepted + i]
    /\ accepted' = accepted + n
    /\ UNCHANGED <<size, returned, owed>>

\* A read takes n bytes from the front.
Take(n) ==
    /\ n <= Len(queue)
    /\ returned' = SubSeq(queue, 1, n)
    /\ queue' = SubSeq(queue, n + 1, Len(queue))
    /\ UNCHANGED <<size, accepted, owed>>

Ask ==
    /\ owed' = TRUE
    /\ UNCHANGED <<queue, size, accepted, returned>>

\* A read that found a drain owed drops n bytes from the front and returns
\* silence; bytes accepted while it ran may stay, and so may a newer request.
Drain(n) ==
    /\ owed
    /\ n <= Len(queue)
    /\ queue' = SubSeq(queue, n + 1, Len(queue))
    /\ returned' = <<>>
    /\ owed' \in BOOLEAN
    /\ UNCHANGED <<size, accepted>>

\* With the stream stopped the queue is emptied and, on a reset, resized.
Empty(new_size) ==
    /\ queue' = <<>>
    /\ size' = new_size
    /\ owed' = FALSE
    /\ UNCHANGED <<accepted, returned>>

Next ==
    \/ \E n \in 1..size : Put(n)
    \/ \E n \in 0..Len(queue) : Take(n) \/ Drain(n)
    \/ Ask
    \/ \E new_size \in Sizes : Empty(new_size)

Spec == Init /\ [][Next]_vars
=============================================================================
