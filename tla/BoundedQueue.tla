----------------------------- MODULE BoundedQueue -----------------------------
(***************************************************************************)
(* What RingBuffer promises: a queue of at most Capacity elements.  The    *)
(* elements are numbered in the order in which they are put.               *)
(***************************************************************************)
EXTENDS Naturals, Sequences

CONSTANT Capacity

VARIABLES
    queue,   \* the elements, oldest first
    puts,    \* how many have been put
    taken    \* the element taken last, 0 at first

Init == queue = <<>> /\ puts = 0 /\ taken = 0

Put ==
    /\ Len(queue) < Capacity
    /\ queue' = Append(queue, puts + 1)
    /\ puts' = puts + 1
    /\ UNCHANGED taken

Take ==
    /\ queue # <<>>
    /\ taken' = Head(queue)
    /\ queue' = Tail(queue)
    /\ UNCHANGED puts

Spec == Init /\ [][Put \/ Take]_<<queue, puts, taken>>
=============================================================================
