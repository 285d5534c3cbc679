------------------------------ MODULE RingBuffer ------------------------------
(***************************************************************************)
(* RingBuffer between one producer and one consumer thread, which call     *)
(* push_back only if the buffer is not full() and front() and pop_front()  *)
(* only if it is not empty(), as the asserts demand.  Only _numDatas is    *)
(* atomic; every statement is a step.                                      *)
(***************************************************************************)
EXTENDS Naturals, Sequences

CONSTANTS
    Capacity,   \* _capacity (60 by default)
    MaxPuts     \* bound on the elements pushed

ASSUME CapacityAssumption == Capacity \in Nat \ {0} /\ MaxPuts \in Nat

VARIABLES
    buffer,     \* _buffer; elements are numbered, 0 is none
    numDatas, putPos, getPos,
    producer,   \* its next statement
    consumer,
    puts,       \* elements pushed, the last one's number
    item        \* what front() returned last

vars == <<buffer, numDatas, putPos, getPos, producer, consumer, puts, item>>

Slots == 0 .. Capacity - 1

Init ==
    /\ buffer = [p \in Slots |-> 0]
    /\ numDatas = 0 /\ putPos = 0 /\ getPos = 0
    /\ producer = "full?" /\ consumer = "empty?"
    /\ puts = 0 /\ item = 0

\* add(pos)
Add(pos) == IF pos + 1 = Capacity THEN 0 ELSE pos + 1

MutFullLate == numDatas > Capacity

Full == numDatas = Capacity

MutEmptyNever == FALSE
MutEmptyEarly == numDatas <= 1

Empty == numDatas = 0

\* full(), then the three statements of pushData.
CheckFull ==
    /\ producer = "full?" /\ ~Full /\ puts < MaxPuts
    /\ producer' = "write"
    /\ UNCHANGED <<buffer, numDatas, putPos, getPos, consumer, puts, item>>

Write ==
    /\ producer = "write"
    /\ buffer' = [buffer EXCEPT ![putPos] = puts + 1]
    /\ producer' = "add"
    /\ UNCHANGED <<numDatas, putPos, getPos, consumer, puts, item>>

AddPut ==
    /\ producer = "add"
    /\ putPos' = Add(putPos)
    /\ producer' = "count"
    /\ UNCHANGED <<buffer, numDatas, getPos, consumer, puts, item>>

CountUp ==
    /\ producer = "count"
    /\ numDatas' = numDatas + 1
    /\ puts' = puts + 1
    /\ producer' = "full?"
    /\ UNCHANGED <<buffer, putPos, getPos, consumer, item>>

\* empty(), front() and the two statements of pop_front().
CheckEmpty ==
    /\ consumer = "empty?" /\ ~Empty
    /\ consumer' = "front"
    /\ UNCHANGED <<buffer, numDatas, putPos, getPos, producer, puts, item>>

Front ==
    /\ consumer = "front"
    /\ item' = buffer[getPos]
    /\ consumer' = "add"
    /\ UNCHANGED <<buffer, numDatas, putPos, getPos, producer, puts>>

AddGet ==
    /\ consumer = "add"
    /\ getPos' = Add(getPos)
    /\ consumer' = "count"
    /\ UNCHANGED <<buffer, numDatas, putPos, producer, puts, item>>

CountDown ==
    /\ consumer = "count"
    /\ numDatas' = numDatas - 1
    /\ consumer' = "empty?"
    /\ UNCHANGED <<buffer, putPos, getPos, producer, puts, item>>

Producer == CheckFull \/ Write \/ AddPut \/ CountUp
Consumer == CheckEmpty \/ Front \/ AddGet \/ CountDown
Next == Producer \/ Consumer

\* The consumer keeps taking what is there; nothing is assumed of the producer.
Spec == Init /\ [][Next]_vars /\ WF_vars(Consumer)

-----------------------------------------------------------------------------
(* Properties.                                                             *)

\* The types of the variables.
TypeOK ==
    /\ buffer \in [Slots -> 0 .. MaxPuts]
    /\ numDatas \in 0 .. Capacity
    /\ putPos \in Slots /\ getPos \in Slots
    /\ producer \in {"full?", "write", "add", "count"}
    /\ consumer \in {"empty?", "front", "add", "count"}
    /\ puts \in 0 .. MaxPuts /\ item \in 0 .. MaxPuts

\* The slots are not atomic: front() never copies the one pushData writes.
NoSlotShared == producer = "write" /\ consumer = "front" => putPos # getPos

\* The elements front() has not returned yet, oldest first: pop_front() takes
\* two further steps to remove the one front() returned.
Size == IF consumer \in {"add", "count"} THEN numDatas - 1 ELSE numDatas
Oldest == IF consumer = "add" THEN Add(getPos) ELSE getPos
Nth(k) == IF Oldest + k < Capacity THEN Oldest + k ELSE Oldest + k - Capacity
Contents == [k \in 1 .. Size |-> buffer[Nth(k - 1)]]

Queue == INSTANCE BoundedQueue WITH queue <- Contents, taken <- item

\* Between two threads, with a counter as the only atomic, it is a bounded
\* queue: nothing is lost, duplicated or reordered.
QueueImplemented == Queue!Spec

\* Every element that is pushed is taken.
EverythingTaken == \A k \in 1 .. MaxPuts : puts = k ~> item >= k
=============================================================================
