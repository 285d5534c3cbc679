--------------------------- MODULE RingBufferProofs ---------------------------
(***************************************************************************)
(* RingBuffer implements BoundedQueue, for every capacity.                 *)
(***************************************************************************)
EXTENDS RingBuffer, SequenceTheorems, TLAPS

\* The ring: the slot behind the contents is the producer's, and a thread
\* that has passed its check has something to write or to read.
RingInv ==
    /\ producer # "full?" => numDatas < Capacity /\ puts < MaxPuts
    /\ consumer # "empty?" => numDatas > 0
    /\ putPos = IF producer = "count" THEN Add(Nth(Size)) ELSE Nth(Size)
    /\ producer \in {"add", "count"} => buffer[Nth(Size)] = puts + 1

IInv == TypeOK /\ RingInv

\* The invariant in terms of numbers: positions are slots, and fewer than
\* Capacity elements in a row are in different slots.
LEMMA RingNumbers ==
    ASSUME IInv
    PROVE  /\ Capacity \in Nat /\ Capacity > 0 /\ MaxPuts \in Nat
           /\ numDatas \in Nat /\ numDatas <= Capacity
           /\ Oldest \in Nat /\ Oldest < Capacity
           /\ getPos \in Nat /\ getPos < Capacity
           /\ putPos \in Nat /\ putPos < Capacity
           /\ Size \in Nat /\ Size <= Capacity
           /\ producer # "full?" => Size < Capacity
           /\ consumer \in {"add", "count"} => Size < Capacity
           /\ \A k \in Nat : k <= Capacity => Nth(k) \in Slots
           /\ \A k \in Nat, l \in Nat : k < l /\ l < Capacity => Nth(k) # Nth(l)
           /\ puts \in Nat
  <1>1. /\ Capacity \in Nat /\ Capacity > 0 /\ MaxPuts \in Nat
        /\ numDatas \in Nat /\ numDatas <= Capacity
        /\ getPos \in Nat /\ getPos < Capacity
        /\ putPos \in Nat /\ putPos < Capacity
        /\ puts \in Nat
    BY CapacityAssumption DEF IInv, TypeOK, Slots
  <1>2. Oldest \in Nat /\ Oldest < Capacity
    BY <1>1 DEF Oldest, Add
  <1>3. /\ Size \in Nat /\ Size <= Capacity
        /\ producer # "full?" => Size < Capacity
        /\ consumer \in {"add", "count"} => Size < Capacity
    BY <1>1 DEF Size, IInv, RingInv
  <1>4. \A k \in Nat : k <= Capacity => Nth(k) \in Slots
    BY <1>1, <1>2 DEF Nth, Slots
  <1>5. \A k \in Nat, l \in Nat : k < l /\ l < Capacity => Nth(k) # Nth(l)
    BY <1>1, <1>2 DEF Nth
  <1> QED BY <1>1, <1>2, <1>3, <1>4, <1>5

\* Moving Oldest to the next slot shifts the numbering by one.
LEMMA NextNth ==
    ASSUME NEW p \in Nat, p < Capacity, NEW k \in Nat, k < Capacity,
           Capacity \in Nat
    PROVE  (IF Add(p) + k < Capacity THEN Add(p) + k ELSE Add(p) + k - Capacity)
             = (IF p + (k + 1) < Capacity THEN p + (k + 1) ELSE p + (k + 1) - Capacity)
  BY DEF Add

\* The statements of pushData and pop_front keep the ring's invariant in every
\* interleaving of the two threads.
THEOREM RingInvariant == Spec => []IInv
  <1>1. Init => IInv
    BY CapacityAssumption, SMT DEF Init, IInv, TypeOK, RingInv, Nth, Oldest, Size, Slots, Add
  <1>2. IInv /\ [Next]_vars => IInv'
    <2> SUFFICES ASSUME IInv, [Next]_vars PROVE IInv'
      OBVIOUS
    <2> USE RingNumbers
    <2>1. CASE UNCHANGED vars
      BY <2>1 DEF vars, IInv, TypeOK, RingInv, Nth, Oldest, Size
    <2>2. CASE CheckFull
      BY <2>2, SMTT(20) DEF CheckFull, Full, IInv, TypeOK, RingInv, Nth, Oldest, Size
    <2>3. CASE Write
      <3>1. TypeOK'
        <4>1. puts + 1 \in 0 .. MaxPuts
          BY <2>3 DEF Write, IInv, RingInv
        <4> QED BY <2>3, <4>1 DEF Write, IInv, TypeOK
      <3>2. RingInv'
        BY <2>3 DEF Write, IInv, TypeOK, RingInv, Nth, Oldest, Size
      <3> QED BY <3>1, <3>2 DEF IInv
    <2>4. CASE AddPut
      <3>1. TypeOK'
        <4>1. Add(putPos) \in Slots BY DEF Add, Slots
        <4> QED BY <2>4, <4>1 DEF AddPut, IInv, TypeOK
      <3>2. /\ Nth(Size)' = Nth(Size) /\ putPos' = Add(putPos) /\ putPos = Nth(Size)
            /\ producer' = "count"
        BY <2>4 DEF AddPut, IInv, RingInv, Nth, Oldest, Size
      <3>3. RingInv'
        BY <2>4, <3>2 DEF AddPut, IInv, RingInv, Add
      <3> QED BY <3>1, <3>3 DEF IInv
    <2>5. CASE CountUp
      <3>1. numDatas < Capacity /\ puts < MaxPuts /\ putPos = Add(Nth(Size))
        BY <2>5 DEF CountUp, IInv, RingInv
      <3>2. TypeOK'
        <4>1. numDatas + 1 \in 0 .. Capacity /\ puts + 1 \in 0 .. MaxPuts
          BY <3>1
        <4> QED BY <2>5, <4>1 DEF CountUp, IInv, TypeOK
      <3>3. Size' = Size + 1 /\ Oldest' = Oldest
        BY <2>5 DEF CountUp, Size, Oldest
      <3>4. Nth(Size)' = Add(Nth(Size))
        <4>1. Nth(Size)' = IF Oldest + (Size + 1) < Capacity
                           THEN Oldest + (Size + 1)
                           ELSE Oldest + (Size + 1) - Capacity
          BY <3>3 DEF Nth
        <4>2. Size < Capacity BY <2>5 DEF CountUp
        <4> QED BY <4>1, <4>2 DEF Nth, Add
      <3>5. RingInv'
        BY <2>5, <3>1, <3>4 DEF CountUp, IInv, RingInv
      <3> QED BY <3>2, <3>5 DEF IInv
    <2>6. CASE CheckEmpty
      BY <2>6 DEF CheckEmpty, Empty, IInv, TypeOK, RingInv, Nth, Oldest, Size
    <2>7. CASE Front
      <3>1. TypeOK'
        BY <2>7 DEF Front, IInv, TypeOK, Slots
      <3>2. Size = numDatas /\ Size' = numDatas - 1 /\ numDatas > 0
        BY <2>7 DEF Front, IInv, RingInv, Size
      <3>3. Nth(Size)' = Nth(Size)
        BY <2>7, <3>2 DEF Front, Nth, Oldest, Add
      <3>4. RingInv'
        BY <2>7, <3>2, <3>3 DEF Front, IInv, RingInv, Add
      <3> QED BY <3>1, <3>4 DEF IInv
    <2>8. CASE AddGet
      BY <2>8 DEF AddGet, IInv, TypeOK, RingInv, Nth, Oldest, Size, Slots, Add
    <2>9. CASE CountDown
      BY <2>9 DEF CountDown, IInv, TypeOK, RingInv, Nth, Oldest, Size
    <2> QED BY <2>1, <2>2, <2>3, <2>4, <2>5, <2>6, <2>7, <2>8, <2>9
            DEF Next, Producer, Consumer
  <1> QED BY <1>1, <1>2, PTL DEF Spec

\* The ring buffer's variables keep their types: never more than Capacity
\* elements, and positions inside the buffer.
THEOREM RingTypeCorrect == Spec => []TypeOK
  BY RingInvariant, PTL DEF IInv

\* front() never copies the slot pushData is writing.
THEOREM SlotsNeverShared == Spec => []NoSlotShared
  <1>1. IInv => NoSlotShared
    <2> SUFFICES ASSUME IInv, producer = "write", consumer = "front"
                 PROVE  putPos # getPos
      BY DEF NoSlotShared
    <2>1. putPos = Nth(Size) /\ Size = numDatas /\ numDatas > 0
      BY DEF IInv, RingInv, Size
    <2>2. Nth(0) = getPos
      BY RingNumbers DEF Nth, Oldest
    <2> QED BY <2>1, <2>2, RingNumbers
  <1> QED BY RingInvariant, <1>1, PTL

-----------------------------------------------------------------------------
(* Refinement.                                                             *)

\* What the ring holds is a sequence of Size elements.
LEMMA ContentsSeq ==
    ASSUME IInv
    PROVE  /\ Contents \in Seq(0 .. MaxPuts)
           /\ Len(Contents) = Size
           /\ \A k \in 1 .. Size : Contents[k] = buffer[Nth(k - 1)]
  <1>1. \A k \in 1 .. Size : buffer[Nth(k - 1)] \in 0 .. MaxPuts
    <2> SUFFICES ASSUME NEW k \in 1 .. Size
                 PROVE  buffer[Nth(k - 1)] \in 0 .. MaxPuts
      OBVIOUS
    <2>1. k - 1 \in Nat /\ k - 1 <= Capacity BY RingNumbers
    <2>2. Nth(k - 1) \in Slots BY <2>1, RingNumbers
    <2> QED BY <2>2 DEF IInv, TypeOK
  <1> QED BY <1>1, RingNumbers, SMTT(20) DEF Contents

\* A step that leaves the elements and their number alone is a stutter.
LEMMA SameContents ==
    ASSUME IInv, IInv', Size' = Size,
           \A k \in Nat : k < Size => buffer'[Nth(k)'] = buffer[Nth(k)]
    PROVE  Contents' = Contents
  <1>1. \A k \in 1 .. Size : buffer[Nth(k - 1)]' = buffer[Nth(k - 1)]
    BY RingNumbers
  <1> QED BY <1>1 DEF Contents

\* ++_numDatas puts the element that was written behind the contents.
LEMMA PutStep ==
    ASSUME IInv, IInv', CountUp
    PROVE  Queue!Put
  <1>1. Size < Capacity /\ Size \in Nat
    BY RingNumbers DEF CountUp
  <1>2. /\ Size' = Size + 1 /\ Oldest' = Oldest
        /\ buffer' = buffer /\ puts' = puts + 1 /\ item' = item
    BY RingNumbers DEF CountUp, Size, Oldest
  <1>3. \A k \in Nat : Nth(k)' = Nth(k)
    BY <1>2 DEF Nth
  <1>4. buffer[Nth(Size)] = puts + 1
    BY DEF CountUp, IInv, RingInv
  <1>5. Contents' = [k \in 1 .. Size + 1 |-> buffer[Nth(k - 1)]]
    <2>1. \A k \in 1 .. Size + 1 : Nth(k - 1)' = Nth(k - 1)
      BY <1>1, <1>3
    <2> QED BY <1>2, <2>1 DEF Contents
  <1>6. Append(Contents, puts + 1) = [k \in 1 .. Size + 1 |-> buffer[Nth(k - 1)]]
    <2>1. Len(Contents) = Size BY ContentsSeq
    <2>2. Append(Contents, puts + 1)
            = [k \in 1 .. Size + 1 |-> IF k = Size + 1 THEN puts + 1 ELSE Contents[k]]
      BY <2>1, <1>1, ContentsSeq
    <2>3. \A k \in 1 .. Size + 1 :
             (IF k = Size + 1 THEN puts + 1 ELSE Contents[k]) = buffer[Nth(k - 1)]
      BY <1>1, <1>4, ContentsSeq
    <2> QED BY <2>2, <2>3
  <1> QED BY <1>1, <1>2, <1>5, <1>6, ContentsSeq DEF Queue!Put

\* front() takes the oldest element.
LEMMA TakeStep ==
    ASSUME IInv, IInv', Front
    PROVE  Queue!Take
  <1>1. Size = numDatas /\ Size \in Nat /\ Size > 0 /\ Size <= Capacity
    BY RingNumbers DEF Front, Size, IInv, RingInv
  <1>2. /\ Size' = Size - 1 /\ Oldest = getPos /\ Oldest' = Add(getPos)
        /\ buffer' = buffer /\ puts' = puts /\ item' = buffer[getPos]
    BY <1>1 DEF Front, Size, Oldest, Add
  <1>3. \A k \in Nat : k < Capacity => Nth(k)' = Nth(k + 1)
    BY <1>2, RingNumbers, NextNth DEF Nth
  <1>4. Nth(0) = getPos
    BY <1>2, RingNumbers DEF Nth
  <1>5. Contents # <<>> /\ Head(Contents) = buffer[getPos]
    <2>1. Contents[1] = buffer[Nth(0)] BY <1>1, ContentsSeq
    <2> QED BY <2>1, <1>1, <1>4, ContentsSeq
  <1>6. Contents' = Tail(Contents)
    <2>1. /\ Tail(Contents) \in Seq(0 .. MaxPuts) /\ Len(Tail(Contents)) = Size - 1
          /\ \A k \in 1 .. Size - 1 : Tail(Contents)[k] = Contents[k + 1]
      BY <1>5, ContentsSeq, HeadTailProperties
    <2>2. \A k \in 1 .. Size - 1 : Contents[k + 1] = buffer[Nth(k)]
      BY <1>1, ContentsSeq
    <2>3. \A k \in 1 .. Size - 1 : Nth(k - 1)' = Nth(k)
      BY <1>1, <1>3, RingNumbers
    <2>4. Contents' = [k \in 1 .. Size - 1 |-> buffer[Nth(k)]]
      BY <1>2, <2>3 DEF Contents
    <2>5. Contents' \in Seq(0 .. MaxPuts) /\ Len(Contents') = Size - 1
      <3>1. \A k \in 1 .. Size - 1 : buffer[Nth(k)] \in 0 .. MaxPuts
        BY <1>1, RingNumbers DEF IInv, TypeOK
      <3> QED BY <1>1, <2>4, <3>1
    <2>6. \A k \in 1 .. Len(Contents') : Contents'[k] = Tail(Contents)[k]
      BY <2>1, <2>2, <2>4, <2>5
    <2> QED BY <2>1, <2>5, <2>6, SeqEqual
  <1> QED BY <1>2, <1>5, <1>6 DEF Queue!Take

\* Every other step leaves the queue alone.
LEMMA OtherSteps ==
    ASSUME IInv, IInv',
           \/ CheckFull \/ Write \/ AddPut \/ CheckEmpty \/ AddGet \/ CountDown
           \/ UNCHANGED vars
    PROVE  UNCHANGED <<Contents, puts, item>>
  <1>1. UNCHANGED <<puts, item>>
    BY DEF CheckFull, Write, AddPut, CheckEmpty, AddGet, CountDown, vars
  <1>2. Size' = Size /\ Oldest' = Oldest
    BY RingNumbers DEF CheckFull, Write, AddPut, CheckEmpty, AddGet, CountDown,
                       vars, Size, Oldest, Add
  <1>3. \A k \in Nat : Nth(k)' = Nth(k)
    BY <1>2 DEF Nth
  <1>4. \A k \in Nat : k < Size => buffer'[Nth(k)] = buffer[Nth(k)]
    <2>1. CASE Write
      <3>1. putPos = Nth(Size) /\ Size < Capacity
        BY <2>1, RingNumbers DEF Write, IInv, RingInv
      <3>2. \A k \in Nat : k < Size => Nth(k) # putPos /\ Nth(k) \in Slots
        BY <3>1, RingNumbers
      <3> QED BY <2>1, <3>2 DEF Write, IInv, TypeOK
    <2>2. CASE ~Write
      BY <2>2 DEF CheckFull, AddPut, CheckEmpty, AddGet, CountDown, vars
    <2> QED BY <2>1, <2>2
  <1>5. Contents' = Contents
    BY <1>2, <1>3, <1>4, SameContents
  <1> QED BY <1>1, <1>5

\* RingBuffer is a bounded first-in first-out queue between two threads.
THEOREM RingImplementsQueue == Spec => QueueImplemented
  <1>1. Init => Queue!Init
    BY CapacityAssumption DEF Init, Queue!Init, Contents, Size
  <1>2. IInv /\ IInv' /\ [Next]_vars
            => [Queue!Put \/ Queue!Take]_<<Contents, puts, item>>
    BY PutStep, TakeStep, OtherSteps DEF Next, Producer, Consumer
  <1> QED BY <1>1, <1>2, RingInvariant, PTL DEF Spec, QueueImplemented, Queue!Spec
=============================================================================
