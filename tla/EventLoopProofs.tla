--------------------------- MODULE EventLoopProofs ---------------------------
(***************************************************************************)
(* For any number of threads, channels and functors: the loop keeps its    *)
(* types, loses no wakeup and executes the functors as the abstract queue. *)
(***************************************************************************)
EXTENDS EventLoop, SequenceTheorems, TLAPS

\* A loop step may assume that the eventfd reflects the queue wherever the
\* swapped-out vector is not about to be refilled: between EventsHandled and
\* the swap the pending functors are taken whether a wakeup is due or not.
WakeupInv ==
    pc \in {"created", "run", "check", "poll"}
        => (pendingFunctors # <<>> => WakeupDue)

\* `functors' is empty outside the loop that runs it.
BatchInv == pc # "run" => functors = <<>>

Inv == TypeOK /\ WakeupInv /\ NoLostQuit /\ BatchInv

-----------------------------------------------------------------------------
\* Pushing a functor gives a sequence of functors.
LEMMA AppendKeepsType ==
    \A s \in Seq(Functors), f \in Functors : Append(s, f) \in Seq(Functors)
  OBVIOUS

\* The types of the loop's variables are kept by every step of every thread.
THEOREM TypeCorrect == Spec => []TypeOK
<1>1. Init => TypeOK
  <2> SUFFICES ASSUME Init PROVE TypeOK
    OBVIOUS
  <2>1. quit \in BOOLEAN
    BY DEF Init
  <2>2. /\ pendingFunctors \in Seq(Functors)
        /\ functors \in Seq(Functors)
        /\ executed \in Seq(Functors)
    BY DEF Init
  <2>3. callingPendingFunctors = IF pc \in {"swap", "run"} THEN TRUE ELSE FALSE
    BY DEF Init
  <2>4. QED
    BY <2>1, <2>2, <2>3 DEF Init, TypeOK
<1>2. TypeOK /\ [Next]_vars => TypeOK'
  <2> SUFFICES ASSUME TypeOK, [Next]_vars PROVE TypeOK'
    OBVIOUS
  <2> USE DEF TypeOK
  <2>1. ASSUME NEW t \in Threads, NEW f \in Functors, QueueInLoop(t, f)
        PROVE  TypeOK'
    BY <2>1 DEF QueueInLoop
  <2>2. ASSUME NEW t \in Threads, Quit(t) PROVE TypeOK'
    BY <2>2 DEF Quit
  <2>3. ASSUME NEW t \in Threads, Wakeup(t) PROVE TypeOK'
    BY <2>3 DEF Wakeup
  <2>4. CASE LoopStart
    BY <2>4 DEF LoopStart
  <2>5. CASE LoopCheck
    BY <2>5 DEF LoopCheck
  <2>6. CASE PollReady
    BY <2>6 DEF PollReady, PollReturns
  <2>7. CASE HandleRead
    BY <2>7 DEF HandleRead
  <2>8. ASSUME NEW c \in IOChannels, HandleEvent(c) PROVE TypeOK'
    <3>1. quit' \in BOOLEAN
      BY <2>8 DEF HandleEvent
    <3>2. /\ \/ pendingFunctors' = pendingFunctors
             \/ \E f \in Functors : pendingFunctors' = Append(pendingFunctors, f)
          /\ \/ executed' = executed
             \/ \E f \in Functors : executed' = Append(executed, f)
      BY <2>8 DEF HandleEvent, LoopQueues
    <3>3. pendingFunctors' \in Seq(Functors) /\ executed' \in Seq(Functors)
      BY <3>2, AppendKeepsType
    <3>4. wakeupFd' \in {0, 1}
      BY <2>8 DEF HandleEvent, LoopQueues
    <3>5. QED
      BY <2>8, <3>1, <3>3, <3>4 DEF HandleEvent
  <2>9. CASE EventsHandled
    BY <2>9 DEF EventsHandled
  <2>10. CASE SwapPendingFunctors
    BY <2>10 DEF SwapPendingFunctors
  <2>11. CASE RunFunctor
    <3>1. Head(functors) \in Functors /\ Tail(functors) \in Seq(Functors)
      BY <2>11 DEF RunFunctor
    <3>2. quit' \in BOOLEAN
      BY <2>11 DEF RunFunctor
    <3>3. \/ pendingFunctors' = pendingFunctors
          \/ \E f \in Functors : pendingFunctors' = Append(pendingFunctors, f)
      BY <2>11 DEF RunFunctor, LoopQueues
    <3>4. wakeupFd' \in {0, 1}
      BY <2>11 DEF RunFunctor, LoopQueues
    <3>5. pendingFunctors' \in Seq(Functors)
      BY <3>3, AppendKeepsType
    <3>6. Append(executed, Head(functors)) \in Seq(Functors)
      BY <3>1, AppendKeepsType
    <3>7. executed' \in Seq(Functors)
      BY <2>11, <3>6, AppendKeepsType DEF RunFunctor
    <3>8. QED
      BY <2>11, <3>1, <3>2, <3>4, <3>5, <3>7 DEF RunFunctor
  <2>12. CASE FunctorsDone
    BY <2>12 DEF FunctorsDone
  <2>13. CASE PollTimeout
    BY <2>13 DEF PollTimeout, PollReturns
  <2>14. CASE UNCHANGED vars
    BY <2>14 DEF vars
  <2>15. QED
    BY <2>1, <2>2, <2>3, <2>4, <2>5, <2>6, <2>7, <2>8, <2>9, <2>10, <2>11,
       <2>12, <2>13, <2>14 DEF Next, LoopStep
<1>3. QED
  BY <1>1, <1>2, PTL DEF Spec

-----------------------------------------------------------------------------
\* Every step keeps the inductive invariant.
LEMMA InvInductive == Inv /\ TypeOK' /\ [Next]_vars => Inv'
<1> SUFFICES ASSUME Inv, TypeOK', [Next]_vars PROVE Inv'
  OBVIOUS
<1> USE DEF Inv, WakeupInv, NoLostQuit, BatchInv
<1>1. ASSUME NEW t \in Threads, NEW f \in Functors, QueueInLoop(t, f)
      PROVE  Inv'
  BY <1>1 DEF QueueInLoop, WakeupDue, TypeOK
<1>2. ASSUME NEW t \in Threads, Quit(t) PROVE Inv'
  BY <1>2 DEF Quit, WakeupDue, TypeOK
<1>3. ASSUME NEW t \in Threads, Wakeup(t) PROVE Inv'
  BY <1>3 DEF Wakeup, WakeupDue, TypeOK
<1>4. CASE LoopStart
  BY <1>4 DEF LoopStart, WakeupDue
<1>5. CASE LoopCheck
  BY <1>5 DEF LoopCheck, WakeupDue
<1>6. CASE PollReady
  BY <1>6 DEF PollReady, PollReturns
<1>7. CASE HandleRead
  BY <1>7 DEF HandleRead
<1>8. ASSUME NEW c \in IOChannels, HandleEvent(c) PROVE Inv'
  BY <1>8 DEF HandleEvent
<1>9. CASE EventsHandled
  BY <1>9 DEF EventsHandled
<1>10. CASE SwapPendingFunctors
  BY <1>10 DEF SwapPendingFunctors
<1>11. CASE RunFunctor
  BY <1>11 DEF RunFunctor, LoopQueues, WakeupDue, TypeOK
<1>12. CASE FunctorsDone
  BY <1>12 DEF FunctorsDone, WakeupDue
<1>13. CASE PollTimeout
  BY <1>13 DEF PollTimeout, PollReturns
<1>14. CASE UNCHANGED vars
  BY <1>14 DEF vars, WakeupDue
<1>15. QED
  BY <1>1, <1>2, <1>3, <1>4, <1>5, <1>6, <1>7, <1>8, <1>9, <1>10, <1>11,
     <1>12, <1>13, <1>14 DEF Next, LoopStep

\* Inv holds in every reachable state.
LEMMA InvHolds == Spec => []Inv
<1>1. Init => WakeupInv /\ NoLostQuit /\ BatchInv
  BY DEF Init, WakeupInv, NoLostQuit, BatchInv
<1>2. TypeOK /\ WakeupInv /\ NoLostQuit /\ BatchInv <=> Inv
  BY DEF Inv
<1>3. QED
  BY <1>1, <1>2, InvInductive, TypeCorrect, PTL DEF Spec

\* Whatever the interleaving of pushes, wakeups and the loop's own steps, a
\* loop blocked in poll() with functors pending has a wakeup coming.
THEOREM NoLostWakeupHolds == Spec => []NoLostWakeup
<1>1. Inv => NoLostWakeup
  BY DEF Inv, WakeupInv, NoLostWakeup
<1>2. QED
  BY <1>1, InvHolds, PTL

\* Nor can a quit() from another thread leave the loop blocked in poll().
THEOREM NoLostQuitHolds == Spec => []NoLostQuit
<1>1. Inv => NoLostQuit
  BY DEF Inv
<1>2. QED
  BY <1>1, InvHolds, PTL

-----------------------------------------------------------------------------
(* The functors pass through two vectors and still behave as one queue.    *)

\* Pushing on the second of two vectors pushes on their concatenation.
LEMMA PushOnConcat ==
    ASSUME NEW s \in Seq(Functors), NEW t \in Seq(Functors),
           NEW f \in Functors
    PROVE  s \o Append(t, f) = Append(s \o t, f)
  OBVIOUS

\* The head of two vectors is the head of the first, when there is one.
LEMMA HeadOfConcat ==
    ASSUME NEW s \in Seq(Functors), NEW t \in Seq(Functors), s # <<>>
    PROVE  /\ s \o t # <<>>
           /\ Head(s \o t) = Head(s)
           /\ Tail(s \o t) = Tail(s) \o t
<1>1. Len(s) > 0
  BY EmptySeq
<1>2. /\ s \o t \in Seq(Functors)
      /\ Len(s \o t) = Len(s) + Len(t)
      /\ \A i \in 1 .. Len(s) + Len(t) :
            (s \o t)[i] = IF i <= Len(s) THEN s[i] ELSE t[i - Len(s)]
  BY ConcatProperties
<1>3. s \o t # <<>>
  BY <1>1, <1>2
<1>4. Head(s \o t) = Head(s)
  BY <1>1, <1>2
<1>5. Tail(s \o t) = Tail(s) \o t
  <2>1. /\ Tail(s \o t) \in Seq(Functors)
        /\ Len(Tail(s \o t)) = Len(s) + Len(t) - 1
        /\ \A i \in 1 .. Len(s) + Len(t) - 1 : Tail(s \o t)[i] = (s \o t)[i + 1]
    BY <1>2, <1>3, HeadTailProperties
  <2>2. /\ Tail(s) \in Seq(Functors)
        /\ Len(Tail(s)) = Len(s) - 1
        /\ \A i \in 1 .. Len(s) - 1 : Tail(s)[i] = s[i + 1]
    BY HeadTailProperties
  <2>3. /\ Tail(s) \o t \in Seq(Functors)
        /\ Len(Tail(s) \o t) = Len(s) - 1 + Len(t)
        /\ \A i \in 1 .. Len(s) - 1 + Len(t) :
              (Tail(s) \o t)[i] = IF i <= Len(s) - 1 THEN Tail(s)[i]
                                                     ELSE t[i - (Len(s) - 1)]
    BY <2>2, ConcatProperties
  <2>4. ASSUME NEW i \in 1 .. Len(s) + Len(t) - 1
        PROVE  Tail(s \o t)[i] = (Tail(s) \o t)[i]
    BY <1>1, <1>2, <2>1, <2>2, <2>3
  <2>5. QED
    BY <2>1, <2>3, <2>4, SeqEqual
<1>6. QED
  BY <1>3, <1>4, <1>5

\* A functor that neither vector holds is fresh for the abstract queue.
LEMMA FreshIsFresh ==
    ASSUME TypeOK, NEW f \in Functors, Fresh(f)
    PROVE  FQ!Fresh(f)
<1>1. ASSUME f \in Elements(functors \o pendingFunctors) PROVE FALSE
  <2>1. PICK i \in DOMAIN (functors \o pendingFunctors) :
            f = (functors \o pendingFunctors)[i]
    BY <1>1 DEF Elements
  <2>2. /\ functors \in Seq(Functors)
        /\ pendingFunctors \in Seq(Functors)
    BY DEF TypeOK
  <2>3. i \in 1 .. Len(functors) + Len(pendingFunctors)
    BY <2>1, <2>2, ConcatProperties, LenProperties
  <2>4. CASE i <= Len(functors)
    <3>1. f = functors[i] /\ i \in DOMAIN functors
      BY <2>1, <2>2, <2>3, <2>4, ConcatProperties, LenProperties
    <3>2. QED
      BY <3>1 DEF Fresh, Elements
  <2>5. CASE i > Len(functors)
    <3>1. /\ f = pendingFunctors[i - Len(functors)]
          /\ i - Len(functors) \in DOMAIN pendingFunctors
      BY <2>1, <2>2, <2>3, <2>5, ConcatProperties, LenProperties
    <3>2. QED
      BY <3>1 DEF Fresh, Elements
  <2>6. QED
    BY <2>2, <2>3, <2>4, <2>5, LenProperties
<1>2. f \notin Elements(executed)
  BY DEF Fresh
<1>3. QED
  BY <1>1, <1>2 DEF FQ!Fresh, FQ!Elements, Elements

\* A step that leaves the three sequences alone is a stuttering step.
LEMMA QueueUnchanged ==
    UNCHANGED <<functors, pendingFunctors, executed>> => UNCHANGED FQ!vars
  BY DEF FQ!vars

\* Every step of the loop is a step of the abstract queue or a stutter.
LEMMA StepSimulation == Inv /\ [Next]_vars => [FQ!Next]_(FQ!vars)
<1> SUFFICES ASSUME Inv, [Next]_vars PROVE [FQ!Next]_(FQ!vars)
  OBVIOUS
<1>0. /\ TypeOK
      /\ functors \in Seq(Functors)
      /\ pendingFunctors \in Seq(Functors)
      /\ executed \in Seq(Functors)
  BY DEF Inv, TypeOK
<1>11. ASSUME NEW f \in Functors, Fresh(f),
             pendingFunctors' = Append(pendingFunctors, f),
             UNCHANGED <<functors, executed>>
      PROVE  FQ!Submit(f)
  <2>1. functors' \o pendingFunctors' = Append(functors \o pendingFunctors, f)
    BY <1>0, <1>11, PushOnConcat
  <2>2. QED
    BY <1>0, <1>11, <2>1, FreshIsFresh DEF FQ!Submit
<1>1. ASSUME NEW t \in Threads, NEW f \in Functors, QueueInLoop(t, f)
      PROVE  FQ!Next
  BY <1>1, <1>11 DEF QueueInLoop, FQ!Next
<1>2. ASSUME NEW t \in Threads, Quit(t) \/ Wakeup(t) PROVE UNCHANGED FQ!vars
  BY <1>2, QueueUnchanged DEF Quit, Wakeup
<1>3. ASSUME NEW c \in IOChannels, HandleEvent(c) PROVE [FQ!Next]_(FQ!vars)
  <2>1. CASE UNCHANGED <<pendingFunctors, executed>>
    BY <1>3, <2>1, QueueUnchanged DEF HandleEvent
  <2>2. ASSUME NEW f \in Functors, LoopQueues(f), UNCHANGED executed
        PROVE  FQ!Next
    BY <1>3, <2>2, <1>11 DEF HandleEvent, LoopQueues, FQ!Next
  <2>3. ASSUME NEW f \in Functors, Fresh(f), executed' = Append(executed, f),
               UNCHANGED pendingFunctors
        PROVE  FQ!Next
    <3>1. FQ!ExecuteNow(f)
      BY <1>0, <1>3, <2>3, FreshIsFresh DEF HandleEvent, FQ!ExecuteNow
    <3>2. QED
      BY <3>1 DEF FQ!Next
  <2>4. QED
    BY <1>3, <2>1, <2>2, <2>3 DEF HandleEvent
<1>4. CASE SwapPendingFunctors
  <2>1. functors = <<>>
    BY <1>4 DEF Inv, BatchInv, SwapPendingFunctors
  <2>2. functors' \o pendingFunctors' = functors \o pendingFunctors
    BY <1>0, <1>4, <2>1, ConcatEmptySeq DEF SwapPendingFunctors
  <2>3. QED
    BY <1>4, <2>2 DEF SwapPendingFunctors, FQ!vars
<1>5. CASE RunFunctor
  <2>1. /\ functors \o pendingFunctors # <<>>
        /\ Head(functors \o pendingFunctors) = Head(functors)
        /\ Tail(functors \o pendingFunctors) = Tail(functors) \o pendingFunctors
        /\ Tail(functors) \in Seq(Functors)
    BY <1>0, <1>5, HeadOfConcat, HeadTailProperties DEF RunFunctor
  <2>2. CASE UNCHANGED pendingFunctors /\ executed' = Append(executed, Head(functors))
    <3>1. FQ!ExecuteHead
      BY <1>5, <2>1, <2>2 DEF RunFunctor, FQ!ExecuteHead
    <3>2. QED
      BY <3>1 DEF FQ!Next
  <2>3. ASSUME NEW f \in Functors, LoopQueues(f),
               executed' = Append(executed, Head(functors))
        PROVE  FQ!Next
    <3>1. functors' \o pendingFunctors'
            = Append(Tail(functors \o pendingFunctors), f)
      <4>1. /\ functors' = Tail(functors)
            /\ pendingFunctors' = Append(pendingFunctors, f)
        BY <1>5, <2>3 DEF RunFunctor, LoopQueues
      <4>2. Tail(functors) \o Append(pendingFunctors, f)
              = Append(Tail(functors) \o pendingFunctors, f)
        BY <1>0, <2>1, PushOnConcat
      <4>3. QED
        BY <4>1, <4>2, <2>1
    <3>2. FQ!ExecuteHeadAndSubmit(f)
      BY <1>0, <1>5, <2>1, <2>3, <3>1, FreshIsFresh
         DEF RunFunctor, LoopQueues, FQ!ExecuteHeadAndSubmit
    <3>3. QED
      BY <3>2 DEF FQ!Next
  <2>4. ASSUME NEW f \in Functors, Fresh(f), UNCHANGED pendingFunctors,
               executed' = Append(Append(executed, Head(functors)), f)
        PROVE  FQ!Next
    <3>1. FQ!ExecuteHeadAndNow(f)
      BY <1>0, <1>5, <2>1, <2>4, FreshIsFresh DEF RunFunctor, FQ!ExecuteHeadAndNow
    <3>2. QED
      BY <3>1 DEF FQ!Next
  <2>5. QED
    BY <1>5, <2>2, <2>3, <2>4 DEF RunFunctor
<1>6. CASE LoopStep /\ UNCHANGED <<functors, pendingFunctors, executed>>
  BY <1>6, QueueUnchanged
<1>7. ASSUME LoopStep
      PROVE  \/ UNCHANGED <<functors, pendingFunctors, executed>>
             \/ \E c \in IOChannels : HandleEvent(c)
             \/ SwapPendingFunctors \/ RunFunctor
  BY <1>7 DEF LoopStep, LoopStart, LoopCheck, PollReady, PollReturns,
              HandleRead, EventsHandled, FunctorsDone
<1>8. CASE PollTimeout
  BY <1>8, QueueUnchanged DEF PollTimeout, PollReturns
<1>9. CASE UNCHANGED vars
  BY <1>9, QueueUnchanged DEF vars
<1>10. QED
  BY <1>1, <1>2, <1>3, <1>4, <1>5, <1>6, <1>7, <1>8, <1>9 DEF Next

\* The event loop implements the abstract functor queue: functors run in
\* push order, each once, whoever pushes them and whenever.
THEOREM LoopImplementsQueue == Spec => FifoExecution
<1>1. Init => FQ!Init
  BY DEF Init, FQ!Init
<1>2. QED
  BY <1>1, StepSimulation, InvHolds, PTL DEF Spec, FifoExecution, FQ!Spec
=============================================================================
