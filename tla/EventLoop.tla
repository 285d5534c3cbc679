------------------------------ MODULE EventLoop ------------------------------
(***************************************************************************)
(* muduo's EventLoop: the loop thread polls, handles the active channels   *)
(* and runs the functors that other threads (and it itself) have queued.   *)
(* The eventfd `wakeupFd_' ends a poll; only whether it is readable can be *)
(* told apart, because one read() resets its counter.                      *)
(***************************************************************************)
EXTENDS Naturals, Sequences

CONSTANTS Threads,      \* threads other than the loop thread
          IOChannels,   \* channels other than wakeupChannel_
          Functors,     \* each is queued at most once, which bounds a behaviour
          WakeupChannel \* the channel of wakeupFd_

ASSUME ChannelAssumption == WakeupChannel \notin IOChannels

VARIABLES
    pc,                      \* where the loop thread is in loop()
    quit,                    \* quit_
    pendingFunctors,         \* pendingFunctors_, guarded by mutex_
    functors,                \* the local vector of doPendingFunctors()
    callingPendingFunctors,  \* callingPendingFunctors_
    wakeupFd,                \* wakeupFd_: 1 when it is readable
    activeChannels,          \* channels returned by poll and not yet handled
    caller,                  \* caller[t]: thread t is about to call wakeup()
    executed                 \* history: the functors run, oldest first

vars == <<pc, quit, pendingFunctors, functors, callingPendingFunctors,
          wakeupFd, activeChannels, caller, executed>>

Elements(s) == {s[i] : i \in DOMAIN s}

Fresh(f) == f \notin Elements(executed) \cup Elements(functors)
                       \cup Elements(pendingFunctors)

Init ==
    /\ pc = "created"
    /\ quit = FALSE
    /\ pendingFunctors = <<>>
    /\ functors = <<>>
    /\ callingPendingFunctors = FALSE
    /\ wakeupFd = 0
    /\ activeChannels = {}
    /\ caller = [t \in Threads |-> "idle"]
    /\ executed = <<>>

-----------------------------------------------------------------------------
(* Calls made by the other threads.                                        *)

\* The push under mutex_; isInLoopThread() is false, so wakeup() follows.
MutQueueInLoopNoWakeup(t, f) ==
    /\ caller[t] = "idle"
    /\ Fresh(f)
    /\ pendingFunctors' = Append(pendingFunctors, f)
    /\ UNCHANGED <<pc, quit, functors, callingPendingFunctors, wakeupFd,
                   activeChannels, caller, executed>>

QueueInLoop(t, f) ==
    /\ caller[t] = "idle"
    /\ Fresh(f)
    /\ pendingFunctors' = Append(pendingFunctors, f)
    /\ caller' = [caller EXCEPT ![t] = "wakeup"]
    /\ UNCHANGED <<pc, quit, functors, callingPendingFunctors, wakeupFd,
                   activeChannels, executed>>

MutQuitNoWakeup(t) ==
    /\ caller[t] = "idle"
    /\ quit' = TRUE
    /\ UNCHANGED <<pc, pendingFunctors, functors, callingPendingFunctors,
                   wakeupFd, activeChannels, caller, executed>>

Quit(t) ==
    /\ caller[t] = "idle"
    /\ quit' = TRUE
    /\ caller' = [caller EXCEPT ![t] = "wakeup"]
    /\ UNCHANGED <<pc, pendingFunctors, functors, callingPendingFunctors,
                   wakeupFd, activeChannels, executed>>

Wakeup(t) ==
    /\ caller[t] = "wakeup"
    /\ wakeupFd' = 1
    /\ caller' = [caller EXCEPT ![t] = "idle"]
    /\ UNCHANGED <<pc, quit, pendingFunctors, functors,
                   callingPendingFunctors, activeChannels, executed>>

-----------------------------------------------------------------------------
(* The loop thread.                                                        *)

\* queueInLoop() called by the loop thread: it wakes itself up only when it
\* is running functors, because the vector it drains has been swapped out.
MutLoopQueuesNoWakeup(f) ==
    /\ Fresh(f)
    /\ pendingFunctors' = Append(pendingFunctors, f)
    /\ UNCHANGED wakeupFd

LoopQueues(f) ==
    /\ Fresh(f)
    /\ pendingFunctors' = Append(pendingFunctors, f)
    /\ wakeupFd' = IF callingPendingFunctors THEN 1 ELSE wakeupFd

\* loop() clears quit_: a quit() that came before it is forgotten.
LoopStart ==
    /\ pc = "created"
    /\ pc' = "check"
    /\ quit' = FALSE
    /\ UNCHANGED <<pendingFunctors, functors, callingPendingFunctors,
                   wakeupFd, activeChannels, caller, executed>>

LoopCheck ==
    /\ pc = "check"
    /\ pc' = IF quit THEN "stopped" ELSE "poll"
    /\ UNCHANGED <<quit, pendingFunctors, functors, callingPendingFunctors,
                   wakeupFd, activeChannels, caller, executed>>

PollReturns(channels) ==
    /\ pc = "poll"
    /\ activeChannels' = channels
    /\ pc' = "events"
    /\ UNCHANGED <<quit, pendingFunctors, functors, callingPendingFunctors,
                   wakeupFd, caller, executed>>

\* The readable descriptors: wakeupFd_ when it is, and some of the others.
PollReady ==
    \E ready \in SUBSET IOChannels :
        LET channels == ready \cup (IF wakeupFd = 1 THEN {WakeupChannel} ELSE {})
        IN  channels # {} /\ PollReturns(channels)

\* kPollTimeMs has passed.
PollTimeout == wakeupFd = 0 /\ PollReturns({})

\* EventLoop::handleRead
HandleRead ==
    /\ pc = "events"
    /\ WakeupChannel \in activeChannels
    /\ activeChannels' = activeChannels \ {WakeupChannel}
    /\ wakeupFd' = 0
    /\ UNCHANGED <<pc, quit, pendingFunctors, functors,
                   callingPendingFunctors, caller, executed>>

\* Any other channel's callback.  It may use this loop: not at all, through
\* queueInLoop, runInLoop (runs the functor in place) or quit.
HandleEvent(c) ==
    /\ pc = "events"
    /\ c \in activeChannels \ {WakeupChannel}
    /\ activeChannels' = activeChannels \ {c}
    /\ \/ UNCHANGED <<quit, pendingFunctors, wakeupFd, executed>>
       \/ \E f \in Functors : LoopQueues(f) /\ UNCHANGED <<quit, executed>>
       \/ \E f \in Functors :
             /\ Fresh(f)
             /\ executed' = Append(executed, f)
             /\ UNCHANGED <<quit, pendingFunctors, wakeupFd>>
       \/ quit' = TRUE /\ UNCHANGED <<pendingFunctors, wakeupFd, executed>>
    /\ UNCHANGED <<pc, functors, callingPendingFunctors, caller>>

\* Every active channel is handled; doPendingFunctors() starts.
EventsHandled ==
    /\ pc = "events"
    /\ activeChannels = {}
    /\ callingPendingFunctors' = TRUE
    /\ pc' = "swap"
    /\ UNCHANGED <<quit, pendingFunctors, functors, wakeupFd,
                   activeChannels, caller, executed>>

MutSwapCopies ==
    /\ pc = "swap"
    /\ functors' = pendingFunctors
    /\ pc' = "run"
    /\ UNCHANGED <<quit, pendingFunctors, callingPendingFunctors, wakeupFd,
                   activeChannels, caller, executed>>

SwapPendingFunctors ==
    /\ pc = "swap"
    /\ functors' = pendingFunctors
    /\ pendingFunctors' = <<>>
    /\ pc' = "run"
    /\ UNCHANGED <<quit, callingPendingFunctors, wakeupFd, activeChannels,
                   caller, executed>>

\* The functor may use the loop in the ways an event's callback may.
RunFunctor ==
    LET ran == Append(executed, Head(functors)) IN
    /\ pc = "run"
    /\ functors # <<>>
    /\ functors' = Tail(functors)
    /\ \/ executed' = ran /\ UNCHANGED <<quit, pendingFunctors, wakeupFd>>
       \/ \E f \in Functors : LoopQueues(f) /\ executed' = ran /\ UNCHANGED quit
       \/ \E f \in Functors :
             /\ Fresh(f)
             /\ executed' = Append(ran, f)
             /\ UNCHANGED <<quit, pendingFunctors, wakeupFd>>
       \/ /\ quit' = TRUE /\ executed' = ran
          /\ UNCHANGED <<pendingFunctors, wakeupFd>>
    /\ UNCHANGED <<pc, callingPendingFunctors, activeChannels, caller>>

\* the flag of doPendingFunctors is left set
MutFunctorsDoneKeepsFlag ==
    /\ pc = "run"
    /\ functors = <<>>
    /\ pc' = "check"
    /\ UNCHANGED <<quit, pendingFunctors, functors, callingPendingFunctors,
                   wakeupFd, activeChannels, caller, executed>>

FunctorsDone ==
    /\ pc = "run"
    /\ functors = <<>>
    /\ callingPendingFunctors' = FALSE
    /\ pc' = "check"
    /\ UNCHANGED <<quit, pendingFunctors, functors, wakeupFd,
                   activeChannels, caller, executed>>

LoopStep ==
    \/ LoopStart \/ LoopCheck \/ PollReady \/ HandleRead
    \/ \E c \in IOChannels : HandleEvent(c)
    \/ EventsHandled \/ SwapPendingFunctors \/ RunFunctor \/ FunctorsDone

Next ==
    \/ \E t \in Threads : \/ \E f \in Functors : QueueInLoop(t, f)
                          \/ Quit(t)
                          \/ Wakeup(t)
    \/ LoopStep
    \/ PollTimeout

\* The loop thread keeps running and a thread that has pushed a functor gets
\* to its wakeup().  A poll must end when the eventfd is readable; neither its
\* timeout nor any other I/O is assumed to end it, so that no property rests
\* on the ten seconds or on a busy client.
Fairness ==
    /\ WF_vars(LoopStep /\ (pc = "poll" => wakeupFd = 1))
    /\ \A t \in Threads : WF_vars(Wakeup(t))

Spec == Init /\ [][Next]_vars /\ Fairness

-----------------------------------------------------------------------------
(* Properties.                                                             *)

\* The type of every variable of the loop; `callingPendingFunctors' is true
\* exactly from the start of doPendingFunctors() to its end.
TypeOK ==
    /\ pc \in {"created", "check", "poll", "events", "swap", "run", "stopped"}
    /\ quit \in BOOLEAN
    /\ pendingFunctors \in Seq(Functors)
    /\ functors \in Seq(Functors)
    /\ callingPendingFunctors = IF pc \in {"swap", "run"} THEN TRUE ELSE FALSE
    /\ wakeupFd \in {0, 1}
    /\ activeChannels \subseteq IOChannels \cup {WakeupChannel}
    /\ caller \in [Threads -> {"idle", "wakeup"}]
    /\ executed \in Seq(Functors)

WakeupDue == wakeupFd = 1 \/ \E t \in Threads : caller[t] = "wakeup"

\* A loop thread blocked in poll() is never left with a functor queued:
\* the eventfd is readable, or the thread that queued it has yet to write to
\* it (queueInLoop's push and wakeup are two steps, and a functor that queues
\* another one does so while `functors' is already swapped out).
NoLostWakeup ==
    (pc = "poll" /\ pendingFunctors # <<>>) => WakeupDue

\* quit() from another thread ends a poll in the same way.
NoLostQuit ==
    (pc = "poll" /\ quit) => WakeupDue

\* The loop executes the functors as the abstract queue does: in the order
\* of the pushes, once each, although they pass through two vectors.
FQ == INSTANCE FunctorQueue WITH queue <- functors \o pendingFunctors,
                                 executed <- executed

FifoExecution == FQ!Spec

\* A functor queued while the loop runs is executed, without waiting for the
\* poll timeout, unless the loop is told to quit.
QueuedIsExecuted ==
    \A f \in Functors :
        f \in Elements(pendingFunctors) ~> (f \in Elements(executed) \/ quit)

\* A quit() made after loop() was entered stops the loop.
QuitStops == (quit /\ pc # "created") ~> (pc = "stopped")
=============================================================================
