---------------------------- MODULE FunctorQueue ----------------------------
(***************************************************************************)
(* What muduo's EventLoop promises to those who hand it a functor: the     *)
(* functors queued are executed one at a time, each once, in the order in  *)
(* which they were queued.  A functor handed to runInLoop() by the loop    *)
(* thread itself is executed at once, ahead of what is queued.             *)
(***************************************************************************)
EXTENDS Sequences

CONSTANT Functors

VARIABLES queue,     \* functors accepted and not yet executed
          executed   \* functors executed, oldest first

vars == <<queue, executed>>

\* The range of s, written without SequencesExt so that proofs can use it.
Elements(s) == {s[i] : i \in DOMAIN s}

Fresh(f) == f \notin Elements(queue) \cup Elements(executed)

Init == queue = <<>> /\ executed = <<>>

Submit(f) ==
    /\ Fresh(f)
    /\ queue' = Append(queue, f)
    /\ UNCHANGED executed

ExecuteNow(f) ==
    /\ Fresh(f)
    /\ executed' = Append(executed, f)
    /\ UNCHANGED queue

ExecuteHead ==
    /\ queue # <<>>
    /\ executed' = Append(executed, Head(queue))
    /\ queue' = Tail(queue)

(***************************************************************************)
(* A functor may itself queue another one before it returns, or run it in  *)
(* place.                                                                  *)
(***************************************************************************)
ExecuteHeadAndSubmit(f) ==
    /\ queue # <<>>
    /\ Fresh(f)
    /\ executed' = Append(executed, Head(queue))
    /\ queue' = Append(Tail(queue), f)

ExecuteHeadAndNow(f) ==
    /\ queue # <<>>
    /\ Fresh(f)
    /\ executed' = Append(Append(executed, Head(queue)), f)
    /\ queue' = Tail(queue)

Next ==
    \/ \E f \in Functors : \/ Submit(f) \/ ExecuteNow(f)
                           \/ ExecuteHeadAndSubmit(f) \/ ExecuteHeadAndNow(f)
    \/ ExecuteHead

Spec == Init /\ [][Next]_vars
=============================================================================
