---------------------------- MODULE SessionRegistry ----------------------------
(***************************************************************************)
(* RtspServer's media sessions: two maps under _sessionMutex, one from     *)
(* suffix to id and one from id to a shared_ptr.  The application thread   *)
(* creates, names, registers and removes sessions; the loop thread         *)
(* looks them up for DESCRIBE and SETUP, the push thread for pushFrame,    *)
(* and both use what they found after the mutex is released.               *)
(***************************************************************************)
EXTENDS Naturals, FiniteSets

CONSTANTS
    Sessions,   \* MediaSession objects, each created at most once
    Suffixes,   \* URL suffixes
    Conns,      \* RtspConnections
    NoSession   \* nullptr

ASSUME RegistryAssumption == NoSession \notin Sessions /\ IsFiniteSet(Sessions)

VARIABLES
    lastId,         \* MediaSession::_lastMediaSessionId
    life,           \* of the object: "none", "raw", "owned" by shared_ptrs, "freed"
    id,             \* MediaSession::_sessionId
    suffix,         \* MediaSession::_suffix
    suffixMap,      \* _rtspSuffixMap: suffix -> id, 0 for no entry
    mediaSessions,  \* _mediaSessions: id -> session, NoSession for no entry
    sessionId,      \* RtspConnection::_sessionId, 0 at first
    held            \* the local shared_ptr of the loop's handler and of pushFrame

objects == <<life, id, suffix>>
maps == <<suffixMap, mediaSessions>>
vars == <<lastId, objects, maps, sessionId, held>>

\* _lastMediaSessionId starts at 1; 0 stands for failure.
Ids == 2 .. Cardinality(Sessions) + 1
Threads == {"loop", "push"}

Init ==
    /\ lastId = 1
    /\ life = [s \in Sessions |-> "none"]
    /\ id = [s \in Sessions |-> 0]
    /\ suffix \in [Sessions -> Suffixes]
    /\ suffixMap = [x \in Suffixes |-> 0]
    /\ mediaSessions = [i \in Ids |-> NoSession]
    /\ sessionId = [c \in Conns |-> 0]
    /\ held = [t \in Threads |-> NoSession]

-----------------------------------------------------------------------------
(* The application thread.                                                 *)

\* ++_lastMediaSessionId
MutNewIdReused == Cardinality({s \in Sessions : life[s] \in {"raw", "owned"}}) + 2
MutNewIdOld == lastId

NewId == lastId + 1

\* MediaSession::creatNew
Create(s) ==
    /\ life[s] = "none"
    /\ life' = [life EXCEPT ![s] = "raw"]
    /\ id' = [id EXCEPT ![s] = NewId]
    /\ lastId' = NewId
    /\ UNCHANGED <<suffix, maps, sessionId, held>>

\* main() names a session before it registers it.
SetRtspUrlSuffix(s, x) ==
    /\ life[s] = "raw"
    /\ suffix' = [suffix EXCEPT ![s] = x]
    /\ UNCHANGED <<lastId, life, id, maps, sessionId, held>>

\* addMediaSession: refused while the suffix is in use; the object is the
\* server's from then on.
AddMediaSession(s) ==
    /\ life[s] = "raw"
    /\ suffixMap[suffix[s]] = 0
    /\ life' = [life EXCEPT ![s] = "owned"]
    /\ suffixMap' = [suffixMap EXCEPT ![suffix[s]] = id[s]]
    /\ mediaSessions' = [mediaSessions EXCEPT ![id[s]] = s]
    /\ UNCHANGED <<lastId, id, suffix, sessionId, held>>

\* A shared_ptr of s goes away: without others the object dies.
Held(s) == \E t \in Threads : held[t] = s
MutDropFrees(s, others) == life' = [life EXCEPT ![s] = "freed"]
MutDropLeaks(s, others) == UNCHANGED life

Drop(s, others) ==
    life' = IF others THEN life ELSE [life EXCEPT ![s] = "freed"]

\* removeMediaSession
MutErasedKeepsSuffix(s) == suffixMap

Erased(s) == [suffixMap EXCEPT ![suffix[s]] = 0]

RemoveMediaSession(i) ==
    LET s == mediaSessions[i] IN
    /\ s # NoSession
    /\ suffixMap' = Erased(s)
    /\ mediaSessions' = [mediaSessions EXCEPT ![i] = NoSession]
    /\ Drop(s, Held(s))
    /\ UNCHANGED <<lastId, id, suffix, sessionId, held>>

-----------------------------------------------------------------------------
(* The loop thread and the push thread.                                    *)

\* The two lookMediaSession.
LookBySuffix(x) == IF suffixMap[x] = 0 THEN NoSession
                                       ELSE mediaSessions[suffixMap[x]]
LookById(i) == IF i \in Ids THEN mediaSessions[i] ELSE NoSession

\* A thread keeps what it found in a local shared_ptr.
Hold(t, s) ==
    /\ s # NoSession
    /\ held[t] = NoSession
    /\ held' = [held EXCEPT ![t] = s]

\* handleCmdDescribe: the session, and the id the connection keeps.
Describe(c, x) ==
    LET s == LookBySuffix(x) IN
    /\ Hold("loop", s)
    /\ sessionId' = [sessionId EXCEPT ![c] = id[s]]
    /\ UNCHANGED <<lastId, objects, maps>>

\* handleCmdSetup: the session of the id DESCRIBE left.
Setup(c) ==
    /\ Hold("loop", LookById(sessionId[c]))
    /\ UNCHANGED <<lastId, objects, maps, sessionId>>

\* pushFrame of the id addMediaSession returned.
PushFrame(i) ==
    /\ Hold("push", LookById(i))
    /\ UNCHANGED <<lastId, objects, maps, sessionId>>

\* The handler, or handleFrame with the source's callback, ends: the local
\* shared_ptr is destroyed.
Done(t) ==
    /\ held[t] # NoSession
    /\ held' = [held EXCEPT ![t] = NoSession]
    /\ Drop(held[t], \/ \E u \in Threads \ {t} : held[u] = held[t]
                     \/ \E i \in Ids : mediaSessions[i] = held[t])
    /\ UNCHANGED <<lastId, id, suffix, maps, sessionId>>

Next ==
    \/ \E s \in Sessions : \/ Create(s)
                           \/ \E x \in Suffixes : SetRtspUrlSuffix(s, x)
                           \/ AddMediaSession(s)
    \/ \E i \in Ids : RemoveMediaSession(i) \/ PushFrame(i)
    \/ \E c \in Conns : Setup(c) \/ \E x \in Suffixes : Describe(c, x)
    \/ \E t \in Threads : Done(t)

\* Handlers and pushFrame return.
Fairness == \A t \in Threads : WF_vars(Done(t))

Spec == Init /\ [][Next]_vars /\ Fairness

-----------------------------------------------------------------------------
(* Properties.                                                             *)

\* The types of the variables.
TypeOK ==
    /\ lastId \in 1 .. Cardinality(Sessions) + 1
    /\ life \in [Sessions -> {"none", "raw", "owned", "freed"}]
    /\ id \in [Sessions -> Ids \cup {0}]
    /\ \A s \in Sessions : life[s] # "none" => id[s] # 0
    /\ suffix \in [Sessions -> Suffixes]
    /\ suffixMap \in [Suffixes -> Ids \cup {0}]
    /\ mediaSessions \in [Ids -> Sessions \cup {NoSession}]
    /\ sessionId \in [Conns -> Ids \cup {0}]
    /\ held \in [Threads -> Sessions \cup {NoSession}]

\* The two maps agree: an id found by suffix has a session with that suffix,
\* so that _mediaSessions[id] never makes a null entry, and every session can
\* be found by its suffix.
MapsAgree ==
    /\ \A x \in Suffixes : suffixMap[x] # 0 =>
          /\ mediaSessions[suffixMap[x]] # NoSession
          /\ suffix[mediaSessions[suffixMap[x]]] = x
    /\ \A i \in Ids : mediaSessions[i] # NoSession =>
          suffixMap[suffix[mediaSessions[i]]] = i

\* Whatever a handler or pushFrame holds outlives its removal: the source's
\* callback uses the session through a raw `this'.
HeldIsAlive ==
    \A t \in Threads : held[t] # NoSession => life[held[t]] = "owned"

\* A removed session is destroyed, by whichever thread drops it last.
RemovedIsFreed ==
    \A s \in Sessions :
        (life[s] = "owned" /\ \A i \in Ids : mediaSessions[i] # s)
            ~> life[s] = "freed"

\* The maps with their ids implement the directory: an id stands for one
\* session for ever.
SessionOf(i) ==
    IF \E s \in Sessions : id[s] = i /\ i # 0
    THEN CHOOSE s \in Sessions : id[s] = i
    ELSE NoSession
Dir == [x \in Suffixes |-> SessionOf(suffixMap[x])]
Desc == [c \in Conns |-> SessionOf(sessionId[c])]
Directory == INSTANCE SessionDirectory WITH
    directory <- Dir, described <- Desc, found <- held

\* Lookups by suffix and by id behave as SessionDirectory says.
DirectoryImplemented == Directory!Spec
=============================================================================
