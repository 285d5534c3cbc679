--------------------------- MODULE SessionDirectory ---------------------------
(***************************************************************************)
(* What RtspServer promises about sessions: at any time a suffix names at  *)
(* most one session; DESCRIBE finds the session its suffix names now, and  *)
(* SETUP and pushFrame the very session they were given, as long as it is  *)
(* registered, never one registered later under the same suffix.           *)
(***************************************************************************)
CONSTANTS Sessions, Suffixes, Conns, NoSession

VARIABLES
    directory,  \* suffix -> session, or NoSession
    described,  \* the session a connection's last successful DESCRIBE found
    found       \* what the handler and the push thread have in hand

Init ==
    /\ directory = [x \in Suffixes |-> NoSession]
    /\ described = [c \in Conns |-> NoSession]
    /\ found = [t \in {"loop", "push"} |-> NoSession]

Registered(s) == \E x \in Suffixes : directory[x] = s

\* A session is registered once; its suffix must be unused.
Register(s, x) ==
    /\ directory[x] = NoSession
    /\ ~Registered(s)
    /\ directory' = [directory EXCEPT ![x] = s]
    /\ UNCHANGED <<described, found>>

Unregister(x) ==
    /\ directory' = [directory EXCEPT ![x] = NoSession]
    /\ UNCHANGED <<described, found>>

Describe(c, x) ==
    /\ directory[x] # NoSession
    /\ found["loop"] = NoSession
    /\ found' = [found EXCEPT !["loop"] = directory[x]]
    /\ described' = [described EXCEPT ![c] = directory[x]]
    /\ UNCHANGED directory

Setup(c) ==
    /\ Registered(described[c])
    /\ found["loop"] = NoSession
    /\ found' = [found EXCEPT !["loop"] = described[c]]
    /\ UNCHANGED <<directory, described>>

PushFrame(s) ==
    /\ Registered(s)
    /\ found["push"] = NoSession
    /\ found' = [found EXCEPT !["push"] = s]
    /\ UNCHANGED <<directory, described>>

Done(t) ==
    /\ found' = [found EXCEPT ![t] = NoSession]
    /\ UNCHANGED <<directory, described>>

Next ==
    \/ \E s \in Sessions, x \in Suffixes : Register(s, x)
    \/ \E x \in Suffixes : Unregister(x)
    \/ \E c \in Conns : Setup(c) \/ \E x \in Suffixes : Describe(c, x)
    \/ \E s \in Sessions : PushFrame(s)
    \/ \E t \in {"loop", "push"} : Done(t)

Spec == Init /\ [][Next]_<<directory, described, found>>
=============================================================================
