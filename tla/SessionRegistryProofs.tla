------------------------- MODULE SessionRegistryProofs -------------------------
(***************************************************************************)
(* The session registry keeps its maps consistent and its sessions alive,  *)
(* and implements SessionDirectory, for all sets of sessions, suffixes and *)
(* connections.                                                            *)
(***************************************************************************)
EXTENDS SessionRegistry, FiniteSetTheorems, TLAPS

Created == {s \in Sessions : life[s] # "none"}

\* An id stands for one session, and there is an id for every session.
IdInv ==
    /\ lastId = Cardinality(Created) + 1
    /\ \A s \in Sessions : life[s] = "none" => id[s] = 0
    /\ \A s \in Sessions : id[s] <= lastId
    /\ \A c \in Conns : sessionId[c] <= lastId
    /\ \A s \in Sessions, t \in Sessions : id[s] = id[t] /\ id[s] # 0 => s = t

\* What the map holds is registered under its own id and owned.
OwnedInv ==
    \A i \in Ids : mediaSessions[i] # NoSession =>
        id[mediaSessions[i]] = i /\ life[mediaSessions[i]] = "owned"

IInv == TypeOK /\ IdInv /\ OwnedInv /\ MapsAgree /\ HeldIsAlive

-----------------------------------------------------------------------------
\* The numbers of sessions and ids.
LEMMA Numbers ==
    ASSUME IInv
    PROVE  /\ Cardinality(Sessions) \in Nat
           /\ IsFiniteSet(Created)
           /\ Cardinality(Created) \in Nat
           /\ Cardinality(Created) <= Cardinality(Sessions)
           /\ lastId \in Nat
           /\ Ids \subseteq Nat /\ 0 \notin Ids
  <1>1. IsFiniteSet(Sessions) /\ Created \in SUBSET Sessions
    BY RegistryAssumption DEF Created
  <1>2. Cardinality(Sessions) \in Nat BY <1>1, FS_CardinalityType
  <1>3. IsFiniteSet(Created) /\ Cardinality(Created) <= Cardinality(Sessions)
    BY <1>1, FS_Subset
  <1>4. Cardinality(Created) \in Nat BY <1>3, FS_CardinalityType
  <1> QED BY <1>2, <1>3, <1>4 DEF IInv, TypeOK, Ids

\* ++_lastMediaSessionId is a new id, and one of Ids.
LEMMA NewIdFits ==
    ASSUME IInv, NEW s \in Sessions, life[s] = "none"
    PROVE  /\ lastId + 1 \in Ids
           /\ \A t \in Sessions : id[t] # lastId + 1
  <1>1. Cardinality(Created) < Cardinality(Sessions)
    <2>1. IsFiniteSet(Sessions) /\ Created \in SUBSET Sessions /\ s \notin Created
      BY RegistryAssumption DEF Created
    <2>2. Cardinality(Created) # Cardinality(Sessions)
      BY <2>1, FS_Subset
    <2> QED BY <2>2, Numbers
  <1>2. lastId = Cardinality(Created) + 1 BY DEF IInv, IdInv
  <1>3. lastId + 1 \in Ids BY <1>1, <1>2, Numbers DEF Ids
  <1>4. \A t \in Sessions : id[t] \in Nat /\ id[t] <= lastId
    BY Numbers DEF IInv, TypeOK, IdInv
  <1> QED BY <1>3, <1>4, Numbers

\* The empty registry.
LEMMA InitInv == Init => IInv
  <1> SUFFICES ASSUME Init PROVE IInv
    OBVIOUS
  <1>1. Cardinality(Sessions) \in Nat
    BY RegistryAssumption, FS_CardinalityType
  <1>2. TypeOK
    BY <1>1, RegistryAssumption DEF Init, TypeOK, Ids, Threads
  <1>3. IdInv
    <2>1. Created = {} BY DEF Init, Created
    <2> QED BY <2>1, FS_EmptySet DEF Init, IdInv
  <1>4. OwnedInv /\ MapsAgree /\ HeldIsAlive
    BY DEF Init, OwnedInv, MapsAgree, HeldIsAlive, Ids, Threads
  <1> QED BY <1>2, <1>3, <1>4 DEF IInv

\* MediaSession::creatNew gives the session an id of its own.
LEMMA CreateStep ==
    ASSUME IInv, NEW s \in Sessions, Create(s)
    PROVE  IInv'
  <1> USE DEF objects, maps
  <1>1. /\ life[s] = "none" /\ life' = [life EXCEPT ![s] = "raw"]
        /\ id' = [id EXCEPT ![s] = lastId + 1] /\ lastId' = lastId + 1
        /\ UNCHANGED <<suffix, suffixMap, mediaSessions, sessionId, held>>
    BY DEF Create, NewId
  <1>2. lastId + 1 \in Ids /\ \A t \in Sessions : id[t] # lastId + 1
    BY <1>1, NewIdFits
  <1>3. TypeOK'
    BY <1>1, <1>2, Numbers DEF IInv, TypeOK, Ids
  <1>4. IdInv'
    <2>1. Created' = Created \cup {s} /\ s \notin Created
      BY <1>1 DEF Created, IInv, TypeOK
    <2>2. Cardinality(Created') = Cardinality(Created) + 1
      BY <2>1, Numbers, FS_AddElement
    <2>3. \A t \in Sessions : id[t] \in Nat /\ id[t] <= lastId
      BY Numbers DEF IInv, TypeOK, IdInv
    <2>4. \A c \in Conns : sessionId[c] \in Nat /\ sessionId[c] <= lastId
      BY Numbers DEF IInv, TypeOK, IdInv
    <2> QED BY <1>1, <1>2, <2>2, <2>3, <2>4, Numbers DEF IInv, TypeOK, IdInv
  <1>5. OwnedInv'
    BY <1>1 DEF IInv, TypeOK, OwnedInv
  <1>6. MapsAgree' /\ HeldIsAlive'
    BY <1>1 DEF IInv, TypeOK, MapsAgree, HeldIsAlive
  <1> QED BY <1>3, <1>4, <1>5, <1>6 DEF IInv

\* Naming a session touches none that is registered.
LEMMA NameStep ==
    ASSUME IInv, NEW s \in Sessions, NEW x \in Suffixes, SetRtspUrlSuffix(s, x)
    PROVE  IInv'
  <1> USE DEF objects, maps
  <1>1. life[s] = "raw" /\ UNCHANGED <<lastId, life, id, suffixMap, mediaSessions,
                                      sessionId, held>>
    BY DEF SetRtspUrlSuffix
  <1>2. /\ suffix' \in [Sessions -> Suffixes]
        /\ \A t \in Sessions \ {s} : suffix'[t] = suffix[t]
    BY DEF SetRtspUrlSuffix, IInv, TypeOK
  <1>3. TypeOK'
    BY <1>1, <1>2 DEF IInv, TypeOK
  <1>4. IdInv' /\ OwnedInv' /\ HeldIsAlive'
    BY <1>1 DEF IInv, IdInv, OwnedInv, HeldIsAlive, Created
  <1>5. \A i \in Ids : mediaSessions[i] # NoSession =>
            mediaSessions[i] \in Sessions \ {s}
    BY <1>1 DEF IInv, TypeOK, OwnedInv
  <1>6. MapsAgree'
    <2>1. \A i \in Ids : mediaSessions[i] # NoSession =>
              suffix'[mediaSessions[i]] = suffix[mediaSessions[i]]
      BY <1>2, <1>5
    <2>2. \A y \in Suffixes : suffixMap[y] # 0 => suffixMap[y] \in Ids
      BY DEF IInv, TypeOK
    <2> QED BY <1>1, <2>1, <2>2 DEF IInv, MapsAgree
  <1> QED BY <1>3, <1>4, <1>6 DEF IInv

\* addMediaSession enters both maps at once.
LEMMA AddStep ==
    ASSUME IInv, NEW s \in Sessions, AddMediaSession(s)
    PROVE  IInv'
  <1> USE DEF objects, maps
  <1>1. /\ life[s] = "raw" /\ suffixMap[suffix[s]] = 0
        /\ life' = [life EXCEPT ![s] = "owned"]
        /\ suffixMap' = [suffixMap EXCEPT ![suffix[s]] = id[s]]
        /\ mediaSessions' = [mediaSessions EXCEPT ![id[s]] = s]
        /\ UNCHANGED <<lastId, id, suffix, sessionId, held>>
    BY DEF AddMediaSession
  <1>2. id[s] \in Ids /\ id[s] # 0 /\ suffix[s] \in Suffixes /\ s # NoSession
    BY <1>1, RegistryAssumption, Numbers DEF IInv, TypeOK
  <1>3. TypeOK'
    BY <1>1, <1>2 DEF IInv, TypeOK
  <1>4. IdInv'
    <2>1. Created' = Created BY <1>1 DEF Created, IInv, TypeOK
    <2> QED BY <1>1, <2>1 DEF IInv, TypeOK, IdInv
  <1>5. OwnedInv'
    BY <1>1, <1>2 DEF IInv, TypeOK, OwnedInv
  <1>6. mediaSessions[id[s]] = NoSession
    \* the session there would have the id of s, hence be s, and owned
    <2> SUFFICES ASSUME mediaSessions[id[s]] # NoSession PROVE FALSE
      OBVIOUS
    <2>1. mediaSessions[id[s]] \in Sessions /\ id[mediaSessions[id[s]]] = id[s]
          /\ life[mediaSessions[id[s]]] = "owned"
      BY <1>2 DEF IInv, TypeOK, OwnedInv
    <2> QED BY <1>1, <1>2, <2>1 DEF IInv, IdInv
  <1>7. MapsAgree'
    <2>1. \A x \in Suffixes : suffixMap'[x] # 0 =>
              /\ mediaSessions'[suffixMap'[x]] # NoSession
              /\ suffix[mediaSessions'[suffixMap'[x]]] = x
      <3> SUFFICES ASSUME NEW x \in Suffixes, suffixMap'[x] # 0
                   PROVE  /\ mediaSessions'[suffixMap'[x]] # NoSession
                          /\ suffix[mediaSessions'[suffixMap'[x]]] = x
        OBVIOUS
      <3>1. CASE x = suffix[s]
        BY <1>1, <1>2, <3>1 DEF IInv, TypeOK
      <3>2. CASE x # suffix[s]
        <4>1. suffixMap'[x] = suffixMap[x] /\ suffixMap[x] \in Ids
          BY <1>1, <3>2, Numbers DEF IInv, TypeOK
        <4>2. suffixMap[x] # id[s]
          BY <1>6, <4>1 DEF IInv, MapsAgree
        <4>3. mediaSessions'[suffixMap[x]] = mediaSessions[suffixMap[x]]
          BY <1>1, <4>1, <4>2 DEF IInv, TypeOK
        <4> QED BY <4>1, <4>3 DEF IInv, MapsAgree
      <3> QED BY <3>1, <3>2
    <2>2. \A i \in Ids : mediaSessions'[i] # NoSession =>
              suffixMap'[suffix[mediaSessions'[i]]] = i
      <3> SUFFICES ASSUME NEW i \in Ids, mediaSessions'[i] # NoSession
                   PROVE  suffixMap'[suffix[mediaSessions'[i]]] = i
        OBVIOUS
      <3>1. CASE i = id[s]
        BY <1>1, <1>2, <3>1 DEF IInv, TypeOK
      <3>2. CASE i # id[s]
        <4>1. mediaSessions'[i] = mediaSessions[i]
          BY <1>1, <3>2 DEF IInv, TypeOK
        <4>2. suffixMap[suffix[mediaSessions[i]]] = i /\ mediaSessions[i] \in Sessions
          BY <4>1 DEF IInv, TypeOK, MapsAgree
        <4>3. suffix[mediaSessions[i]] # suffix[s]
          BY <1>1, <4>2, Numbers
        <4> QED BY <1>1, <4>1, <4>2, <4>3 DEF IInv, TypeOK
      <3> QED BY <3>1, <3>2
    <2> QED BY <1>1, <2>1, <2>2 DEF MapsAgree
  <1>8. HeldIsAlive'
    BY <1>1 DEF IInv, TypeOK, HeldIsAlive
  <1> QED BY <1>3, <1>4, <1>5, <1>7, <1>8 DEF IInv

\* removeMediaSession leaves both maps at once; who holds the session keeps
\* it alive.
LEMMA RemoveStep ==
    ASSUME IInv, NEW i \in Ids, RemoveMediaSession(i)
    PROVE  IInv'
  <1> USE DEF objects, maps
  <1> DEFINE s == mediaSessions[i]
  <1>1. /\ s # NoSession
        /\ suffixMap' = [suffixMap EXCEPT ![suffix[s]] = 0]
        /\ mediaSessions' = [mediaSessions EXCEPT ![i] = NoSession]
        /\ life' = IF Held(s) THEN life ELSE [life EXCEPT ![s] = "freed"]
        /\ UNCHANGED <<lastId, id, suffix, sessionId, held>>
    BY DEF RemoveMediaSession, Erased, Drop
  <1>2. /\ s \in Sessions /\ id[s] = i /\ life[s] = "owned"
        /\ suffix[s] \in Suffixes /\ suffixMap[suffix[s]] = i
    BY <1>1 DEF IInv, TypeOK, OwnedInv, MapsAgree
  <1> HIDE DEF s
  <1>3. TypeOK'
    BY <1>1, <1>2 DEF IInv, TypeOK
  <1>4. IdInv'
    <2>1. Created' = Created BY <1>1, <1>2 DEF Created, IInv, TypeOK
    <2> QED BY <1>1, <1>2, <2>1 DEF IInv, TypeOK, IdInv
  <1>5. OwnedInv'
    <2> SUFFICES ASSUME NEW j \in Ids, mediaSessions'[j] # NoSession
                 PROVE  id[mediaSessions'[j]] = j /\ life'[mediaSessions'[j]] = "owned"
      BY <1>1 DEF OwnedInv
    <2>1. j # i /\ mediaSessions'[j] = mediaSessions[j]
      BY <1>1 DEF IInv, TypeOK
    <2>2. mediaSessions[j] \in Sessions /\ id[mediaSessions[j]] = j
          /\ life[mediaSessions[j]] = "owned"
      BY <2>1 DEF IInv, TypeOK, OwnedInv
    <2> QED BY <1>1, <1>2, <2>1, <2>2 DEF IInv, TypeOK
  <1>6. MapsAgree'
    <2>1. \A x \in Suffixes : suffixMap'[x] # 0 =>
              /\ mediaSessions'[suffixMap'[x]] # NoSession
              /\ suffix[mediaSessions'[suffixMap'[x]]] = x
      <3> SUFFICES ASSUME NEW x \in Suffixes, suffixMap'[x] # 0
                   PROVE  /\ mediaSessions'[suffixMap'[x]] # NoSession
                          /\ suffix[mediaSessions'[suffixMap'[x]]] = x
        OBVIOUS
      <3>1. x # suffix[s] /\ suffixMap'[x] = suffixMap[x] /\ suffixMap[x] \in Ids
        BY <1>1, Numbers DEF IInv, TypeOK
      <3>2. suffix[mediaSessions[suffixMap[x]]] = x /\ mediaSessions[suffixMap[x]] # NoSession
        BY <3>1 DEF IInv, MapsAgree
      <3>3. suffixMap[x] # i
        BY <3>1, <3>2 DEF s
      <3> QED BY <1>1, <3>1, <3>2, <3>3 DEF IInv, TypeOK
    <2>2. \A j \in Ids : mediaSessions'[j] # NoSession =>
              suffixMap'[suffix[mediaSessions'[j]]] = j
      <3> SUFFICES ASSUME NEW j \in Ids, mediaSessions'[j] # NoSession
                   PROVE  suffixMap'[suffix[mediaSessions'[j]]] = j
        OBVIOUS
      <3>1. j # i /\ mediaSessions'[j] = mediaSessions[j]
        BY <1>1 DEF IInv, TypeOK
      <3>2. suffixMap[suffix[mediaSessions[j]]] = j /\ mediaSessions[j] \in Sessions
        BY <3>1 DEF IInv, TypeOK, MapsAgree
      <3>3. suffix[mediaSessions[j]] # suffix[s]
        BY <1>2, <3>1, <3>2
      <3> QED BY <1>1, <3>1, <3>2, <3>3 DEF IInv, TypeOK
    <2> QED BY <1>1, <2>1, <2>2 DEF MapsAgree
  <1>7. HeldIsAlive'
    BY <1>1, <1>2 DEF IInv, TypeOK, HeldIsAlive, Held
  <1> QED BY <1>3, <1>4, <1>5, <1>6, <1>7 DEF IInv

\* What the two lookMediaSession find is a registered session.
LEMMA LookupsFind ==
    ASSUME IInv
    PROVE  /\ \A x \in Suffixes : LookBySuffix(x) # NoSession =>
                 /\ LookBySuffix(x) \in Sessions
                 /\ life[LookBySuffix(x)] = "owned"
                 /\ id[LookBySuffix(x)] = suffixMap[x]
                 /\ id[LookBySuffix(x)] \in Ids
           /\ \A i : LookById(i) # NoSession =>
                 /\ i \in Ids
                 /\ LookById(i) = mediaSessions[i]
                 /\ LookById(i) \in Sessions
                 /\ life[LookById(i)] = "owned"
                 /\ id[LookById(i)] = i
  <1>1. ASSUME NEW x \in Suffixes, LookBySuffix(x) # NoSession
        PROVE  /\ LookBySuffix(x) \in Sessions
               /\ life[LookBySuffix(x)] = "owned"
               /\ id[LookBySuffix(x)] = suffixMap[x]
               /\ id[LookBySuffix(x)] \in Ids
    <2>1. suffixMap[x] \in Ids /\ LookBySuffix(x) = mediaSessions[suffixMap[x]]
      BY <1>1 DEF LookBySuffix, IInv, TypeOK
    <2> QED BY <1>1, <2>1 DEF IInv, TypeOK, OwnedInv
  <1>2. ASSUME NEW i, LookById(i) # NoSession
        PROVE  /\ i \in Ids
               /\ LookById(i) = mediaSessions[i]
               /\ LookById(i) \in Sessions
               /\ life[LookById(i)] = "owned"
               /\ id[LookById(i)] = i
    <2>1. i \in Ids /\ LookById(i) = mediaSessions[i]
      BY <1>2 DEF LookById
    <2> QED BY <1>2, <2>1 DEF IInv, TypeOK, OwnedInv
  <1> QED BY <1>1, <1>2

\* A lookup hands a session to a thread; DESCRIBE also keeps its id.
LEMMA LookupStep ==
    ASSUME IInv,
           \/ \E c \in Conns : Setup(c) \/ \E x \in Suffixes : Describe(c, x)
           \/ \E i \in Ids : PushFrame(i)
    PROVE  IInv'
  <1> USE DEF objects, maps
  <1>1. UNCHANGED <<lastId, life, id, suffix, suffixMap, mediaSessions>>
    BY DEF Setup, Describe, PushFrame
  <1>2. PICK t \in Threads, s \in Sessions :
            life[s] = "owned" /\ held' = [held EXCEPT ![t] = s]
    BY LookupsFind DEF Setup, Describe, PushFrame, Hold, Threads
  <1>11. \/ sessionId' = sessionId
         \/ \E c \in Conns, r \in Sessions :
               /\ life[r] = "owned" /\ id[r] \in Ids
               /\ sessionId' = [sessionId EXCEPT ![c] = id[r]]
    <2>1. CASE \/ \E c \in Conns : Setup(c)
               \/ \E i \in Ids : PushFrame(i)
      BY <2>1 DEF Setup, PushFrame
    <2>2. CASE \E c \in Conns, x \in Suffixes : Describe(c, x)
      <3>1. PICK c \in Conns, x \in Suffixes : Describe(c, x)
        BY <2>2
      <3>2. /\ LookBySuffix(x) # NoSession
            /\ sessionId' = [sessionId EXCEPT ![c] = id[LookBySuffix(x)]]
        BY <3>1, Zenon DEF Describe, Hold
      <3> QED BY <3>2, LookupsFind, Zenon
    <2> QED BY <2>1, <2>2
  <1>3. sessionId' \in [Conns -> Ids \cup {0}]
    BY <1>11 DEF IInv, TypeOK
  <1>6. TypeOK'
    BY <1>1, <1>2, <1>3 DEF IInv, TypeOK
  <1>7. IdInv'
    <2>1. \A c \in Conns : sessionId'[c] <= lastId
      BY <1>11 DEF IInv, TypeOK, IdInv
    <2> QED BY <1>1, <2>1 DEF IInv, IdInv, Created
  <1>10. OwnedInv' /\ MapsAgree'
    BY <1>1 DEF IInv, OwnedInv, MapsAgree
  <1>8. HeldIsAlive'
    BY <1>1, <1>2 DEF IInv, TypeOK, HeldIsAlive
  <1> QED BY <1>6, <1>7, <1>8, <1>10 DEF IInv

\* The last of the shared_ptrs frees the session.
LEMMA DoneStep ==
    ASSUME IInv, NEW t \in Threads, Done(t)
    PROVE  IInv'
  <1> USE DEF objects, maps
  <1> DEFINE s == held[t]
             others == \/ \E u \in Threads \ {t} : held[u] = s
                       \/ \E i \in Ids : mediaSessions[i] = s
  <1>1. /\ s \in Sessions /\ s # NoSession /\ life[s] = "owned"
        /\ held' = [held EXCEPT ![t] = NoSession]
        /\ life' = IF others THEN life ELSE [life EXCEPT ![s] = "freed"]
        /\ UNCHANGED <<lastId, id, suffix, suffixMap, mediaSessions, sessionId>>
    BY DEF Done, Drop, IInv, TypeOK, HeldIsAlive
  <1> HIDE DEF s
  <1>2. TypeOK'
    BY <1>1 DEF IInv, TypeOK
  <1>3. IdInv'
    <2>1. Created' = Created BY <1>1 DEF Created, IInv, TypeOK
    <2> QED BY <1>1, <2>1 DEF IInv, TypeOK, IdInv
  <1>4. OwnedInv'
    BY <1>1 DEF IInv, TypeOK, OwnedInv
  <1>5. MapsAgree'
    BY <1>1 DEF IInv, TypeOK, MapsAgree
  <1>6. HeldIsAlive'
    BY <1>1 DEF IInv, TypeOK, HeldIsAlive
  <1> QED BY <1>2, <1>3, <1>4, <1>5, <1>6 DEF IInv

\* The registry's invariant.
THEOREM RegistryInvariant == Spec => []IInv
  <1>1. IInv /\ [Next]_vars => IInv'
    <2> SUFFICES ASSUME IInv, [Next]_vars PROVE IInv'
      OBVIOUS
    <2>1. CASE UNCHANGED vars
      BY <2>1 DEF vars, objects, maps, IInv, TypeOK, IdInv, OwnedInv,
                  MapsAgree, HeldIsAlive, Created
    <2>2. CASE Next
      BY <2>2, CreateStep, NameStep, AddStep, RemoveStep, LookupStep, DoneStep
         DEF Next
    <2> QED BY <2>1, <2>2
  <1> QED BY <1>1, InitInv, PTL DEF Spec

\* The variables keep their types; in particular an id is never 0.
THEOREM RegistryTypeCorrect == Spec => []TypeOK
  BY RegistryInvariant, PTL DEF IInv

\* _rtspSuffixMap and _mediaSessions never disagree.
THEOREM MapsAlwaysAgree == Spec => []MapsAgree
  BY RegistryInvariant, PTL DEF IInv

\* What a handler or pushFrame holds is never freed under its feet.
THEOREM HeldStaysAlive == Spec => []HeldIsAlive
  BY RegistryInvariant, PTL DEF IInv

-----------------------------------------------------------------------------
(* Refinement.                                                             *)

\* An id that was given stands for its session, 0 for none.
LEMMA SessionOfId ==
    ASSUME IInv
    PROVE  /\ SessionOf(0) = NoSession
           /\ \A s \in Sessions : id[s] # 0 => SessionOf(id[s]) = s
  <1>1. SessionOf(0) = NoSession BY DEF SessionOf
  <1>2. ASSUME NEW s \in Sessions, id[s] # 0 PROVE SessionOf(id[s]) = s
    <2>1. SessionOf(id[s]) = CHOOSE t \in Sessions : id[t] = id[s]
      BY <1>2 DEF SessionOf
    <2>2. \A t \in Sessions : id[t] = id[s] => t = s
      BY <1>2 DEF IInv, IdInv
    <2> QED BY <2>1, <2>2
  <1> QED BY <1>1, <1>2

\* The directory holds what the lookups find.
LEMMA DirLooks ==
    ASSUME IInv
    PROVE  /\ \A x \in Suffixes : Dir[x] = LookBySuffix(x)
           /\ \A i \in Ids : mediaSessions[i] # NoSession =>
                 Dir[suffix[mediaSessions[i]]] = mediaSessions[i]
  <1>1. ASSUME NEW x \in Suffixes PROVE Dir[x] = LookBySuffix(x)
    <2>1. CASE suffixMap[x] = 0
      BY <2>1, SessionOfId DEF Dir, LookBySuffix
    <2>2. CASE suffixMap[x] # 0
      <3>1. /\ suffixMap[x] \in Ids /\ mediaSessions[suffixMap[x]] \in Sessions
            /\ id[mediaSessions[suffixMap[x]]] = suffixMap[x]
        BY <2>2 DEF IInv, TypeOK, MapsAgree, OwnedInv
      <3> QED BY <2>2, <3>1, SessionOfId DEF Dir, LookBySuffix
    <2> QED BY <2>1, <2>2
  <1>2. ASSUME NEW i \in Ids, mediaSessions[i] # NoSession
        PROVE  Dir[suffix[mediaSessions[i]]] = mediaSessions[i]
    <2>1. suffix[mediaSessions[i]] \in Suffixes /\ suffixMap[suffix[mediaSessions[i]]] = i
      BY <1>2 DEF IInv, TypeOK, MapsAgree
    <2> QED BY <1>1, <2>1, Numbers DEF LookBySuffix
  <1> QED BY <1>1, <1>2

\* An id keeps its meaning unless it is given to another session.
LEMMA SameMeaning ==
    ASSUME IInv, NEW i,
           \A t \in Sessions : i # 0 => (id'[t] = i <=> id[t] = i)
    PROVE  SessionOf(i)' = SessionOf(i)
  <1>2. CASE \A t \in Sessions : id[t] # i \/ i = 0
    BY <1>2 DEF SessionOf
  <1>3. CASE \E t \in Sessions : id[t] = i /\ i # 0
    <2>1. PICK t \in Sessions : id[t] = i /\ i # 0 BY <1>3
    <2>2. SessionOf(i) = t BY <2>1, SessionOfId
    <2>3. /\ SessionOf(i)' = CHOOSE u \in Sessions : id'[u] = i
          /\ id'[t] = i
      BY <2>1 DEF SessionOf
    <2>4. \A u \in Sessions : id'[u] = i => u = t
      BY <2>1 DEF IInv, IdInv
    <2> QED BY <2>2, <2>3, <2>4
  <1> QED BY <1>2, <1>3

\* A step that gives no new id and leaves the ids in a map alone leaves what
\* they stand for alone.
LEMMA SameIds ==
    ASSUME IInv, id' = id
    PROVE  /\ \A i : SessionOf(i)' = SessionOf(i)
           /\ suffixMap' = suffixMap => Dir' = Dir
           /\ sessionId' = sessionId => Desc' = Desc
  <1>1. \A i : SessionOf(i)' = SessionOf(i) BY SameMeaning
  <1>2. suffixMap' = suffixMap => Dir' = Dir BY <1>1, Zenon DEF Dir
  <1>3. sessionId' = sessionId => Desc' = Desc BY <1>1, Zenon DEF Desc
  <1> QED BY <1>1, <1>2, <1>3

\* A session that is not registered is not in the directory.
LEMMA NotInDir ==
    ASSUME IInv, NEW s \in Sessions, life[s] # "owned", NEW x \in Suffixes
    PROVE  Dir[x] # s
  BY DirLooks, LookupsFind, RegistryAssumption

\* creatNew: a new id is in no map and in no connection.
LEMMA CreateStutters ==
    ASSUME IInv, NEW s \in Sessions, Create(s)
    PROVE  UNCHANGED <<Dir, Desc, held>>
  <1> USE DEF maps
  <1>1. /\ id' = [id EXCEPT ![s] = lastId + 1] /\ life[s] = "none" /\ id[s] = 0
        /\ UNCHANGED <<suffixMap, sessionId, held>>
    BY DEF Create, NewId, IInv, IdInv
  <1>2. ASSUME NEW i \in Nat, i <= lastId PROVE SessionOf(i)' = SessionOf(i)
    <2>1. \A t \in Sessions : i # 0 => (id'[t] = i <=> id[t] = i)
      BY <1>1, <1>2, Numbers DEF IInv, TypeOK
    <2> QED BY <2>1, SameMeaning
  <1>3. \A x \in Suffixes : suffixMap[x] \in Nat /\ suffixMap[x] <= lastId
    <2> SUFFICES ASSUME NEW x \in Suffixes, suffixMap[x] # 0
                 PROVE  suffixMap[x] \in Nat /\ suffixMap[x] <= lastId
      BY Numbers
    <2>1. suffixMap[x] \in Ids /\ mediaSessions[suffixMap[x]] \in Sessions
          /\ id[mediaSessions[suffixMap[x]]] = suffixMap[x]
      BY DEF IInv, TypeOK, MapsAgree, OwnedInv
    <2> QED BY <2>1, Numbers DEF IInv, IdInv
  <1>4. Dir' = Dir BY <1>1, <1>2, <1>3 DEF Dir
  <1>5. \A c \in Conns : sessionId[c] \in Nat /\ sessionId[c] <= lastId
    BY Numbers DEF IInv, TypeOK, IdInv
  <1>6. Desc' = Desc BY <1>1, <1>2, <1>5 DEF Desc
  <1> QED BY <1>1, <1>4, <1>6

\* addMediaSession is Register.
LEMMA AddRegisters ==
    ASSUME IInv, IInv', NEW s \in Sessions, AddMediaSession(s)
    PROVE  Directory!Register(s, suffix[s])
  <1> USE DEF maps
  <1>1. /\ life[s] = "raw" /\ suffixMap[suffix[s]] = 0 /\ suffix[s] \in Suffixes
        /\ suffixMap' = [suffixMap EXCEPT ![suffix[s]] = id[s]]
        /\ id' = id /\ sessionId' = sessionId /\ held' = held /\ id[s] # 0
    BY DEF AddMediaSession, IInv, TypeOK
  <1>2. Dir[suffix[s]] = NoSession
    BY <1>1, SessionOfId DEF Dir
  <1>3. ~Directory!Registered(s)
    BY <1>1, NotInDir DEF Directory!Registered
  <1>4. Dir' = [Dir EXCEPT ![suffix[s]] = s]
    <2>1. \A x \in Suffixes : SessionOf(suffixMap[x])' = SessionOf(suffixMap'[x])
      BY <1>1, SameIds
    <2>2. \A x \in Suffixes : SessionOf(suffixMap'[x])
             = IF x = suffix[s] THEN s ELSE SessionOf(suffixMap[x])
      BY <1>1, SessionOfId DEF IInv, TypeOK
    <2> QED BY <2>1, <2>2 DEF Dir
  <1>5. Desc' = Desc
    BY <1>1, SameIds
  <1> QED BY <1>1, <1>2, <1>3, <1>4, <1>5 DEF Directory!Register

\* removeMediaSession is Unregister of the suffix.
LEMMA RemoveUnregisters ==
    ASSUME IInv, NEW i \in Ids, RemoveMediaSession(i)
    PROVE  Directory!Unregister(suffix[mediaSessions[i]])
  <1> USE DEF maps
  <1> DEFINE x == suffix[mediaSessions[i]]
  <1>1. /\ suffixMap' = [suffixMap EXCEPT ![x] = 0] /\ x \in Suffixes
        /\ id' = id /\ sessionId' = sessionId /\ held' = held
    BY DEF RemoveMediaSession, Erased, IInv, TypeOK
  <1> HIDE DEF x
  <1>2. Dir' = [Dir EXCEPT ![x] = NoSession]
    <2>1. \A y \in Suffixes : SessionOf(suffixMap[y])' = SessionOf(suffixMap'[y])
      BY <1>1, SameIds
    <2>2. \A y \in Suffixes : SessionOf(suffixMap'[y])
             = IF y = x THEN NoSession ELSE SessionOf(suffixMap[y])
      BY <1>1, SessionOfId DEF IInv, TypeOK
    <2> QED BY <2>1, <2>2 DEF Dir
  <1>3. Desc' = Desc
    BY <1>1, SameIds
  <1> QED BY <1>1, <1>2, <1>3 DEF Directory!Unregister, x

\* handleCmdDescribe finds what its suffix names now.
LEMMA DescribeDescribes ==
    ASSUME IInv, NEW c \in Conns, NEW x \in Suffixes, Describe(c, x)
    PROVE  Directory!Describe(c, x)
  <1> USE DEF maps, objects
  <1> DEFINE s == LookBySuffix(x)
  <1>1. /\ s # NoSession /\ held["loop"] = NoSession
        /\ held' = [held EXCEPT !["loop"] = s]
        /\ sessionId' = [sessionId EXCEPT ![c] = id[s]]
        /\ id' = id /\ suffixMap' = suffixMap
    BY DEF Describe, Hold
  <1>2. s \in Sessions /\ id[s] \in Ids /\ id[s] # 0 /\ Dir[x] = s
    BY <1>1, LookupsFind, DirLooks, Numbers
  <1> HIDE DEF s
  <1>4. Desc' = [Desc EXCEPT ![c] = s]
    <2>1. \A d \in Conns : SessionOf(sessionId[d])' = SessionOf(sessionId'[d])
      BY <1>1, SameIds
    <2>2. \A d \in Conns : SessionOf(sessionId'[d])
             = IF d = c THEN s ELSE SessionOf(sessionId[d])
      BY <1>1, <1>2, SessionOfId DEF IInv, TypeOK
    <2> QED BY <2>1, <2>2 DEF Desc
  <1>5. Dir' = Dir BY <1>1, SameIds
  <1> QED BY <1>1, <1>2, <1>4, <1>5 DEF Directory!Describe

\* A session found by its id is registered.
LEMMA FoundIsRegistered ==
    ASSUME IInv, NEW i, LookById(i) # NoSession
    PROVE  Directory!Registered(LookById(i)) /\ SessionOf(i) = LookById(i)
  <1>1. /\ i \in Ids /\ LookById(i) = mediaSessions[i] /\ LookById(i) \in Sessions
        /\ id[LookById(i)] = i
    BY LookupsFind
  <1>2. Dir[suffix[LookById(i)]] = LookById(i) /\ suffix[LookById(i)] \in Suffixes
    BY <1>1, DirLooks DEF IInv, TypeOK
  <1> QED BY <1>1, <1>2, SessionOfId, Numbers DEF Directory!Registered

\* handleCmdSetup finds the session that was described.
LEMMA SetupSetsUp ==
    ASSUME IInv, NEW c \in Conns, Setup(c)
    PROVE  Directory!Setup(c)
  <1> USE DEF maps, objects
  <1> DEFINE s == LookById(sessionId[c])
  <1>1. /\ s # NoSession /\ held["loop"] = NoSession
        /\ held' = [held EXCEPT !["loop"] = s]
        /\ id' = id /\ suffixMap' = suffixMap /\ sessionId' = sessionId
    BY DEF Setup, Hold
  <1>2. Directory!Registered(s) /\ Desc[c] = s
    BY <1>1, FoundIsRegistered DEF Desc
  <1> HIDE DEF s
  <1>4. Dir' = Dir /\ Desc' = Desc BY <1>1, SameIds
  <1> QED BY <1>1, <1>2, <1>4 DEF Directory!Setup

\* pushFrame finds the session its id was given for.
LEMMA PushPushes ==
    ASSUME IInv, NEW i \in Ids, PushFrame(i)
    PROVE  \E s \in Sessions : Directory!PushFrame(s)
  <1> USE DEF maps, objects
  <1> DEFINE s == LookById(i)
  <1>1. /\ s # NoSession /\ held["push"] = NoSession
        /\ held' = [held EXCEPT !["push"] = s]
        /\ id' = id /\ suffixMap' = suffixMap /\ sessionId' = sessionId
    BY DEF PushFrame, Hold
  <1>2. Directory!Registered(s) /\ s \in Sessions
    BY <1>1, FoundIsRegistered, LookupsFind
  <1> HIDE DEF s
  <1>4. Dir' = Dir /\ Desc' = Desc BY <1>1, SameIds
  <1> QED BY <1>1, <1>2, <1>4 DEF Directory!PushFrame

\* The registry implements the directory: a suffix names one session at a
\* time, and an id names the same session for ever.
THEOREM RegistryImplementsDirectory == Spec => DirectoryImplemented
  <1>1. Init => Directory!Init
    <2> SUFFICES ASSUME Init PROVE Directory!Init
      OBVIOUS
    <2>1. SessionOf(0) = NoSession BY DEF SessionOf
    <2> QED BY <2>1 DEF Init, Directory!Init, Dir, Desc, Threads
  <1>2. IInv /\ IInv' /\ [Next]_vars => [Directory!Next]_<<Dir, Desc, held>>
    <2> SUFFICES ASSUME IInv, IInv', [Next]_vars
                 PROVE  Directory!Next \/ UNCHANGED <<Dir, Desc, held>>
      OBVIOUS
    <2>1. CASE UNCHANGED vars
      BY <2>1, SameIds DEF vars, objects, maps
    <2>2. ASSUME NEW s \in Sessions, Create(s) PROVE UNCHANGED <<Dir, Desc, held>>
      BY <2>2, CreateStutters
    <2>3. ASSUME NEW s \in Sessions, NEW x \in Suffixes, SetRtspUrlSuffix(s, x)
          PROVE  UNCHANGED <<Dir, Desc, held>>
      BY <2>3, SameIds DEF SetRtspUrlSuffix, maps
    <2>4. ASSUME NEW s \in Sessions, AddMediaSession(s) PROVE Directory!Next
      <3>1. suffix[s] \in Suffixes BY DEF IInv, TypeOK
      <3> QED BY <2>4, <3>1, AddRegisters DEF Directory!Next
    <2>5. ASSUME NEW i \in Ids, RemoveMediaSession(i) PROVE Directory!Next
      <3>1. suffix[mediaSessions[i]] \in Suffixes
        BY <2>5 DEF RemoveMediaSession, IInv, TypeOK
      <3> QED BY <2>5, <3>1, RemoveUnregisters DEF Directory!Next
    <2>6. ASSUME NEW c \in Conns, Setup(c) \/ \E x \in Suffixes : Describe(c, x)
          PROVE  Directory!Next
      BY <2>6, SetupSetsUp, DescribeDescribes DEF Directory!Next
    <2>7. ASSUME NEW i \in Ids, PushFrame(i) PROVE Directory!Next
      BY <2>7, PushPushes DEF Directory!Next
    <2>8. ASSUME NEW t \in Threads, Done(t) PROVE Directory!Next
      <3>1. /\ id' = id /\ suffixMap' = suffixMap /\ sessionId' = sessionId
            /\ held' = [held EXCEPT ![t] = NoSession]
        BY <2>8 DEF Done, maps
      <3>2. Dir' = Dir /\ Desc' = Desc BY <3>1, SameIds
      <3> QED BY <3>1, <3>2 DEF Directory!Next, Directory!Done, Threads
    <2> QED BY <2>1, <2>2, <2>3, <2>4, <2>5, <2>6, <2>7, <2>8 DEF Next
  <1> QED BY <1>1, <1>2, RegistryInvariant, PTL
          DEF Spec, DirectoryImplemented, Directory!Spec
=============================================================================
