-------------------------- MODULE MediaDeliveryProofs --------------------------
(***************************************************************************)
(* What MediaDelivery guarantees for any number of connections, channels,  *)
(* descriptors and packets.                                                *)
(***************************************************************************)
EXTENDS MediaDelivery, FiniteSetTheorems, SequenceTheorems, WellFoundedInduction, TLAPS

\* An abbreviation in the lists of what an action leaves unchanged.
USE DEF history

-----------------------------------------------------------------------------
(* Descriptors.                                                            *)

\* A set of natural numbers has a least element.
LEMMA LeastNumber ==
    ASSUME NEW S \in SUBSET Nat, S # {}
    PROVE  \E n \in S : \A m \in S : n <= m
  <1>1. PICK n \in S : \A m \in S : ~(<<m, n>> \in OpToRel(<, Nat))
    BY NatLessThanWellFounded, WFMin
  <1>2. \A m \in S : ~(m < n)
    BY <1>1 DEF OpToRel
  <1> QED BY <1>2

\* accept() and socket() return a free descriptor, if there is one.
LEMMA LowestFreeIsFree ==
    ASSUME NEW table, DOMAIN table \subseteq Fds, FreeFds(table) # {}
    PROVE  LowestFree(table) \in Fds /\ table[LowestFree(table)] = Free
           /\ LowestFree(table) \in DOMAIN table
  <1>1. FreeFds(table) \in SUBSET Nat
    BY DEF FreeFds, Fds
  <1>2. \E n \in FreeFds(table) : \A m \in FreeFds(table) : n <= m
    BY <1>1, LeastNumber
  <1>3. LowestFree(table) \in FreeFds(table)
    BY <1>2 DEF LowestFree
  <1> QED BY <1>3 DEF FreeFds

\* The push thread takes a client that is still to be visited.
LEMMA HighestIsMember ==
    ASSUME NEW S \in SUBSET Fds, S # {}
    PROVE  Highest(S) \in S
  <1>1. MaxFd \in Nat /\ \A n \in S : n \in Nat /\ n <= MaxFd
    BY DeliveryAssumption DEF Fds
  <1> DEFINE D == {MaxFd - n : n \in S}
  <1>2. D \in SUBSET Nat /\ D # {}
    BY <1>1
  <1>3. PICK d \in D : \A e \in D : d <= e
    BY <1>2, LeastNumber
  <1>4. PICK n \in S : d = MaxFd - n
    BY <1>3
  <1>5. \A m \in S : m <= n
    <2> SUFFICES ASSUME NEW m \in S PROVE m <= n
      OBVIOUS
    <2>1. MaxFd - m \in D OBVIOUS
    <2> QED BY <1>1, <1>3, <1>4, <2>1
  <1> QED BY <1>5 DEF Highest

\* The two sockets of a UDP SETUP are different and were free.
LEMMA TwoSockets ==
    ASSUME owner \in [Fds -> Owners], NEW c,
           Cardinality(FreeFds(owner)) >= 2
    PROVE  LET n == LowestFree(owner)
               m == LowestFree([owner EXCEPT ![n] = Udp(c)])
           IN  /\ n \in Fds /\ owner[n] = Free
               /\ m \in Fds /\ owner[m] = Free
               /\ m # n
  <1> DEFINE n == LowestFree(owner)
             table == [owner EXCEPT ![n] = Udp(c)]
             m == LowestFree(table)
  <1>1. FreeFds(owner) \subseteq Fds /\ IsFiniteSet(FreeFds(owner))
    <2>1. FreeFds(owner) \subseteq Fds BY DEF FreeFds
    <2>2. IsFiniteSet(Fds) BY DeliveryAssumption, FS_Interval DEF Fds
    <2> QED BY <2>1, <2>2, FS_Subset
  <1>2. FreeFds(owner) # {}
    BY FS_EmptySet
  <1>3. n \in Fds /\ owner[n] = Free
    BY <1>2, LowestFreeIsFree
  <1>4. Udp(c) # Free
    BY DEF Udp, Free
  <1>5. FreeFds(table) = FreeFds(owner) \ {n}
    BY <1>3, <1>4 DEF FreeFds
  <1>6. FreeFds(table) # {}
    <2>1. Cardinality(FreeFds(owner) \ {n}) = Cardinality(FreeFds(owner)) - 1
      BY <1>1, <1>3, FS_RemoveElement DEF FreeFds
    <2>2. Cardinality(FreeFds(owner)) \in Nat
      BY <1>1, FS_CardinalityType
    <2>3. Cardinality(FreeFds(owner)) - 1 # 0
      BY <2>2
    <2> QED BY <1>5, <2>1, <2>3, FS_EmptySet
  <1>7. DOMAIN table = Fds OBVIOUS
  <1>8. m \in Fds /\ table[m] = Free
    BY <1>6, <1>7, LowestFreeIsFree
  <1>9. m # n /\ owner[m] = Free
    BY <1>3, <1>4, <1>8
  <1> QED BY <1>3, <1>8, <1>9

-----------------------------------------------------------------------------
(* Types.                                                                  *)

\* The push thread's list exists while its clients are visited, and the
\* packet in hand is the next one.
PushInv ==
    /\ push.pc \in {"idle", "collect"} => DOMAIN push.list = {}
    /\ push.pc = "queue" => push.todo # {}
    /\ push.pc # "idle" => /\ push.left > 0
                           /\ push.pkt \in Packets
                           /\ push.pkt.id = push.count + 1

\* A connection that was accepted has a descriptor, under which the clients
\* and the push thread's list know it.
FdInv ==
    /\ \A c \in Conns : tcp[c] # "none" => fd[c] \in Fds
    /\ \A i \in 1 .. Len(pending) : tcp[pending[i].conn] # "none"
    /\ \A n \in DOMAIN clients : fd[clients[n]] = n /\ tcp[clients[n]] # "none"
    /\ \A n \in DOMAIN push.list : fd[push.list[n]] = n /\ tcp[push.list[n]] # "none"

TypeInv == TypeOK /\ PushInv /\ FdInv

\* An empty list of clients.
LEMMA NoClientsIsMap == IsClientMap(NoClients) /\ DOMAIN NoClients = {}
  BY DEF IsClientMap, NoClients

\* The initial state.
LEMMA InitType == Init => TypeInv
  <1> SUFFICES ASSUME Init PROVE TypeInv
    OBVIOUS
  <1>1. NoRtp \in RtpConnections
    <2>1. StartSeq \in 0 .. SeqMod - 1 /\ 0 \in 0 .. MaxFd
      BY DeliveryAssumption
    <2> QED BY <2>1 DEF NoRtp, RtpConnections
  <1>2. rtp \in [Conns -> RtpConnections]
        /\ \A c \in Conns : rtp[c].isPlay \subseteq rtp[c].isSetup
    BY <1>1 DEF Init, NoRtp
  <1>3. /\ tcp \in [Conns -> {"none", "connected", "disconnecting", "disconnected",
                              "removed", "orphan", "destroyed"}]
        /\ fd \in [Conns -> 0 .. MaxFd] /\ timers \in [Conns -> 0 .. MaxTeardowns]
        /\ owner \in [Fds -> Owners]
        /\ rtspConnMap \subseteq Conns /\ described \subseteq Conns
        /\ pending \in Seq(Functors) /\ running \in 0 .. Len(pending) + 1
        /\ crashed = "no"
        /\ sent \in [Conns -> Seq(SentPackets)]
        /\ torn \in [Conns -> Nat] /\ replayed \subseteq Conns
    BY DeliveryAssumption DEF Init, Owners
  <1>4. IsClientMap(clients)
    BY NoClientsIsMap DEF Init
  <1>5. PushInv
    BY NoClientsIsMap DEF Init, PushInv, IdlePush
  <1>6. /\ push = [pc |-> push.pc, list |-> push.list, todo |-> push.todo,
                   left |-> push.left, pkt |-> push.pkt, count |-> push.count]
        /\ push.pc = "idle" /\ IsClientMap(push.list) /\ push.todo = {}
        /\ push.left \in Nat /\ push.count \in Nat /\ push.pkt = None
    BY NoClientsIsMap DEF Init, IdlePush
  <1>7. FdInv
    BY NoClientsIsMap DEF Init, FdInv, IdlePush
  <1> QED BY <1>2, <1>3, <1>4, <1>5, <1>6, <1>7
          DEF TypeInv, TypeOK, OtherTypes, RtpTypes, PushTypes

\* A step that leaves the push thread or the RtpConnections alone.
LEMMA SameTypes ==
    ASSUME TypeInv
    PROVE  /\ rtp' = rtp => RtpTypes'
           /\ push' = push => PushTypes' /\ PushInv'
  BY DEF TypeInv, TypeOK, RtpTypes, PushTypes, PushInv

\* Two records of an RtpConnection that differ in the state at most.
SameButState(q, r) ==
    /\ q.isSetup = r.isSetup /\ q.isPlay = r.isPlay /\ q.mode = r.mode
    /\ q.isClosed = r.isClosed /\ q.hasIDR = r.hasIDR /\ q.packetSeq = r.packetSeq
    /\ q.rtpfd = r.rtpfd /\ q.rtcpfd = r.rtcpfd

\* Closing descriptors, and freeing RtpConnections.
LEMMA CloseTypes ==
    ASSUME TypeInv, NEW S
    PROVE  /\ Close(owner, S) \in [Fds -> Owners]
           /\ \A n \in Fds : Close(owner, S)[n] = IF n \in S THEN Free ELSE owner[n]
           /\ Freed(S) \in [Conns -> RtpConnections]
           /\ \A c \in Conns : Freed(S)[c].isPlay \subseteq Freed(S)[c].isSetup
           /\ \A c \in Conns : c \notin S => Freed(S)[c] = rtp[c]
           /\ \A c \in Conns : c \in S => Freed(S)[c] = [rtp[c] EXCEPT !.state = "freed"]
           /\ \A c \in Conns : SameButState(Freed(S)[c], rtp[c])
           /\ \A c \in Conns :
                 Freed(S)[c].state = IF c \in S THEN "freed" ELSE rtp[c].state
  <1>1. owner \in [Fds -> Owners] /\ Free \in Owners
    BY DEF TypeInv, TypeOK, OtherTypes, Owners
  <1>2. \A r \in RtpConnections :
           LET q == [r EXCEPT !.state = "freed"]
           IN  q \in RtpConnections /\ SameButState(q, r) /\ q.state = "freed"
    BY DEF RtpConnections, SameButState
  <1>3. \A c \in Conns : rtp[c] \in RtpConnections /\ rtp[c].isPlay \subseteq rtp[c].isSetup
    BY DEF TypeInv, TypeOK, RtpTypes
  <1>4. Close(owner, S) \in [Fds -> Owners]
    BY <1>1 DEF Close
  <1>5. \A n \in Fds : Close(owner, S)[n] = IF n \in S THEN Free ELSE owner[n]
    BY <1>1 DEF Close
  <1>6. Freed(S) \in [Conns -> RtpConnections]
    BY <1>2, <1>3 DEF Freed
  <1>7. \A c \in Conns : /\ c \notin S => Freed(S)[c] = rtp[c]
                         /\ c \in S => Freed(S)[c] = [rtp[c] EXCEPT !.state = "freed"]
    BY DEF Freed
  <1>8. \A c \in Conns : /\ SameButState(Freed(S)[c], rtp[c])
                         /\ Freed(S)[c].state = IF c \in S THEN "freed" ELSE rtp[c].state
    <2> SUFFICES ASSUME NEW c \in Conns
                 PROVE  /\ SameButState(Freed(S)[c], rtp[c])
                        /\ Freed(S)[c].state = IF c \in S THEN "freed" ELSE rtp[c].state
      OBVIOUS
    <2>1. CASE c \in S
      BY <1>2, <1>3, <1>7, <2>1
    <2>2. CASE c \notin S
      BY <1>7, <2>2 DEF SameButState
    <2> QED BY <2>1, <2>2
  <1>9. \A c \in Conns : Freed(S)[c].isPlay \subseteq Freed(S)[c].isSetup
    BY <1>3, <1>8 DEF SameButState
  <1> QED BY <1>4, <1>5, <1>6, <1>7, <1>8, <1>9

\* Functors join the queue at its end.
LEMMA QueueTypes ==
    ASSUME TypeInv, NEW f \in Functors
    PROVE  /\ Append(pending, f) \in Seq(Functors)
           /\ Len(Append(pending, f)) = Len(pending) + 1
           /\ \A i \in 1 .. Len(pending) : Append(pending, f)[i] = pending[i]
           /\ Append(pending, f)[Len(pending) + 1] = f
           /\ running \in 0 .. Len(Append(pending, f)) + 1
           /\ Len(pending) \in Nat
  <1>1. pending \in Seq(Functors) /\ running \in 0 .. Len(pending) + 1
    BY DEF TypeInv, TypeOK, OtherTypes
  <1>2. Len(pending) \in Nat BY <1>1
  <1>3. /\ Append(pending, f) \in Seq(Functors)
        /\ Len(Append(pending, f)) = Len(pending) + 1
        /\ \A i \in 1 .. Len(pending) : Append(pending, f)[i] = pending[i]
        /\ Append(pending, f)[Len(pending) + 1] = f
    BY <1>1
  <1> QED BY <1>1, <1>2, <1>3

\* The functors connections and timers queue.
LEMMA FunctorTypes ==
    ASSUME NEW c \in Conns
    PROVE  /\ [do |-> "connectDestroyed", conn |-> c] \in Functors
           /\ [do |-> "forceClose", conn |-> c] \in Functors
           /\ \A p \in Packets : [do |-> "sendRtpPacket", conn |-> c, pkt |-> p] \in Functors
  BY DEF Functors

\* One RtpConnection changes.
LEMMA OneRtp ==
    ASSUME TypeInv, NEW c \in Conns, NEW r \in RtpConnections,
           r.isPlay \subseteq r.isSetup, rtp' = [rtp EXCEPT ![c] = r]
    PROVE  RtpTypes'
  BY DEF TypeInv, TypeOK, RtpTypes

\* A step keeps FdInv if it accepts no connection and adds no functor and no
\* client, or only such as are known.
LEMMA SameFds ==
    ASSUME TypeInv, fd' = fd, \A c \in Conns : tcp'[c] # "none" => tcp[c] # "none",
           \A c \in Conns : tcp[c] # "none" => tcp'[c] # "none",
           OtherTypes', PushTypes',
           \A i \in 1 .. Len(pending') : tcp[pending'[i].conn] # "none",
           \A n \in DOMAIN clients' : fd[clients'[n]] = n /\ tcp[clients'[n]] # "none",
           \A n \in DOMAIN push.list' : fd[push.list'[n]] = n /\ tcp[push.list'[n]] # "none"
    PROVE  FdInv'
  <1>1. \A f \in Functors : f.conn \in Conns BY DEF Functors
  <1>2. \A i \in 1 .. Len(pending') : pending'[i].conn \in Conns
    BY <1>1 DEF OtherTypes
  <1>3. \A n \in DOMAIN clients' : clients'[n] \in Conns
    BY DEF OtherTypes, IsClientMap
  <1>4. \A n \in DOMAIN push.list' : push.list'[n] \in Conns
    BY DEF PushTypes, IsClientMap
  <1> QED BY <1>2, <1>3, <1>4 DEF TypeInv, FdInv

\* A new connection.
LEMMA AcceptType ==
    ASSUME TypeInv, NEW c \in Conns, Accept(c)
    PROVE  TypeInv'
  <1> DEFINE n == LowestFree(owner)
  <1>1. n \in Fds /\ n \in 0 .. MaxFd
    <2>1. DOMAIN owner = Fds /\ FreeFds(owner) # {}
      BY DEF Accept, TypeInv, TypeOK, OtherTypes
    <2>2. n \in Fds BY <2>1, LowestFreeIsFree
    <2> QED BY <2>2, DeliveryAssumption DEF Fds
  <1>2. Tcp(c) \in Owners BY DEF Owners
  <1>3. /\ tcp[c] = "none" /\ tcp' = [tcp EXCEPT ![c] = "connected"]
        /\ fd' = [fd EXCEPT ![c] = n] /\ owner' = [owner EXCEPT ![n] = Tcp(c)]
        /\ rtspConnMap' = rtspConnMap \cup {c}
        /\ UNCHANGED <<described, rtp, clients, timers, pending, running, push,
                       crashed, sent, torn, replayed>>
    BY DEF Accept, OnConnection
  <1> HIDE DEF n
  <1>4. OtherTypes'
    BY <1>1, <1>2, <1>3 DEF TypeInv, TypeOK, OtherTypes
  <1>5. FdInv'
    <2>1. \A f \in Functors : f.conn \in Conns BY DEF Functors
    <2>2. \A i \in 1 .. Len(pending) : pending[i].conn \in Conns
      BY <2>1 DEF TypeInv, TypeOK, OtherTypes
    <2>3. /\ \A m \in DOMAIN clients : clients[m] \in Conns
          /\ \A m \in DOMAIN push.list : push.list[m] \in Conns
      BY DEF TypeInv, TypeOK, OtherTypes, PushTypes, IsClientMap
    <2>4. \A d \in Conns : tcp'[d] # "none" => fd'[d] \in Fds
      BY <1>1, <1>3 DEF TypeInv, TypeOK, OtherTypes, FdInv
    <2>5. \A d \in Conns : tcp[d] # "none" => fd'[d] = fd[d] /\ tcp'[d] # "none"
      BY <1>3 DEF TypeInv, TypeOK, OtherTypes
    <2> QED BY <1>3, <2>2, <2>3, <2>4, <2>5 DEF TypeInv, FdInv
  <1> QED BY <1>3, <1>4, <1>5, SameTypes DEF TypeInv, TypeOK

\* DESCRIBE.
LEMMA DescribeType ==
    ASSUME TypeInv, NEW c \in Conns, NEW found \in BOOLEAN, Describe(c, found)
    PROVE  TypeInv'
  <1>1. tcp[c] # "none" /\ fd[c] \in Fds
    BY DEF Describe, Event, Readable, Open, TypeInv, FdInv
  <1>2. RtpTypes'
    <2> DEFINE r == [rtp[c] EXCEPT !.state = "alive"]
    <2>1. rtp' = [rtp EXCEPT ![c] = r]
      BY DEF Describe, RtpCreated
    <2>2. r \in RtpConnections /\ r.isPlay \subseteq r.isSetup
      BY DEF TypeInv, TypeOK, RtpTypes, RtpConnections
    <2> QED BY <2>1, <2>2, OneRtp
  <1>3. IsClientMap(clients)' /\ \A n \in DOMAIN clients' : fd[clients'[n]] = n
                                                        /\ tcp[clients'[n]] # "none"
    BY <1>1 DEF Describe, TypeInv, TypeOK, OtherTypes, IsClientMap, FdInv
  <1>4. OtherTypes'
    BY <1>3 DEF Describe, TypeInv, TypeOK, OtherTypes
  <1>5. UNCHANGED <<tcp, fd, pending, push>>
    BY DEF Describe
  <1>6. PushTypes' /\ PushInv' BY <1>5, SameTypes
  <1>7. FdInv' BY <1>3, <1>4, <1>5, <1>6, SameFds DEF TypeInv, FdInv
  <1> QED BY <1>2, <1>4, <1>6, <1>7 DEF TypeInv, TypeOK

\* PLAY, TEARDOWN or SETUP before DESCRIBE, and the swap of the functors.
LEMMA QuietType ==
    ASSUME TypeInv,
           \/ SwapFunctors
           \/ \E c \in Conns, cmd \in {"SETUP", "PLAY", "TEARDOWN"} : NullDereference(c, cmd)
    PROVE  TypeInv'
  <1> USE DEF loopVars
  <1>1. UNCHANGED <<tcp, fd, owner, rtspConnMap, described, rtp, clients, timers,
                    pending, push, sent, torn, replayed>>
    BY DEF SwapFunctors, NullDereference
  <1>2. OtherTypes'
    <2>1. Len(pending) \in Nat BY DEF TypeInv, TypeOK, OtherTypes
    <2>2. running' \in 0 .. Len(pending) + 1
      BY <2>1 DEF SwapFunctors, NullDereference, TypeInv, TypeOK, OtherTypes
    <2>3. crashed' \in {"no", "SETUP", "PLAY", "TEARDOWN", "functor"}
      BY DEF SwapFunctors, NullDereference, TypeInv, TypeOK, OtherTypes
    <2> QED BY <1>1, <2>2, <2>3 DEF TypeInv, TypeOK, OtherTypes
  <1>3. FdInv' BY <1>1 DEF TypeInv, FdInv
  <1> QED BY <1>1, <1>2, <1>3, SameTypes DEF TypeInv, TypeOK

\* SETUP: what it makes of the RtpConnection.
LEMMA SetupRtp ==
    ASSUME TypeInv, NEW c \in Conns, NEW ch \in Channels, Setup(c, ch)
    PROVE  \E r \in RtpConnections :
              /\ rtp' = [rtp EXCEPT ![c] = r]
              /\ r.state = rtp[c].state /\ r.isPlay = rtp[c].isPlay
              /\ r.isClosed = rtp[c].isClosed /\ r.packetSeq = rtp[c].packetSeq
              /\ rtp[c].isSetup \subseteq r.isSetup
              /\ owner' \in [Fds -> Owners]
  <1>1. rtp[c] \in RtpConnections /\ fd[c] \in 0 .. MaxFd /\ owner \in [Fds -> Owners]
    BY DEF TypeInv, TypeOK, RtpTypes, OtherTypes
  <1>2. \A n \in Fds \cup {0} : n \in 0 .. MaxFd
    BY DeliveryAssumption DEF Fds
  <1>3. CASE SetupRtpOverTcp(c, ch)
    <2> DEFINE r == [rtp[c] EXCEPT !.rtpfd[ch] = fd[c], !.rtcpfd[ch] = fd[c],
                                   !.isSetup = @ \cup {ch}, !.mode = "tcp"]
    <2>1. rtp' = [rtp EXCEPT ![c] = r] /\ owner' = owner
      BY <1>3 DEF SetupRtpOverTcp, TypeInv, TypeOK, RtpTypes, RtpConnections
    <2>2. r \in RtpConnections
      BY <1>1 DEF RtpConnections
    <2>3. /\ r.state = rtp[c].state /\ r.isPlay = rtp[c].isPlay
          /\ r.isClosed = rtp[c].isClosed /\ r.packetSeq = rtp[c].packetSeq
          /\ rtp[c].isSetup \subseteq r.isSetup
      BY <1>1 DEF RtpConnections
    <2> QED BY <1>1, <2>1, <2>2, <2>3
  <1>4. CASE SetupRtpOverUdp(c, ch)
    <2> DEFINE n == LowestFree(owner)
               m == LowestFree([owner EXCEPT ![n] = Udp(c)])
    <2>1. n \in Fds /\ m \in Fds
      BY <1>1, <1>4, TwoSockets DEF SetupRtpOverUdp
    <2>2. /\ owner' = [owner EXCEPT ![n] = Udp(c), ![m] = Udp(c)]
          /\ rtp' = [rtp EXCEPT ![c].rtpfd[ch] = n, ![c].rtcpfd[ch] = m,
                                ![c].isSetup = @ \cup {ch}, ![c].mode = "udp"]
      BY <1>4 DEF SetupRtpOverUdp
    <2> HIDE DEF n, m
    <2> DEFINE r == [rtp[c] EXCEPT !.rtpfd[ch] = n, !.rtcpfd[ch] = m,
                                   !.isSetup = @ \cup {ch}, !.mode = "udp"]
    <2>3. rtp' = [rtp EXCEPT ![c] = r]
      BY <2>2 DEF TypeInv, TypeOK, RtpTypes, RtpConnections
    <2>4. r \in RtpConnections
      BY <1>1, <1>2, <2>1 DEF RtpConnections
    <2>5. /\ r.state = rtp[c].state /\ r.isPlay = rtp[c].isPlay
          /\ r.isClosed = rtp[c].isClosed /\ r.packetSeq = rtp[c].packetSeq
          /\ rtp[c].isSetup \subseteq r.isSetup
      BY <1>1 DEF RtpConnections
    <2>6. owner' \in [Fds -> Owners]
      BY <1>1, <2>2 DEF Owners
    <2> QED BY <2>3, <2>4, <2>5, <2>6
  <1>5. CASE SetupRtpOverUdpFails(c, ch)
    <2> DEFINE n == IF FreeFds(owner) = {} THEN 0 ELSE LowestFree(owner)
               m == IF Cardinality(FreeFds(owner)) < 2 THEN 0
                    ELSE LowestFree([owner EXCEPT ![n] = Udp(c)])
    <2>1. n \in 0 .. MaxFd
      BY <1>1, <1>2, LowestFreeIsFree
    <2>2. m \in 0 .. MaxFd
      <3>1. CASE Cardinality(FreeFds(owner)) < 2
        BY <1>2, <3>1
      <3>2. CASE ~(Cardinality(FreeFds(owner)) < 2)
        <4>1. IsFiniteSet(FreeFds(owner))
          <5>1. FreeFds(owner) \subseteq Fds BY <1>1 DEF FreeFds
          <5>2. IsFiniteSet(Fds) BY DeliveryAssumption, FS_Interval DEF Fds
          <5> QED BY <5>1, <5>2, FS_Subset
        <4>2. Cardinality(FreeFds(owner)) \in Nat BY <4>1, FS_CardinalityType
        <4>3. Cardinality(FreeFds(owner)) >= 2 BY <3>2, <4>2
        <4>4. FreeFds(owner) # {} BY <4>3, FS_EmptySet
        <4>5. m = LowestFree([owner EXCEPT ![LowestFree(owner)] = Udp(c)])
          BY <3>2, <4>4
        <4> QED BY <1>1, <1>2, <4>3, <4>5, TwoSockets
      <3> QED BY <3>1, <3>2
    <2>3. /\ owner' = owner
          /\ \/ rtp' = [rtp EXCEPT ![c].rtpfd[ch] = n]
             \/ rtp' = [rtp EXCEPT ![c].rtpfd[ch] = n, ![c].rtcpfd[ch] = m]
      BY <1>5 DEF SetupRtpOverUdpFails
    <2> HIDE DEF n, m
    <2> DEFINE r1 == [rtp[c] EXCEPT !.rtpfd[ch] = n]
               r2 == [rtp[c] EXCEPT !.rtpfd[ch] = n, !.rtcpfd[ch] = m]
    <2>4. rtp' = [rtp EXCEPT ![c] = r1] \/ rtp' = [rtp EXCEPT ![c] = r2]
      BY <2>3 DEF TypeInv, TypeOK, RtpTypes, RtpConnections
    <2>5. r1 \in RtpConnections /\ r2 \in RtpConnections
      BY <1>1, <2>1, <2>2 DEF RtpConnections
    <2>6. \A r \in {r1, r2} :
             /\ r.state = rtp[c].state /\ r.isPlay = rtp[c].isPlay
             /\ r.isClosed = rtp[c].isClosed /\ r.packetSeq = rtp[c].packetSeq
             /\ rtp[c].isSetup \subseteq r.isSetup
      BY <1>1 DEF RtpConnections
    <2> QED BY <1>1, <2>3, <2>4, <2>5, <2>6
  <1> QED BY <1>3, <1>4, <1>5 DEF Setup

\* SETUP.
LEMMA SetupType ==
    ASSUME TypeInv, NEW c \in Conns, NEW ch \in Channels, Setup(c, ch)
    PROVE  TypeInv'
  <1>1. UNCHANGED <<tcp, fd, rtspConnMap, described, clients, timers, pending,
                    running, push, crashed, sent, torn, replayed>>
    BY DEF Setup
  <1>2. RtpTypes' /\ owner' \in [Fds -> Owners]
    <2>1. rtp[c].isPlay \subseteq rtp[c].isSetup
      BY DEF TypeInv, TypeOK, RtpTypes
    <2> QED BY <2>1, SetupRtp, OneRtp
  <1>3. OtherTypes' BY <1>1, <1>2 DEF TypeInv, TypeOK, OtherTypes
  <1>4. FdInv' BY <1>1 DEF TypeInv, FdInv
  <1> QED BY <1>1, <1>2, <1>3, <1>4, SameTypes DEF TypeInv, TypeOK

\* PLAY.
LEMMA PlayType ==
    ASSUME TypeInv, NEW c \in Conns, Play(c)
    PROVE  TypeInv'
  <1> DEFINE r == PlayRtp(rtp[c])
  <1>1. rtp' = [rtp EXCEPT ![c] = r] /\ r \in RtpConnections /\ r.isPlay \subseteq r.isSetup
    BY DEF Play, PlayRtp, TypeInv, TypeOK, RtpTypes, RtpConnections
  <1>2. RtpTypes' BY <1>1, OneRtp
  <1>3. UNCHANGED <<tcp, fd, owner, rtspConnMap, described, clients, timers,
                    pending, running, push, crashed, sent>>
    BY DEF Play
  <1>4. torn' = torn /\ replayed' \subseteq Conns
    BY DEF Play, TypeInv, TypeOK, OtherTypes
  <1>5. OtherTypes' BY <1>3, <1>4 DEF TypeInv, TypeOK, OtherTypes
  <1>6. FdInv' BY <1>3 DEF TypeInv, FdInv
  <1> QED BY <1>2, <1>3, <1>5, <1>6, SameTypes DEF TypeInv, TypeOK

\* What teardown() makes of an RtpConnection.
LEMMA TeardownRtpType ==
    ASSUME NEW r \in RtpConnections, r.isPlay \subseteq r.isSetup
    PROVE  /\ TeardownRtp(r) \in RtpConnections
           /\ TeardownRtp(r).isPlay \subseteq TeardownRtp(r).isSetup
           /\ TeardownRtp(r).isPlay \subseteq r.isPlay
           /\ TeardownRtp(r).state = r.state
           /\ TeardownRtp(r).packetSeq = r.packetSeq
           /\ TeardownRtp(r).isClosed
           /\ ~r.isClosed => TeardownRtp(r).isPlay = {}
           /\ TeardownRtp(r).rtpfd = r.rtpfd /\ TeardownRtp(r).rtcpfd = r.rtcpfd
           /\ TeardownRtp(r).mode = r.mode /\ TeardownRtp(r).isSetup = r.isSetup
  BY DEF TeardownRtp, RtpConnections

\* The packet that the push thread begins with next.
LEMMA UpcomingType ==
    ASSUME TypeInv
    PROVE  /\ Upcoming \in Nat /\ Upcoming # 0
           /\ push.count \in Nat
           /\ Upcoming = IF push.pc = "idle" THEN push.count + 1 ELSE push.count + 2
           /\ push.pc # "idle" => push.pkt.id < Upcoming
  <1>1. push.count \in Nat /\ (push.pc # "idle" => push.pkt.id = push.count + 1)
    BY DEF TypeInv, TypeOK, PushTypes, PushInv
  <1> QED BY <1>1 DEF Upcoming

\* TEARDOWN.
LEMMA TeardownType ==
    ASSUME TypeInv, NEW c \in Conns, Teardown(c)
    PROVE  TypeInv'
  <1> DEFINE r == TeardownRtp(rtp[c])
  <1>1. rtp' = [rtp EXCEPT ![c] = r] /\ r \in RtpConnections /\ r.isPlay \subseteq r.isSetup
    BY TeardownRtpType DEF Teardown, TypeInv, TypeOK, RtpTypes
  <1>2. RtpTypes' BY <1>1, OneRtp
  <1>3. /\ tcp' = [tcp EXCEPT ![c] = "disconnecting"] /\ tcp[c] # "none"
        /\ UNCHANGED <<fd, owner, rtspConnMap, described, clients, pending,
                       running, push, crashed, sent, replayed>>
    BY DEF Teardown, Event, Readable, Open
  <1>4. timers' \in [Conns -> 0 .. MaxTeardowns]
    BY DeliveryAssumption DEF Teardown, ForceCloseWithDelay, TypeInv, TypeOK, OtherTypes
  <1>5. torn' \in [Conns -> Nat]
    BY UpcomingType DEF Teardown, TypeInv, TypeOK, OtherTypes
  <1>6. OtherTypes' BY <1>3, <1>4, <1>5 DEF TypeInv, TypeOK, OtherTypes
  <1>7. PushTypes' /\ PushInv' BY <1>3, SameTypes
  <1>8. FdInv'
    BY <1>3, <1>6, <1>7, SameFds DEF TypeInv, TypeOK, OtherTypes, FdInv
  <1> QED BY <1>2, <1>6, <1>7, <1>8 DEF TypeInv, TypeOK

\* handleClose: the connection goes down, and its RtpConnection with it
\* unless the push thread holds it.
LEMMA HandleCloseType ==
    ASSUME TypeInv, NEW c \in Conns, NEW queue \in Seq(Functors), HandleClose(c, queue)
    PROVE  /\ tcp' = [tcp EXCEPT ![c] = "disconnected"]
           /\ rtspConnMap' = rtspConnMap \ {c}
           /\ pending' \in Seq(Functors)
           /\ Len(pending') = Len(queue) + 1
           /\ \A i \in 1 .. Len(queue) : pending'[i] = queue[i]
           /\ pending'[Len(queue) + 1] = [do |-> "connectDestroyed", conn |-> c]
           /\ owner' \in [Fds -> Owners]
           /\ RtpTypes'
           /\ \A d \in Conns \ {c} : rtp'[d] = rtp[d]
           /\ \/ rtp' = rtp /\ owner' = owner /\ (RtpAlive(c) => InPushList(c))
              \/ /\ ~InPushList(c)
                 /\ rtp'[c] = [rtp[c] EXCEPT !.state = "freed"]
                 /\ owner' = Close(owner, ClosedWith({c}))
  <1>1. [do |-> "connectDestroyed", conn |-> c] \in Functors BY FunctorTypes
  <1>2. /\ pending' \in Seq(Functors) /\ Len(pending') = Len(queue) + 1
        /\ \A i \in 1 .. Len(queue) : pending'[i] = queue[i]
        /\ pending'[Len(queue) + 1] = [do |-> "connectDestroyed", conn |-> c]
    BY <1>1 DEF HandleClose, RemoveConnection
  <1>3. tcp' = [tcp EXCEPT ![c] = "disconnected"] /\ rtspConnMap' = rtspConnMap \ {c}
    BY DEF HandleClose, OnConnection
  <1>4. CASE RtpAlive(c) /\ ~InPushList(c)
    <2>1. rtp' = Freed({c}) /\ owner' = Close(owner, ClosedWith({c}))
      BY <1>4 DEF HandleClose
    <2>2. RtpTypes' BY <2>1, CloseTypes DEF RtpTypes
    <2>3. /\ owner' \in [Fds -> Owners] /\ rtp'[c] = [rtp[c] EXCEPT !.state = "freed"]
          /\ \A d \in Conns \ {c} : rtp'[d] = rtp[d]
      BY <2>1, CloseTypes
    <2> QED BY <1>2, <1>3, <1>4, <2>1, <2>2, <2>3
  <1>5. CASE ~(RtpAlive(c) /\ ~InPushList(c))
    <2>1. rtp' = rtp /\ owner' = owner
      BY <1>5 DEF HandleClose
    <2> QED BY <1>2, <1>3, <1>5, <2>1, SameTypes DEF TypeInv, TypeOK, OtherTypes
  <1> QED BY <1>4, <1>5

\* A connection closes while the functors of `queue' wait.
LEMMA ClosingType ==
    ASSUME TypeInv, NEW c \in Conns, NEW queue \in Seq(Functors), HandleClose(c, queue),
           \A i \in 1 .. Len(queue) : tcp[queue[i].conn] # "none",
           running' \in 0 .. Len(queue) + 1, tcp[c] # "none",
           UNCHANGED <<fd, described, clients, timers, push, crashed, sent, torn, replayed>>
    PROVE  TypeInv'
  <1>1. Len(queue) \in Nat
    OBVIOUS
  <1>2. /\ RtpTypes' /\ tcp' = [tcp EXCEPT ![c] = "disconnected"]
        /\ rtspConnMap' = rtspConnMap \ {c} /\ owner' \in [Fds -> Owners]
        /\ pending' \in Seq(Functors) /\ Len(pending') = Len(queue) + 1
        /\ \A i \in 1 .. Len(queue) : pending'[i] = queue[i]
        /\ pending'[Len(queue) + 1] = [do |-> "connectDestroyed", conn |-> c]
    <2>1. RtpTypes' /\ tcp' = [tcp EXCEPT ![c] = "disconnected"]
      BY HandleCloseType
    <2>2. rtspConnMap' = rtspConnMap \ {c} /\ owner' \in [Fds -> Owners]
      BY HandleCloseType
    <2>3. pending' \in Seq(Functors) /\ Len(pending') = Len(queue) + 1
      BY HandleCloseType
    <2>4. \A i \in 1 .. Len(queue) : pending'[i] = queue[i]
      BY DEF HandleClose, RemoveConnection
    <2>5. pending'[Len(queue) + 1] = [do |-> "connectDestroyed", conn |-> c]
      BY HandleCloseType
    <2> QED BY <2>1, <2>2, <2>3, <2>4, <2>5
  <1>3. OtherTypes'
    BY <1>1, <1>2 DEF TypeInv, TypeOK, OtherTypes
  <1>4. PushTypes' /\ PushInv' BY SameTypes
  <1>5. \A i \in 1 .. Len(pending') : tcp[pending'[i].conn] # "none"
    <2> SUFFICES ASSUME NEW i \in 1 .. Len(pending') PROVE tcp[pending'[i].conn] # "none"
      OBVIOUS
    <2>1. CASE i \in 1 .. Len(queue)
      BY <1>2, <2>1
    <2>2. CASE i = Len(queue) + 1
      <3>1. pending'[i].conn = c BY <1>2, <2>2
      <3> QED BY <3>1
    <2> QED BY <1>1, <1>2, <2>1, <2>2
  <1>6. FdInv'
    BY <1>2, <1>3, <1>4, <1>5, SameFds, SMTT(20) DEF TypeInv, TypeOK, OtherTypes, FdInv
  <1> QED BY <1>2, <1>3, <1>4, <1>6 DEF TypeInv, TypeOK

\* The peer closes.
LEMMA PeerCloseType ==
    ASSUME TypeInv, NEW c \in Conns, PeerClose(c)
    PROVE  TypeInv'
  <1>1. /\ HandleClose(c, pending) /\ tcp[c] # "none" /\ running' = running
        /\ UNCHANGED <<fd, described, clients, timers, push, crashed, sent, torn, replayed>>
    BY DEF PeerClose, Event, Readable, Open
  <1>2. pending \in Seq(Functors) /\ running \in 0 .. Len(pending) + 1
        /\ \A i \in 1 .. Len(pending) : tcp[pending[i].conn] # "none"
    BY DEF TypeInv, TypeOK, OtherTypes, FdInv
  <1> QED BY <1>1, <1>2, ClosingType

\* A timer fires.
LEMMA TimerType ==
    ASSUME TypeInv, NEW c \in Conns, TimerFires(c)
    PROVE  TypeInv'
  <1> DEFINE f == [do |-> "forceClose", conn |-> c]
  <1>1. UNCHANGED <<fd, owner, rtspConnMap, described, rtp, clients, running, push,
                    crashed, sent, torn, replayed>>
    BY DEF TimerFires
  <1>2. timers' \in [Conns -> 0 .. MaxTeardowns]
    BY DeliveryAssumption DEF TimerFires, TypeInv, TypeOK, OtherTypes
  <1>3. CASE Open(c)
    <2>1. /\ tcp[c] # "none" /\ tcp' = [tcp EXCEPT ![c] = "disconnecting"]
          /\ pending' = Append(pending, f) /\ f \in Functors
      BY <1>3, FunctorTypes DEF TimerFires, Open
    <2>2. OtherTypes'
      BY <1>1, <1>2, <2>1, QueueTypes DEF TypeInv, TypeOK, OtherTypes
    <2>3. PushTypes' /\ PushInv' BY <1>1, SameTypes
    <2>4. \A i \in 1 .. Len(pending') : tcp[pending'[i].conn] # "none"
      BY <2>1, QueueTypes DEF TypeInv, FdInv
    <2>5. FdInv'
      BY <1>1, <2>1, <2>2, <2>3, <2>4, SameFds, ZenonT(30) DEF TypeInv, TypeOK, OtherTypes, FdInv
    <2> QED BY <1>1, <2>2, <2>3, <2>5, SameTypes DEF TypeInv, TypeOK
  <1>4. CASE ~Open(c)
    <2>1. UNCHANGED <<tcp, pending>> BY <1>4 DEF TimerFires
    <2>2. OtherTypes' BY <1>1, <1>2, <2>1 DEF TypeInv, TypeOK, OtherTypes
    <2>3. FdInv' BY <1>1, <2>1 DEF TypeInv, FdInv
    <2> QED BY <1>1, <2>2, <2>3, SameTypes DEF TypeInv, TypeOK
  <1> QED BY <1>3, <1>4

\* A functor leaves the queue at its head.
LEMMA HeadTypes ==
    ASSUME TypeInv, running > 1
    PROVE  /\ Len(pending) \in Nat /\ Len(pending) > 0
           /\ Head(pending) = pending[1] /\ Head(pending) \in Functors
           /\ Head(pending).conn \in Conns
           /\ Head(pending).do = "sendRtpPacket" => Head(pending).pkt \in Packets
           /\ Tail(pending) \in Seq(Functors)
           /\ Len(Tail(pending)) = Len(pending) - 1
           /\ \A i \in 1 .. Len(pending) - 1 : Tail(pending)[i] = pending[i + 1]
           /\ running - 1 \in 0 .. Len(Tail(pending)) + 1
  <1>1. pending \in Seq(Functors) /\ running \in 0 .. Len(pending) + 1
    BY DEF TypeInv, TypeOK, OtherTypes
  <1>2. Len(pending) \in Nat /\ Len(pending) > 0 /\ pending # <<>>
    BY <1>1
  <1>3. /\ Head(pending) \in Functors
        /\ Tail(pending) \in Seq(Functors)
        /\ Len(Tail(pending)) = Len(pending) - 1
        /\ \A i \in 1 .. Len(Tail(pending)) : Tail(pending)[i] = pending[i + 1]
    BY <1>1, <1>2, HeadTailProperties
  <1>4. Head(pending) = pending[1] BY <1>1, <1>2
  <1>5. Head(pending).conn \in Conns
        /\ (Head(pending).do = "sendRtpPacket" => Head(pending).pkt \in Packets)
    BY <1>3 DEF Functors
  <1> QED BY <1>1, <1>2, <1>3, <1>4, <1>5

\* setFrameType and setRtpHeader.
LEMMA StampType ==
    ASSUME NEW r \in RtpConnections, NEW pkt \in Packets
    PROVE  /\ Stamp(r, pkt) \in RtpConnections
           /\ Stamp(r, pkt).state = r.state /\ Stamp(r, pkt).isPlay = r.isPlay
           /\ Stamp(r, pkt).isSetup = r.isSetup /\ Stamp(r, pkt).isClosed = r.isClosed
           /\ Stamp(r, pkt).mode = r.mode
           /\ Stamp(r, pkt).rtpfd = r.rtpfd /\ Stamp(r, pkt).rtcpfd = r.rtcpfd
           /\ \A ch \in Channels : Stamp(r, pkt).packetSeq[ch]
                = IF ch = pkt.ch /\ ch \in r.isPlay /\ Stamp(r, pkt).hasIDR
                  THEN (r.packetSeq[ch] + 1) % SeqMod ELSE r.packetSeq[ch]
  <1>1. pkt.ch \in Channels BY DEF Packets
  <1>2. \A k \in 0 .. SeqMod - 1 : (k + 1) % SeqMod \in 0 .. SeqMod - 1
    BY DeliveryAssumption
  <1> DEFINE idr == r.hasIDR \/ pkt.type \in {"none", "I"}
             seq == IF pkt.ch \in r.isPlay /\ idr THEN (r.packetSeq[pkt.ch] + 1) % SeqMod
                                                  ELSE r.packetSeq[pkt.ch]
  <1>3. Stamp(r, pkt) = [r EXCEPT !.hasIDR = idr, !.packetSeq[pkt.ch] = seq]
    BY DEF Stamp
  <1>4. seq \in 0 .. SeqMod - 1 /\ idr \in BOOLEAN
    BY <1>1, <1>2 DEF RtpConnections
  <1> HIDE DEF seq, idr
  <1>5. Stamp(r, pkt) \in RtpConnections
    <2> DEFINE q == [r.packetSeq EXCEPT ![pkt.ch] = seq]
    <2>1. q \in [Channels -> 0 .. SeqMod - 1]
      BY <1>1, <1>4 DEF RtpConnections
    <2>2. Stamp(r, pkt) = [r EXCEPT !.hasIDR = idr, !.packetSeq = q]
      BY <1>3 DEF RtpConnections
    <2> HIDE DEF q
    <2> QED BY <1>4, <2>1, <2>2 DEF RtpConnections
  <1>6. /\ Stamp(r, pkt).state = r.state /\ Stamp(r, pkt).isPlay = r.isPlay
        /\ Stamp(r, pkt).isSetup = r.isSetup /\ Stamp(r, pkt).isClosed = r.isClosed
        /\ Stamp(r, pkt).mode = r.mode
        /\ Stamp(r, pkt).rtpfd = r.rtpfd /\ Stamp(r, pkt).rtcpfd = r.rtcpfd
        /\ Stamp(r, pkt).hasIDR = idr
        /\ \A ch \in Channels : Stamp(r, pkt).packetSeq[ch]
             = IF ch = pkt.ch THEN seq ELSE r.packetSeq[ch]
    BY <1>1, <1>3 DEF RtpConnections
  <1> QED BY <1>5, <1>6 DEF seq

\* What sendRtpOverTcp or sendRtpOverUdp is given.
Given(c, pkt) ==
    [ch |-> pkt.ch, id |-> pkt.id, seq |-> rtp[c].packetSeq[pkt.ch],
     via |-> Via(c, rtp[c], pkt.ch), alive |-> RtpAlive(c)]

\* What the functor makes of the RtpConnection, and what it sends.
Leaves(c, r) ==
    /\ r.isPlay \subseteq rtp[c].isPlay /\ r.isSetup = rtp[c].isSetup
    /\ r.state = rtp[c].state /\ r.mode = rtp[c].mode
    /\ rtp[c].isClosed => r.isClosed
    /\ r.isClosed => rtp[c].isClosed \/ r.isPlay = {}
    /\ r.rtpfd = rtp[c].rtpfd /\ r.rtcpfd = rtp[c].rtcpfd

Sends(c, pkt, r) ==
    \/ sent' = sent /\ r.packetSeq = rtp[c].packetSeq
    \/ /\ pkt.ch \in rtp[c].isPlay
       /\ sent' = [sent EXCEPT ![c] = Append(@, Given(c, pkt))]
       /\ r.packetSeq = [rtp[c].packetSeq EXCEPT ![pkt.ch] = (@ + 1) % SeqMod]

\* The functor of sendRtpPacket: it may stamp and send, and tear down.
LEMMA SendPacketType ==
    ASSUME TypeInv, NEW c \in Conns, NEW pkt \in Packets, SendPacket(c, pkt)
    PROVE  \E r \in RtpConnections :
              rtp' = [rtp EXCEPT ![c] = r] /\ Leaves(c, r) /\ Sends(c, pkt, r)
  <1> DEFINE r == Stamp(rtp[c], pkt)
             go == pkt.ch \in r.isPlay /\ r.hasIDR
  <1>1. rtp[c] \in RtpConnections /\ pkt.ch \in Channels
        /\ rtp[c].isPlay \subseteq rtp[c].isSetup
    BY DEF TypeInv, TypeOK, RtpTypes, Packets
  <1>2. /\ r \in RtpConnections
        /\ r.state = rtp[c].state /\ r.isPlay = rtp[c].isPlay
        /\ r.isClosed = rtp[c].isClosed
        /\ r.isSetup = rtp[c].isSetup /\ r.mode = rtp[c].mode
        /\ r.rtpfd = rtp[c].rtpfd /\ r.rtcpfd = rtp[c].rtcpfd
    BY <1>1, StampType
  <1>3. Via(c, r, pkt.ch) = Via(c, rtp[c], pkt.ch)
    BY <1>2 DEF Via
  <1>4. CASE ~go
    <2>1. rtp' = [rtp EXCEPT ![c] = r] /\ sent' = sent
      BY <1>4 DEF SendPacket
    <2>2. \A ch \in Channels : r.packetSeq[ch] = rtp[c].packetSeq[ch]
      BY <1>1, <1>4, StampType
    <2>3. r.packetSeq = rtp[c].packetSeq
      BY <1>1, <1>2, <2>2 DEF RtpConnections
    <2> HIDE DEF r
    <2>4. Leaves(c, r) BY <1>2 DEF Leaves
    <2>5. Sends(c, pkt, r) BY <2>1, <2>3 DEF Sends
    <2> QED BY <1>2, <2>1, <2>4, <2>5
  <1>5. CASE go
    <2>1. /\ sent' = [sent EXCEPT ![c] = Append(@,
                        [ch |-> pkt.ch, id |-> pkt.id,
                         seq |-> rtp[c].packetSeq[pkt.ch], via |-> Via(c, r, pkt.ch),
                         alive |-> RtpAlive(c)])]
          /\ \/ rtp' = [rtp EXCEPT ![c] = r]
             \/ rtp' = [rtp EXCEPT ![c] = TeardownRtp(r)]
      BY <1>5 DEF SendPacket
    <2>2. sent' = [sent EXCEPT ![c] = Append(@, Given(c, pkt))]
      <3> HIDE DEF r
      <3> QED BY <1>3, <2>1 DEF Given
    <2>3. \A ch \in Channels : r.packetSeq[ch] =
             IF ch = pkt.ch THEN (rtp[c].packetSeq[ch] + 1) % SeqMod ELSE rtp[c].packetSeq[ch]
      BY <1>1, <1>5, StampType
    <2>4. r.packetSeq = [rtp[c].packetSeq EXCEPT ![pkt.ch] = (@ + 1) % SeqMod]
      BY <1>1, <1>2, <2>3 DEF RtpConnections
    <2>5. pkt.ch \in rtp[c].isPlay
      BY <1>2, <1>5
    <2> DEFINE q == TeardownRtp(r)
    <2>6. /\ q \in RtpConnections /\ q.isPlay \subseteq r.isPlay
          /\ q.state = r.state /\ q.packetSeq = r.packetSeq /\ q.isClosed
          /\ r.isClosed \/ q.isPlay = {}
          /\ q.rtpfd = r.rtpfd /\ q.rtcpfd = r.rtcpfd
          /\ q.mode = r.mode /\ q.isSetup = r.isSetup
      <3>1. r.isPlay \subseteq r.isSetup BY <1>1, <1>2
      <3> HIDE DEF r
      <3> QED BY <1>2, <3>1, TeardownRtpType
    <2> HIDE DEF q, r
    <2>7. Leaves(c, r) /\ Leaves(c, q)
      BY <1>2, <2>6 DEF Leaves
    <2>8. Sends(c, pkt, r) /\ Sends(c, pkt, q)
      BY <2>2, <2>4, <2>5, <2>6 DEF Sends
    <2> QED BY <1>2, <2>1, <2>6, <2>7, <2>8 DEF q
  <1> QED BY <1>4, <1>5

\* What is sent on: an open descriptor's owner, or nothing.
LEMMA ViaType ==
    ASSUME TypeInv, NEW c \in Conns, NEW ch
    PROVE  Via(c, rtp[c], ch) \in Owners
  BY DEF Via, IsOpen, Owners, TypeInv, TypeOK, OtherTypes

LEMMA GivenType ==
    ASSUME TypeInv, NEW c \in Conns, NEW pkt \in Packets
    PROVE  /\ Given(c, pkt) \in SentPackets
           /\ Given(c, pkt).ch = pkt.ch /\ Given(c, pkt).id = pkt.id
           /\ Given(c, pkt).seq = rtp[c].packetSeq[pkt.ch]
           /\ Given(c, pkt).via = Via(c, rtp[c], pkt.ch)
           /\ Given(c, pkt).alive = RtpAlive(c)
  <1>1. pkt.ch \in Channels /\ pkt.id \in Nat BY DEF Packets
  <1>2. rtp[c].packetSeq[pkt.ch] \in 0 .. SeqMod - 1
    BY <1>1 DEF TypeInv, TypeOK, RtpTypes, RtpConnections
  <1>3. Via(c, rtp[c], pkt.ch) \in Owners BY ViaType
  <1>4. RtpAlive(c) \in BOOLEAN BY DEF RtpAlive
  <1>5. Given(c, pkt) \in SentPackets
    BY <1>1, <1>2, <1>3, <1>4 DEF SentPackets, Given
  <1> QED BY <1>5 DEF Given

\* A functor at the head of the queue is run and leaves it.
LEMMA TailFds ==
    ASSUME TypeInv, running > 1
    PROVE  /\ \A i \in 1 .. Len(Tail(pending)) : tcp[Tail(pending)[i].conn] # "none"
           /\ tcp[Head(pending).conn] # "none"
  <1>1. /\ Len(pending) \in Nat /\ Len(pending) > 0
        /\ Head(pending) = pending[1]
        /\ Len(Tail(pending)) = Len(pending) - 1
        /\ \A i \in 1 .. Len(pending) - 1 : Tail(pending)[i] = pending[i + 1]
    BY HeadTypes
  <1>2. \A i \in 1 .. Len(pending) : tcp[pending[i].conn] # "none"
    BY DEF TypeInv, FdInv
  <1> QED BY <1>1, <1>2

\* doPendingFunctors runs a functor.
LEMMA RunFunctorType ==
    ASSUME TypeInv, RunFunctor
    PROVE  TypeInv'
  <1> DEFINE f == Head(pending)
             c == f.conn
  <1>1. /\ running > 1 /\ running' = running - 1 /\ crashed = "no"
        /\ UNCHANGED <<fd, described, clients, timers, push, torn, replayed>>
    BY DEF RunFunctor
  <1>2. /\ c \in Conns /\ (f.do = "sendRtpPacket" => f.pkt \in Packets)
        /\ Tail(pending) \in Seq(Functors) /\ running' \in 0 .. Len(Tail(pending)) + 1
    BY <1>1, HeadTypes
  <1>3. /\ \A i \in 1 .. Len(Tail(pending)) : tcp[Tail(pending)[i].conn] # "none"
        /\ tcp[c] # "none"
    BY <1>1, TailFds
  <1>4. PushTypes' /\ PushInv' BY <1>1, SameTypes
  <1>5. CASE f.do = "forceClose" /\ Open(c)
    <2>1. HandleClose(c, Tail(pending)) /\ UNCHANGED <<crashed, sent>>
      BY <1>5 DEF RunFunctor, RunForceClose
    <2> QED BY <1>1, <1>2, <1>3, <2>1, ClosingType
  <1>6. CASE ~(f.do = "forceClose" /\ Open(c))
    <2>1. pending' = Tail(pending) /\ UNCHANGED <<owner, rtspConnMap>>
      BY <1>6 DEF RunFunctor, RunForceClose, RunRtp, RunConnectDestroyed
    <2>2. tcp' = tcp \/ tcp' = [tcp EXCEPT ![c] = "removed"]
      BY <1>6 DEF RunFunctor, RunForceClose, RunRtp, RunConnectDestroyed
    <2>3. crashed' \in {"no", "functor"}
      BY <1>1 DEF RunFunctor, RunForceClose, RunRtp, RunConnectDestroyed
    <2>4. RtpTypes' /\ sent' \in [Conns -> Seq(SentPackets)]
      <3>1. CASE rtp' = rtp /\ sent' = sent
        BY <3>1, SameTypes DEF TypeInv, TypeOK, OtherTypes
      <3>2. CASE f.do = "sendRtpPacket" /\ SendPacket(c, f.pkt)
        <4> DEFINE p == Given(c, f.pkt)
        <4>1. f.pkt \in Packets BY <1>2, <3>2
        <4>0. PICK r \in RtpConnections :
                 rtp' = [rtp EXCEPT ![c] = r] /\ Leaves(c, r) /\ Sends(c, f.pkt, r)
          BY <1>2, <3>2, <4>1, SendPacketType
        <4>2. /\ rtp' = [rtp EXCEPT ![c] = r]
              /\ r.isPlay \subseteq rtp[c].isPlay /\ r.isSetup = rtp[c].isSetup
              /\ sent' = sent \/ sent' = [sent EXCEPT ![c] = Append(@, p)]
          BY <4>0 DEF Leaves, Sends
        <4>3. RtpTypes'
          BY <1>2, <4>2, OneRtp DEF TypeInv, TypeOK, RtpTypes
        <4>4. p \in SentPackets BY <1>2, <4>1, GivenType
        <4> HIDE DEF p
        <4>5. sent \in [Conns -> Seq(SentPackets)]
          BY DEF TypeInv, TypeOK, OtherTypes
        <4>6. Append(sent[c], p) \in Seq(SentPackets)
          BY <1>2, <4>4, <4>5
        <4> QED BY <1>2, <4>2, <4>3, <4>5, <4>6
      <3> QED BY <1>6, <3>1, <3>2 DEF RunFunctor, RunForceClose, RunRtp, RunConnectDestroyed
    <2>5. OtherTypes'
      BY <1>1, <1>2, <2>1, <2>2, <2>3, <2>4, ZenonT(30) DEF TypeInv, TypeOK, OtherTypes
    <2>6. FdInv'
      BY <1>1, <1>2, <1>3, <1>4, <2>1, <2>2, <2>5, SameFds
      DEF TypeInv, TypeOK, OtherTypes, FdInv
    <2> QED BY <1>4, <2>4, <2>5, <2>6 DEF TypeInv, TypeOK
  <1> QED BY <1>5, <1>6

\* The end of a batch.
LEMMA BatchDoneType ==
    ASSUME TypeInv, BatchDone
    PROVE  TypeInv'
  <1> DEFINE removed == {c \in Conns : tcp[c] = "removed"}
             gone == {c \in removed : ~HeldByPush(c)}
  <1>1. /\ running' = 0
        /\ tcp' = [c \in Conns |-> IF c \in gone THEN "destroyed"
                                   ELSE IF c \in removed THEN "orphan" ELSE tcp[c]]
        /\ owner' = Close(owner, {fd[c] : c \in gone})
        /\ UNCHANGED <<fd, rtspConnMap, described, rtp, clients, timers, pending,
                       push, crashed, sent, torn, replayed>>
    BY DEF BatchDone
  <1>2. /\ tcp' \in [Conns -> {"none", "connected", "disconnecting", "disconnected",
                              "removed", "orphan", "destroyed"}]
        /\ \A c \in Conns : tcp'[c] # "none" <=> tcp[c] # "none"
    BY <1>1 DEF TypeInv, TypeOK, OtherTypes
  <1>3. owner' \in [Fds -> Owners]
    BY <1>1, CloseTypes
  <1>4. OtherTypes'
    <2>1. 0 \in 0 .. Len(pending) + 1
      BY DEF TypeInv, TypeOK, OtherTypes
    <2> QED BY <1>1, <1>2, <1>3, <2>1 DEF TypeInv, TypeOK, OtherTypes
  <1>5. PushTypes' /\ PushInv' BY <1>1, SameTypes
  <1>6. FdInv' BY <1>1, <1>2, <1>4, <1>5, SameFds DEF TypeInv, FdInv
  <1> QED BY <1>1, <1>4, <1>5, <1>6, SameTypes DEF TypeInv, TypeOK

\* A step of the push thread that only changes its own state.
LEMMA PushOnlyType ==
    ASSUME TypeInv, UNCHANGED <<loopVars, pending, running, handled, crashed, sent, torn, replayed>>,
           PushTypes', PushInv', push.list' = push.list
    PROVE  TypeInv'
  <1>1. OtherTypes' BY DEF loopVars, TypeInv, TypeOK, OtherTypes
  <1>2. RtpTypes' BY SameTypes DEF loopVars
  <1>3. FdInv' BY DEF loopVars, TypeInv, FdInv
  <1> QED BY <1>1, <1>2, <1>3 DEF TypeInv, TypeOK

\* pushFrame.
LEMMA PushFrameType ==
    ASSUME TypeInv, NEW ch \in Channels, NEW type \in FrameTypes,
           NEW n \in 1 .. MaxFragments, PushFrame(ch, type, n)
    PROVE  TypeInv'
  <1> DEFINE p == [ch |-> ch, type |-> type, id |-> push.count + 1]
  <1>1. /\ push.pc = "idle"
        /\ push' = [push EXCEPT !.pc = "collect", !.left = n, !.pkt = p]
        /\ UNCHANGED <<loopVars, pending, running, handled, crashed, sent, torn, replayed>>
    BY DEF PushFrame
  <1>2. n \in Nat /\ n > 0 BY DeliveryAssumption
  <1>3. p \in Packets /\ p.id = push.count + 1
    BY DEF Packets, TypeInv, TypeOK, PushTypes
  <1> HIDE DEF p
  <1>4. push' = [pc |-> "collect", list |-> push.list, todo |-> push.todo, left |-> n,
                 pkt |-> p, count |-> push.count]
    BY <1>1 DEF TypeInv, TypeOK, PushTypes
  <1>5. PushTypes' BY <1>2, <1>3, <1>4 DEF TypeInv, TypeOK, PushTypes
  <1>6. PushInv' BY <1>1, <1>2, <1>3, <1>4 DEF TypeInv, PushInv
  <1> QED BY <1>1, <1>4, <1>5, <1>6, PushOnlyType

\* The push thread collects the session's clients.
LEMMA CollectType ==
    ASSUME TypeInv, Collect
    PROVE  TypeInv'
  <1> DEFINE live == {n \in DOMAIN clients : RtpAlive(clients[n])}
             listed == {n \in live : TcpAlive(clients[n])}
             list == [n \in listed |-> clients[n]]
  <1>1. /\ clients' = [n \in live |-> clients[n]]
        /\ push.pc = "collect"
        /\ push' = [push EXCEPT !.pc = "check", !.list = list, !.todo = listed]
        /\ UNCHANGED <<tcp, fd, owner, rtspConnMap, described, rtp, timers, pending,
                       running, crashed, sent, torn, replayed>>
    BY DEF Collect
  <1>2. IsClientMap(clients) BY DEF TypeInv, TypeOK, OtherTypes
  <1>3. IsClientMap(clients)'
    BY <1>1, <1>2 DEF IsClientMap
  <1>4. IsClientMap(list) /\ DOMAIN list = listed
    BY <1>2 DEF IsClientMap
  <1>5. push' = [pc |-> "check", list |-> list, todo |-> listed, left |-> push.left,
                 pkt |-> push.pkt, count |-> push.count]
    BY <1>1 DEF TypeInv, TypeOK, PushTypes
  <1>6. /\ \A n \in DOMAIN clients' : clients'[n] = clients[n] /\ n \in DOMAIN clients
        /\ \A n \in DOMAIN list : list[n] = clients[n] /\ n \in DOMAIN clients
    BY <1>1
  <1> HIDE DEF list, listed, live
  <1>7. PushTypes' BY <1>4, <1>5 DEF TypeInv, TypeOK, PushTypes
  <1>8. PushInv' BY <1>1, <1>5 DEF TypeInv, PushInv
  <1>9. OtherTypes' BY <1>1, <1>3 DEF TypeInv, TypeOK, OtherTypes
  <1>10. FdInv'
    <2>1. push.list' = list BY <1>5
    <2> QED BY <1>1, <1>6, <2>1 DEF TypeInv, FdInv
  <1> QED BY <1>1, <1>7, <1>8, <1>9, <1>10, SameTypes DEF TypeInv, TypeOK

\* The client being visited is one of the list.
LEMMA CurrentIsListed ==
    ASSUME TypeInv, push.todo # {}
    PROVE  /\ Highest(push.todo) \in push.todo
           /\ Highest(push.todo) \in DOMAIN push.list
           /\ Current \in Conns /\ fd[Current] = Highest(push.todo)
           /\ tcp[Current] # "none" /\ Current \in PushList
           /\ Visited \subseteq DOMAIN push.list
  <1>1. push.todo \in SUBSET Fds /\ push.todo \subseteq DOMAIN push.list
        /\ \A n \in DOMAIN push.list : push.list[n] \in Conns
    BY DEF TypeInv, TypeOK, PushTypes, IsClientMap
  <1>2. Highest(push.todo) \in push.todo BY <1>1, HighestIsMember
  <1> QED BY <1>1, <1>2 DEF Current, PushList, Visited, TypeInv, FdInv

\* sendRtpPacket's early returns.
LEMMA CheckClientType ==
    ASSUME TypeInv, CheckClient
    PROVE  TypeInv'
  <1>1. /\ push.pc = "check" /\ push.todo # {}
        /\ \/ push' = [push EXCEPT !.pc = "queue"]
           \/ push' = [push EXCEPT !.todo = Visited]
        /\ UNCHANGED <<loopVars, pending, running, handled, crashed, sent, torn, replayed>>
    BY DEF CheckClient
  <1>2. Visited \subseteq DOMAIN push.list BY <1>1, CurrentIsListed
  <1>3. /\ push' = [pc |-> push'.pc, list |-> push.list, todo |-> push'.todo,
                    left |-> push.left, pkt |-> push.pkt, count |-> push.count]
        /\ push'.pc \in {"check", "queue"} /\ push'.todo \subseteq DOMAIN push.list
        /\ push'.pc = "queue" => push'.todo # {}
    BY <1>1, <1>2 DEF TypeInv, TypeOK, PushTypes
  <1>4. PushTypes' BY <1>3 DEF TypeInv, TypeOK, PushTypes
  <1>5. PushInv' BY <1>1, <1>3 DEF TypeInv, PushInv
  <1> QED BY <1>1, <1>3, <1>4, <1>5, PushOnlyType

\* runInLoop.
LEMMA QueuePacketType ==
    ASSUME TypeInv, QueuePacket
    PROVE  TypeInv'
  <1> DEFINE c == Current
             f == [do |-> "sendRtpPacket", conn |-> c, pkt |-> push.pkt]
  <1>1. /\ push.pc = "queue"
        /\ pending' = Append(pending, f)
        /\ push' = [push EXCEPT !.pc = "check", !.todo = Visited]
        /\ UNCHANGED <<fd, rtspConnMap, described, rtp, clients, timers, running,
                       handled, crashed, sent, torn, replayed>>
        /\ \/ tcp' = [tcp EXCEPT ![c] = "destroyed"] /\ owner' = Close(owner, {fd[c]})
           \/ UNCHANGED <<tcp, owner>>
    BY DEF QueuePacket
  <1>2. push.todo # {} /\ push.pkt \in Packets
    BY <1>1 DEF TypeInv, PushInv
  <1>3. c \in Conns /\ tcp[c] # "none" /\ Visited \subseteq DOMAIN push.list
    BY <1>2, CurrentIsListed
  <1>4. f \in Functors BY <1>2, <1>3, FunctorTypes
  <1>5. f.conn = c OBVIOUS
  <1> HIDE DEF f, c
  <1>6. push' = [pc |-> "check", list |-> push.list, todo |-> Visited,
                 left |-> push.left, pkt |-> push.pkt, count |-> push.count]
    BY <1>1 DEF TypeInv, TypeOK, PushTypes
  <1>7. PushTypes' BY <1>3, <1>6 DEF TypeInv, TypeOK, PushTypes
  <1>8. PushInv' BY <1>1, <1>6 DEF TypeInv, PushInv
  <1>9. owner' \in [Fds -> Owners]
    BY <1>1, CloseTypes DEF TypeInv, TypeOK, OtherTypes
  <1>10. /\ pending' \in Seq(Functors) /\ running' \in 0 .. Len(pending') + 1
         /\ Len(pending') = Len(pending) + 1 /\ Len(pending) \in Nat
         /\ \A i \in 1 .. Len(pending) : pending'[i] = pending[i]
         /\ pending'[Len(pending) + 1] = f
    BY <1>1, <1>4, QueueTypes
  <1>11. OtherTypes'
    BY <1>1, <1>3, <1>9, <1>10 DEF TypeInv, TypeOK, OtherTypes
  <1>13. FdInv'
    <2>1. push.list' = push.list BY <1>6
    <2>2. \A d \in Conns : tcp'[d] # "none" <=> tcp[d] # "none"
      BY <1>1, <1>3 DEF TypeInv, TypeOK, OtherTypes
    <2>3. /\ \A n \in DOMAIN clients' : fd[clients'[n]] = n /\ tcp[clients'[n]] # "none"
          /\ \A n \in DOMAIN push.list' : fd[push.list'[n]] = n /\ tcp[push.list'[n]] # "none"
      BY <1>1, <2>1 DEF TypeInv, FdInv
    <2>4. \A i \in 1 .. Len(pending') : tcp[pending'[i].conn] # "none"
      BY <1>3, <1>5, <1>10 DEF TypeInv, FdInv
    <2>5. fd' = fd BY <1>1
    <2> QED BY <1>7, <1>11, <2>2, <2>3, <2>4, <2>5, SameFds
  <1> QED BY <1>1, <1>7, <1>8, <1>11, <1>13, SameTypes DEF TypeInv, TypeOK

\* The push thread drops its list.
LEMMA ReleaseListType ==
    ASSUME TypeInv, ReleaseList
    PROVE  TypeInv'
  <1>1. /\ push.pc = "check" /\ push.todo = {}
        /\ rtp' = Freed(Dying) /\ owner' = Close(owner, ClosedWith(Dying))
        /\ push' = [push EXCEPT !.pc = IF push.left > 1 THEN "collect" ELSE "idle",
                                !.list = NoClients, !.left = @ - 1, !.count = @ + 1,
                                !.pkt = IF push.left > 1 THEN [push.pkt EXCEPT !.id = @ + 1]
                                                         ELSE None]
        /\ UNCHANGED <<tcp, fd, rtspConnMap, described, clients, timers, pending,
                       running, crashed, sent, torn, replayed>>
    BY DEF ReleaseList
  <1>2. /\ push.left \in Nat /\ push.count \in Nat /\ push.left > 0
        /\ push.pkt \in Packets /\ push.pkt.id = push.count + 1
    BY <1>1 DEF TypeInv, TypeOK, PushTypes, PushInv
  <1> DEFINE p == [push.pkt EXCEPT !.id = @ + 1]
             pc == IF push.left > 1 THEN "collect" ELSE "idle"
             next == IF push.left > 1 THEN p ELSE None
  <1>3. p \in Packets /\ p.id = push.count + 1 + 1
    BY <1>2 DEF Packets
  <1>10. push' = [push EXCEPT !.pc = pc, !.list = NoClients, !.left = @ - 1,
                              !.count = @ + 1, !.pkt = next]
    BY <1>1
  <1> HIDE DEF p, pc, next
  <1>4. push' = [pc |-> pc, list |-> NoClients, todo |-> {}, left |-> push.left - 1,
                 pkt |-> next, count |-> push.count + 1]
    BY <1>1, <1>10 DEF TypeInv, TypeOK, PushTypes
  <1> USE DEF pc, next
  <1>5. PushTypes'
    BY <1>2, <1>3, <1>4, NoClientsIsMap DEF PushTypes
  <1>6. PushInv'
    BY <1>2, <1>3, <1>4, NoClientsIsMap DEF PushInv
  <1>7. RtpTypes' /\ owner' \in [Fds -> Owners]
    BY <1>1, CloseTypes DEF RtpTypes
  <1>8. OtherTypes' BY <1>1, <1>7 DEF TypeInv, TypeOK, OtherTypes
  <1>9. FdInv'
    <2>1. DOMAIN push'.list = {} BY <1>4, NoClientsIsMap
    <2> QED BY <1>1, <2>1 DEF TypeInv, FdInv
  <1> QED BY <1>5, <1>6, <1>7, <1>8, <1>9 DEF TypeInv, TypeOK

\* Every step preserves the types.
LEMMA TypeStep == TypeInv /\ [Next]_vars => TypeInv'
  <1> SUFFICES ASSUME TypeInv, [Next]_vars PROVE TypeInv'
    OBVIOUS
  <1>1. CASE UNCHANGED vars
    BY <1>1 DEF vars, loopVars, TypeInv, TypeOK, OtherTypes, RtpTypes, PushTypes, PushInv,
                FdInv
  <1>2. ASSUME NEW c \in Conns, Accept(c) \/ Request(c) \/ PeerClose(c) \/ TimerFires(c)
        PROVE  TypeInv'
    <2>1. CASE Request(c)
      <3>1. ASSUME NEW found \in BOOLEAN, Describe(c, found) PROVE TypeInv'
        BY <3>1, DescribeType
      <3>2. ASSUME NEW ch \in Channels, Setup(c, ch) PROVE TypeInv'
        BY <3>2, SetupType
      <3>3. CASE Play(c) \/ Teardown(c)
        BY <3>3, PlayType, TeardownType
      <3>4. ASSUME NEW cmd \in {"SETUP", "PLAY", "TEARDOWN"}, NullDereference(c, cmd)
            PROVE  TypeInv'
        BY <3>4, QuietType
      <3> QED BY <2>1, <3>1, <3>2, <3>3, <3>4 DEF Request
    <2> QED BY <1>2, <2>1, AcceptType, PeerCloseType, TimerType
  <1>3. CASE Loop
    BY <1>3, QuietType, RunFunctorType, BatchDoneType DEF Loop
  <1>4. CASE Pushing
    BY <1>4, CollectType, CheckClientType, QueuePacketType, ReleaseListType DEF Pushing
  <1> QED BY <1>1, <1>2, <1>3, <1>4, PushFrameType DEF Next

\* The types, with what they need to be inductive.
THEOREM DeliveryTypes == Spec => []TypeInv
  BY InitType, TypeStep, PTL DEF Spec

\* TypeOK holds in every reachable state.
THEOREM DeliveryTypeCorrect == Spec => []TypeOK
  <1>1. TypeInv => TypeOK BY DEF TypeInv
  <1> QED BY <1>1, DeliveryTypes, PTL

-----------------------------------------------------------------------------
(* Connections and their entries.                                          *)

\* A connection's last functor is queued once, when it has gone down.
RemovalsOf(queue) ==
    \A i \in 1 .. Len(queue), j \in 1 .. Len(queue) :
        queue[i].do = "connectDestroyed" =>
           /\ tcp[queue[i].conn] = "disconnected"
           /\ queue[j].do = "connectDestroyed" /\ queue[j].conn = queue[i].conn => i = j

TcpInv == MapMatchesConnections /\ RemovalsOf(pending)

\* A functor of another kind is queued and connections move on, without a
\* disconnected one changing and without one coming up or going down.
LEMMA AppendKeepsTcp ==
    ASSUME TypeInv, TcpInv, NEW f \in Functors, f.do # "connectDestroyed",
           pending' = Append(pending, f) \/ pending' = pending,
           rtspConnMap' = rtspConnMap,
           \A c \in Conns : Open(c)' <=> Open(c),
           \A c \in Conns : tcp[c] = "disconnected" => tcp'[c] = "disconnected"
    PROVE  TcpInv'
  <1>1. MapMatchesConnections'
    BY DEF TcpInv, MapMatchesConnections
  <1>2. \A i \in 1 .. Len(pending) : pending[i].conn \in Conns
    BY DEF TypeInv, TypeOK, OtherTypes, Functors
  <1>3. \A i \in 1 .. Len(pending') :
           pending'[i].do = "connectDestroyed"
             => i \in 1 .. Len(pending) /\ pending'[i] = pending[i]
    BY QueueTypes
  <1>4. RemovalsOf(pending)'
    BY <1>2, <1>3 DEF TcpInv, RemovalsOf
  <1> QED BY <1>1, <1>4 DEF TcpInv

\* The functor at the head has been run.
LEMMA TailKeepsTcp ==
    ASSUME TypeInv, TcpInv, running > 1
    PROVE  /\ RemovalsOf(Tail(pending))
           /\ Head(pending).do = "connectDestroyed" =>
                 /\ tcp[Head(pending).conn] = "disconnected"
                 /\ \A i \in 1 .. Len(Tail(pending)) :
                       Tail(pending)[i].do = "connectDestroyed"
                         => Tail(pending)[i].conn # Head(pending).conn
  <1>1. /\ Len(pending) \in Nat /\ Len(pending) > 0
        /\ Head(pending) = pending[1]
        /\ Len(Tail(pending)) = Len(pending) - 1
        /\ \A i \in 1 .. Len(pending) - 1 : Tail(pending)[i] = pending[i + 1]
    BY HeadTypes
  <1>2. RemovalsOf(pending) BY DEF TcpInv
  <1>3. \A i \in 1 .. Len(Tail(pending)) :
           Tail(pending)[i] = pending[i + 1] /\ i + 1 \in 1 .. Len(pending) /\ i + 1 # 1
    BY <1>1
  <1>4. RemovalsOf(Tail(pending))
    <2> SUFFICES ASSUME NEW i \in 1 .. Len(Tail(pending)), NEW j \in 1 .. Len(Tail(pending)),
                        Tail(pending)[i].do = "connectDestroyed"
                 PROVE  /\ tcp[Tail(pending)[i].conn] = "disconnected"
                        /\ Tail(pending)[j].do = "connectDestroyed"
                           /\ Tail(pending)[j].conn = Tail(pending)[i].conn => i = j
      BY DEF RemovalsOf
    <2>1. i + 1 = j + 1 => i = j BY <1>1
    <2> QED BY <1>2, <1>3, <2>1 DEF RemovalsOf
  <1>5. 1 \in 1 .. Len(pending) BY <1>1
  <1> QED BY <1>1, <1>2, <1>3, <1>4, <1>5 DEF RemovalsOf

\* An open connection closes.
LEMMA ClosingTcp ==
    ASSUME TypeInv, TcpInv, NEW c \in Conns, NEW queue \in Seq(Functors),
           RemovalsOf(queue), Open(c), HandleClose(c, queue)
    PROVE  TcpInv'
  <1>1. /\ tcp' = [tcp EXCEPT ![c] = "disconnected"]
        /\ rtspConnMap' = rtspConnMap \ {c}
    BY HandleCloseType
  <1>2. tcp \in [Conns -> {"none", "connected", "disconnecting", "disconnected",
                           "removed", "orphan", "destroyed"}]
    BY DEF TypeInv, TypeOK, OtherTypes
  <1>3. MapMatchesConnections'
    BY <1>1, <1>2 DEF TcpInv, MapMatchesConnections, Open
  <1>4. Len(queue) \in Nat /\ \A i \in 1 .. Len(queue) : queue[i].conn \in Conns
    BY DEF Functors
  <1>5. \A i \in 1 .. Len(queue) : queue[i].do = "connectDestroyed" => queue[i].conn # c
    BY DEF RemovalsOf, Open
  <1>6. /\ Len(pending') = Len(queue) + 1
        /\ pending'[Len(queue) + 1] = [do |-> "connectDestroyed", conn |-> c]
    BY HandleCloseType
  <1>7. \A i \in 1 .. Len(queue) : pending'[i] = queue[i]
    BY DEF HandleClose, RemoveConnection
  <1>8. \A i \in 1 .. Len(pending') : i \in 1 .. Len(queue) \/ i = Len(queue) + 1
    BY <1>4, <1>6
  <1>9. /\ pending'[Len(queue) + 1].conn = c
        /\ \A i \in 1 .. Len(queue) : /\ pending'[i] = queue[i]
                                      /\ queue[i].do = "connectDestroyed" =>
                                           /\ queue[i].conn # c
                                           /\ tcp'[queue[i].conn] = "disconnected"
    BY <1>1, <1>2, <1>4, <1>5, <1>6, <1>7 DEF RemovalsOf
  <1>10. tcp'[c] = "disconnected" BY <1>1, <1>2
  <1>11. RemovalsOf(pending)'
    BY <1>8, <1>9, <1>10 DEF RemovalsOf
  <1> QED BY <1>3, <1>11 DEF TcpInv

\* A step that moves connections between states which are neither open nor
\* "disconnected", and leaves the rest alone.
LEMMA SameTcp ==
    ASSUME TypeInv, TcpInv, UNCHANGED <<rtspConnMap, pending>>,
           \A c \in Conns : Open(c)' <=> Open(c),
           \A c \in Conns : tcp[c] = "disconnected" => tcp'[c] = "disconnected"
    PROVE  TcpInv'
  <1>1. \A i \in 1 .. Len(pending) : pending[i].conn \in Conns
    BY DEF TypeInv, TypeOK, OtherTypes, Functors
  <1> QED BY <1>1 DEF TcpInv, MapMatchesConnections, RemovalsOf

\* Every step keeps the entries of the map and the removals in step with the
\* connections.
LEMMA TcpStep == TypeInv /\ TcpInv /\ [Next]_vars => TcpInv'
  <1> SUFFICES ASSUME TypeInv, TcpInv, [Next]_vars PROVE TcpInv'
    OBVIOUS
  <1> USE DEF loopVars
  <1> DEFINE States == {"none", "connected", "disconnecting", "disconnected",
                        "removed", "orphan", "destroyed"}
  <1>1. tcp \in [Conns -> States] BY DEF TypeInv, TypeOK, OtherTypes
  <1>2. CASE UNCHANGED <<tcp, rtspConnMap, pending>>
    BY <1>2, SameTcp DEF Open
  <1>3. ASSUME NEW c \in Conns, Accept(c) PROVE TcpInv'
    <2>1. /\ tcp' = [tcp EXCEPT ![c] = "connected"] /\ rtspConnMap' = rtspConnMap \cup {c}
          /\ pending' = pending /\ tcp[c] = "none"
      BY <1>3 DEF Accept, OnConnection
    <2>2. MapMatchesConnections'
      BY <1>1, <2>1 DEF TcpInv, MapMatchesConnections, Open
    <2>3. \A i \in 1 .. Len(pending) : pending[i].conn \in Conns
      BY DEF TypeInv, TypeOK, OtherTypes, Functors
    <2>4. RemovalsOf(pending)'
      BY <1>1, <2>1, <2>3 DEF TcpInv, RemovalsOf
    <2> QED BY <2>2, <2>4 DEF TcpInv
  <1>4. ASSUME NEW c \in Conns, Request(c) PROVE TcpInv'
    <2>1. CASE Teardown(c)
      BY <1>1, <2>1, SameTcp DEF Teardown, Event, Readable, Open
    <2>2. CASE ~Teardown(c)
      <3>1. UNCHANGED <<tcp, rtspConnMap, pending>>
        BY <1>4, <2>2 DEF Request, Describe, Setup, Play, NullDereference
      <3> QED BY <1>2, <3>1
    <2> QED BY <2>1, <2>2
  <1>5. ASSUME NEW c \in Conns, PeerClose(c) PROVE TcpInv'
    <2>1. HandleClose(c, pending) /\ Open(c) BY <1>5 DEF PeerClose, Event, Readable
    <2>2. pending \in Seq(Functors) /\ RemovalsOf(pending)
      BY DEF TypeInv, TypeOK, OtherTypes, TcpInv
    <2> QED BY <2>1, <2>2, ClosingTcp
  <1>6. ASSUME NEW c \in Conns, TimerFires(c) PROVE TcpInv'
    <2> DEFINE f == [do |-> "forceClose", conn |-> c]
    <2>1. f \in Functors /\ f.do # "connectDestroyed" BY FunctorTypes
    <2>2. /\ pending' = Append(pending, f) \/ pending' = pending
          /\ rtspConnMap' = rtspConnMap
      BY <1>6 DEF TimerFires
    <2>3. \A d \in Conns : /\ Open(d)' <=> Open(d)
                           /\ tcp[d] = "disconnected" => tcp'[d] = "disconnected"
      BY <1>1, <1>6 DEF TimerFires, Open
    <2> QED BY <2>1, <2>2, <2>3, AppendKeepsTcp
  <1>7. CASE RunFunctor
    <2> DEFINE f == Head(pending)
               c == f.conn
    <2>1. running > 1 BY <1>7 DEF RunFunctor
    <2>2. c \in Conns /\ Tail(pending) \in Seq(Functors)
      BY <2>1, HeadTypes
    <2>3. RemovalsOf(Tail(pending)) BY <2>1, TailKeepsTcp
    <2>4. \A i \in 1 .. Len(Tail(pending)) : Tail(pending)[i].conn \in Conns
      BY <2>2 DEF Functors
    <2>5. CASE f.do = "connectDestroyed"
      <3>1. /\ tcp' = [tcp EXCEPT ![c] = "removed"] /\ pending' = Tail(pending)
            /\ rtspConnMap' = rtspConnMap
        BY <1>7, <2>5 DEF RunFunctor, RunConnectDestroyed
      <3>2. /\ tcp[c] = "disconnected"
            /\ \A i \in 1 .. Len(Tail(pending)) :
                  Tail(pending)[i].do = "connectDestroyed" => Tail(pending)[i].conn # c
        BY <2>1, <2>5, TailKeepsTcp
      <3>3. MapMatchesConnections'
        BY <1>1, <2>2, <3>1, <3>2 DEF TcpInv, MapMatchesConnections, Open
      <3>4. RemovalsOf(pending)'
        <4>1. \A i \in 1 .. Len(Tail(pending)) :
                 Tail(pending)[i].do = "connectDestroyed"
                   => tcp'[Tail(pending)[i].conn] = tcp[Tail(pending)[i].conn]
          BY <1>1, <2>4, <3>1, <3>2
        <4> DEFINE queue == Tail(pending)
        <4>2. pending' = queue BY <3>1
        <4> HIDE DEF queue, c
        <4>3. \A i \in 1 .. Len(queue), j \in 1 .. Len(queue) :
                 queue[i].do = "connectDestroyed" =>
                    /\ tcp'[queue[i].conn] = "disconnected"
                    /\ queue[j].do = "connectDestroyed" /\ queue[j].conn = queue[i].conn
                          => i = j
          BY <2>3, <4>1 DEF RemovalsOf, queue
        <4> QED BY <4>2, <4>3 DEF RemovalsOf
      <3> QED BY <3>3, <3>4 DEF TcpInv
    <2>6. CASE f.do = "forceClose" /\ Open(c)
      <3>1. HandleClose(c, Tail(pending))
        BY <1>7, <2>6 DEF RunFunctor, RunForceClose
      <3> QED BY <2>2, <2>3, <2>6, <3>1, ClosingTcp
    <2>7. CASE f.do # "connectDestroyed" /\ ~(f.do = "forceClose" /\ Open(c))
      <3>1. pending' = Tail(pending) /\ UNCHANGED <<tcp, rtspConnMap>>
        BY <1>7, <2>7 DEF RunFunctor, RunForceClose, RunRtp
      <3> QED BY <2>3, <3>1 DEF TcpInv, MapMatchesConnections, RemovalsOf, Open
    <2> QED BY <2>5, <2>6, <2>7
  <1>8. CASE BatchDone
    <2>1. \A c \in Conns : \/ tcp'[c] = tcp[c]
                           \/ tcp[c] = "removed" /\ tcp'[c] \in {"orphan", "destroyed"}
      <3> DEFINE removed == {c \in Conns : tcp[c] = "removed"}
                 gone == {c \in removed : ~HeldByPush(c)}
      <3>1. tcp' = [c \in Conns |-> IF c \in gone THEN "destroyed"
                                   ELSE IF c \in removed THEN "orphan" ELSE tcp[c]]
        BY <1>8 DEF BatchDone
      <3>2. gone \subseteq removed OBVIOUS
      <3> HIDE DEF gone
      <3> QED BY <3>1, <3>2
    <2>2. UNCHANGED <<rtspConnMap, pending>> BY <1>8 DEF BatchDone
    <2>3. \A c \in Conns : /\ Open(c)' <=> Open(c)
                           /\ tcp[c] = "disconnected" => tcp'[c] = "disconnected"
      BY <2>1 DEF Open
    <2> QED BY <2>2, <2>3, SameTcp
  <1>9. CASE QueuePacket
    <2> DEFINE f == [do |-> "sendRtpPacket", conn |-> Current, pkt |-> push.pkt]
    <2>1. push.todo # {} /\ push.pkt \in Packets
      BY <1>9 DEF QueuePacket, TypeInv, PushInv
    <2>2. f \in Functors /\ f.do # "connectDestroyed"
      BY <2>1, CurrentIsListed, FunctorTypes
    <2>3. pending' = Append(pending, f) /\ rtspConnMap' = rtspConnMap
      BY <1>9 DEF QueuePacket
    <2>4. \A d \in Conns : \/ tcp'[d] = tcp[d]
                           \/ tcp[d] = "orphan" /\ tcp'[d] = "destroyed"
      <3>1. \/ tcp[Current] = "orphan" /\ tcp' = [tcp EXCEPT ![Current] = "destroyed"]
            \/ tcp' = tcp
        BY <1>9 DEF QueuePacket
      <3>2. Current \in Conns BY <2>1, CurrentIsListed
      <3> QED BY <1>1, <3>1, <3>2
    <2>5. \A d \in Conns : /\ Open(d)' <=> Open(d)
                           /\ tcp[d] = "disconnected" => tcp'[d] = "disconnected"
      BY <2>4 DEF Open
    <2> HIDE DEF f
    <2> QED BY <2>2, <2>3, <2>5, AppendKeepsTcp
  <1>10. CASE SwapFunctors \/ Collect \/ CheckClient \/ ReleaseList
    <2>1. UNCHANGED <<tcp, rtspConnMap, pending>>
      BY <1>10 DEF SwapFunctors, Collect, CheckClient, ReleaseList
    <2> QED BY <1>2, <2>1
  <1>11. ASSUME NEW ch \in Channels, NEW type \in FrameTypes, NEW n \in 1 .. MaxFragments,
                PushFrame(ch, type, n)
         PROVE  TcpInv'
    <2>1. UNCHANGED <<tcp, rtspConnMap, pending>> BY <1>11 DEF PushFrame
    <2> QED BY <1>2, <2>1
  <1> QED BY <1>2, <1>3, <1>4, <1>5, <1>6, <1>7, <1>8, <1>9, <1>10, <1>11
          DEF vars, Next, Loop, Pushing

\* The entries of the map and the removals, in every reachable state.
THEOREM DeliveryConnections == Spec => []TcpInv
  <1>1. Init => TcpInv
    BY DEF Init, TcpInv, MapMatchesConnections, RemovalsOf, Open
  <1> QED BY <1>1, TcpStep, DeliveryTypes, PTL DEF Spec

\* onMessage finds the connection's entry whenever it is called.
THEOREM MapAlwaysMatches == Spec => []MapMatchesConnections
  <1>1. TcpInv => MapMatchesConnections BY DEF TcpInv
  <1> QED BY <1>1, DeliveryConnections, PTL

-----------------------------------------------------------------------------
(* The lifetime of RtpConnections.                                         *)

\* An RtpConnection is destroyed only behind a connection that has gone down,
\* and a session is described only together with one.
RtpInv ==
    /\ RtpConnectionOwned
    /\ PushUsesLiveConnections
    /\ \A c \in Conns : rtp[c].state = "freed" => tcp[c] # "none" /\ c \notin rtspConnMap
    /\ \A c \in described : rtp[c].state # "null"
    /\ SetupFindsRtpConnection

\* A step that creates and destroys no RtpConnection.
LEMMA StatesKept ==
    ASSUME TypeInv, RtpInv, push.list' = push.list, described' = described,
           rtspConnMap' = rtspConnMap, SetupFindsRtpConnection',
           \A c \in Conns : rtp'[c].state = rtp[c].state,
           \A c \in Conns : tcp[c] # "none" => tcp'[c] # "none"
    PROVE  RtpInv'
  <1>1. PushList' = PushList /\ PushList \subseteq Conns /\ described \subseteq Conns
    BY DEF PushList, TypeInv, TypeOK, OtherTypes, PushTypes, IsClientMap
  <1>2. \A c \in Conns : RtpAlive(c)' <=> RtpAlive(c)
    BY DEF RtpAlive
  <1>3. RtpConnectionOwned'
    BY <1>1, <1>2 DEF RtpInv, RtpConnectionOwned, InPushList
  <1>4. PushUsesLiveConnections'
    BY <1>1, <1>2 DEF RtpInv, PushUsesLiveConnections
  <1> QED BY <1>1, <1>3, <1>4 DEF RtpInv

\* A connection closes, and its RtpConnection is destroyed unless the push
\* thread's list has it.
LEMMA ClosingRtp ==
    ASSUME TypeInv, RtpInv, NEW c \in Conns, NEW queue \in Seq(Functors), Open(c),
           HandleClose(c, queue), UNCHANGED <<push, described, crashed>>
    PROVE  RtpInv'
  <1>1. /\ tcp' = [tcp EXCEPT ![c] = "disconnected"] /\ rtspConnMap' = rtspConnMap \ {c}
    BY DEF HandleClose, OnConnection
  <1>2. /\ \A d \in Conns \ {c} : rtp'[d] = rtp[d]
        /\ \/ rtp'[c] = rtp[c] /\ (RtpAlive(c) => InPushList(c))
           \/ ~InPushList(c) /\ rtp'[c].state = "freed"
    <2>1. CASE RtpAlive(c) /\ ~InPushList(c)
      <3>1. rtp' = Freed({c}) BY <2>1 DEF HandleClose
      <3>2. rtp'[c] = [rtp[c] EXCEPT !.state = "freed"] /\ \A d \in Conns \ {c} : rtp'[d] = rtp[d]
        BY <3>1, CloseTypes
      <3> QED BY <2>1, <3>2 DEF TypeInv, TypeOK, RtpTypes, RtpConnections
    <2>2. CASE ~(RtpAlive(c) /\ ~InPushList(c))
      <3>1. rtp' = rtp BY <2>2 DEF HandleClose
      <3> QED BY <2>2, <3>1
    <2> QED BY <2>1, <2>2
  <1>3. PushList' = PushList /\ PushList \subseteq Conns /\ described \subseteq Conns
    BY DEF PushList, TypeInv, TypeOK, OtherTypes, PushTypes, IsClientMap
  <1>4. tcp \in [Conns -> {"none", "connected", "disconnecting", "disconnected",
                           "removed", "orphan", "destroyed"}]
    BY DEF TypeInv, TypeOK, OtherTypes
  <1>5. RtpConnectionOwned'
    BY <1>1, <1>2, <1>3 DEF RtpInv, RtpConnectionOwned, InPushList, RtpAlive
  <1>6. PushUsesLiveConnections'
    BY <1>2, <1>3 DEF RtpInv, PushUsesLiveConnections, InPushList, RtpAlive
  <1>7. \A d \in Conns : rtp'[d].state = "freed"
                           => tcp'[d] # "none" /\ d \notin rtspConnMap'
    BY <1>1, <1>2, <1>4 DEF RtpInv
  <1>8. \A d \in described : rtp'[d].state # "null"
    BY <1>2, <1>3 DEF RtpInv
  <1>9. SetupFindsRtpConnection' BY DEF RtpInv, SetupFindsRtpConnection
  <1> QED BY <1>5, <1>6, <1>7, <1>8, <1>9 DEF RtpInv

\* Every step keeps RtpConnections alive while they are referred to.
LEMMA RtpStep == TypeInv /\ TcpInv /\ RtpInv /\ [Next]_vars => RtpInv'
  <1> SUFFICES ASSUME TypeInv, TcpInv, RtpInv, [Next]_vars PROVE RtpInv'
    OBVIOUS
  <1> USE DEF loopVars
  <1>1. /\ tcp \in [Conns -> {"none", "connected", "disconnecting", "disconnected",
                              "removed", "orphan", "destroyed"}]
        /\ rtp \in [Conns -> RtpConnections]
        /\ PushList \subseteq Conns /\ described \subseteq Conns
    BY DEF TypeInv, TypeOK, OtherTypes, RtpTypes, PushTypes, IsClientMap, PushList
  <1>2. SetupFindsRtpConnection BY DEF RtpInv
  <1>3. CASE UNCHANGED <<push, described, rtspConnMap, crashed, rtp>>
             /\ \A c \in Conns : tcp[c] # "none" => tcp'[c] # "none"
    BY <1>2, <1>3, StatesKept DEF SetupFindsRtpConnection
  <1>4. ASSUME NEW c \in Conns, Accept(c) PROVE RtpInv'
    <2>1. /\ tcp' = [tcp EXCEPT ![c] = "connected"] /\ rtspConnMap' = rtspConnMap \cup {c}
          /\ tcp[c] = "none" /\ UNCHANGED <<described, rtp, push, crashed>>
      BY <1>4 DEF Accept, OnConnection
    <2>2. PushList' = PushList BY <2>1 DEF PushList
    <2>3. RtpConnectionOwned' /\ PushUsesLiveConnections'
      BY <2>1, <2>2
      DEF RtpInv, RtpConnectionOwned, PushUsesLiveConnections, InPushList, RtpAlive
    <2>4. \A d \in Conns : rtp'[d].state = "freed"
                             => tcp'[d] # "none" /\ d \notin rtspConnMap'
      BY <1>1, <2>1 DEF RtpInv
    <2> QED BY <2>1, <2>3, <2>4 DEF RtpInv, SetupFindsRtpConnection
  <1>5. ASSUME NEW c \in Conns, NEW found \in BOOLEAN, Describe(c, found) PROVE RtpInv'
    <2>1. /\ rtp' = [rtp EXCEPT ![c].state = "alive"]
          /\ described' \subseteq described \cup {c} /\ Open(c)
          /\ UNCHANGED <<tcp, rtspConnMap, push, crashed>>
      BY <1>5 DEF Describe, RtpCreated, Event, Readable
    <2>2. /\ \A d \in Conns \ {c} : rtp'[d] = rtp[d]
          /\ rtp'[c].state = "alive"
      BY <1>1, <2>1 DEF RtpConnections
    <2>3. c \in rtspConnMap BY <2>1 DEF TcpInv, MapMatchesConnections
    <2>4. PushList' = PushList BY <2>1 DEF PushList
    <2>5. RtpConnectionOwned' /\ PushUsesLiveConnections'
      BY <1>1, <2>1, <2>2, <2>3, <2>4
      DEF RtpInv, RtpConnectionOwned, PushUsesLiveConnections, InPushList, RtpAlive
    <2>6. \A d \in described' : rtp'[d].state # "null"
      BY <1>1, <2>1, <2>2 DEF RtpInv
    <2>7. \A d \in Conns : rtp'[d].state = "freed" => tcp'[d] # "none" /\ d \notin rtspConnMap'
      BY <2>1, <2>2 DEF RtpInv
    <2> QED BY <2>1, <2>5, <2>6, <2>7 DEF RtpInv, SetupFindsRtpConnection
  <1>6. ASSUME NEW c \in Conns, NEW r, rtp' = [rtp EXCEPT ![c] = r], r.state = rtp[c].state,
               UNCHANGED <<push, described, rtspConnMap, crashed>>,
               \A d \in Conns : tcp[d] # "none" => tcp'[d] # "none"
        PROVE  RtpInv'
    <2>1. \A d \in Conns : rtp'[d].state = rtp[d].state
      BY <1>1, <1>6
    <2> QED BY <1>2, <1>6, <2>1, StatesKept DEF SetupFindsRtpConnection
  <1>7. ASSUME NEW c \in Conns, NEW ch \in Channels, Setup(c, ch) PROVE RtpInv'
    <2>1. UNCHANGED <<tcp, push, described, rtspConnMap, crashed>> BY <1>7 DEF Setup
    <2> QED BY <1>6, <1>7, <2>1, SetupRtp
  <1>8. ASSUME NEW c \in Conns, Play(c) PROVE RtpInv'
    <2>1. UNCHANGED <<tcp, push, described, rtspConnMap, crashed>>
          /\ rtp' = [rtp EXCEPT ![c] = PlayRtp(rtp[c])]
      BY <1>8 DEF Play
    <2>2. PlayRtp(rtp[c]).state = rtp[c].state BY <1>1 DEF PlayRtp, RtpConnections
    <2> QED BY <1>6, <2>1, <2>2
  <1>9. ASSUME NEW c \in Conns, Teardown(c) PROVE RtpInv'
    <2>1. /\ UNCHANGED <<push, described, rtspConnMap, crashed>>
          /\ rtp' = [rtp EXCEPT ![c] = TeardownRtp(rtp[c])]
          /\ tcp' = [tcp EXCEPT ![c] = "disconnecting"]
      BY <1>9 DEF Teardown
    <2>2. TeardownRtp(rtp[c]).state = rtp[c].state
      BY TeardownRtpType DEF TypeInv, TypeOK, RtpTypes
    <2>3. \A d \in Conns : tcp[d] # "none" => tcp'[d] # "none" BY <1>1, <2>1
    <2> QED BY <1>6, <2>1, <2>2, <2>3
  <1>10. ASSUME NEW c \in Conns, NEW cmd \in {"SETUP", "PLAY", "TEARDOWN"},
                NullDereference(c, cmd)
         PROVE  RtpInv'
    <2>1. UNCHANGED <<tcp, rtp, push, described, rtspConnMap>>
      BY <1>10 DEF NullDereference
    <2>2. SetupFindsRtpConnection'
      BY <1>10 DEF NullDereference, RtpInv, SetupFindsRtpConnection
    <2> QED BY <2>1, <2>2, StatesKept
  <1>11. ASSUME NEW c \in Conns, PeerClose(c) PROVE RtpInv'
    <2>1. pending \in Seq(Functors) BY DEF TypeInv, TypeOK, OtherTypes
    <2> QED BY <1>11, <2>1, ClosingRtp DEF PeerClose, Event, Readable
  <1>12. ASSUME NEW c \in Conns, TimerFires(c) PROVE RtpInv'
    BY <1>1, <1>3, <1>12 DEF TimerFires
  <1>13. CASE RunFunctor
    <2> DEFINE f == Head(pending)
               c == f.conn
    <2>1. running > 1 /\ UNCHANGED <<push, described>> BY <1>13 DEF RunFunctor
    <2>2. /\ c \in Conns /\ Tail(pending) \in Seq(Functors)
          /\ f.do = "sendRtpPacket" => f.pkt \in Packets
      BY <2>1, HeadTypes
    <2>3. CASE f.do = "forceClose" /\ Open(c)
      <3>1. HandleClose(c, Tail(pending)) /\ crashed' = crashed
        BY <1>13, <2>3 DEF RunFunctor, RunForceClose
      <3> QED BY <2>1, <2>2, <2>3, <3>1, ClosingRtp
    <2>4. CASE f.do = "sendRtpPacket" /\ SendPacket(c, f.pkt) /\ crashed' = crashed
      <3>1. SendPacket(c, f.pkt) /\ UNCHANGED <<tcp, rtspConnMap, crashed>>
        BY <1>13, <2>4 DEF RunFunctor, RunRtp
      <3>2. PICK r \in RtpConnections :
               rtp' = [rtp EXCEPT ![c] = r] /\ r.state = rtp[c].state
        BY <2>2, <2>4, <3>1, SendPacketType DEF Leaves
      <3> QED BY <1>6, <2>1, <2>2, <3>1, <3>2
    <2>5. CASE f.do = "sendRtpPacket" /\ ~(SendPacket(c, f.pkt) /\ crashed' = crashed)
      <3>1. UNCHANGED <<tcp, rtspConnMap, rtp>> /\ crashed' \in {"no", "functor"}
        BY <1>13, <2>5 DEF RunFunctor, RunRtp
      <3> QED BY <2>1, <3>1, StatesKept DEF SetupFindsRtpConnection
    <2>6. CASE f.do # "sendRtpPacket" /\ ~(f.do = "forceClose" /\ Open(c))
      <3>1. UNCHANGED <<rtspConnMap, rtp, crashed>>
            /\ (tcp' = tcp \/ tcp' = [tcp EXCEPT ![c] = "removed"])
        BY <1>13, <2>6 DEF RunFunctor, RunConnectDestroyed, RunForceClose
      <3> QED BY <1>1, <1>3, <2>1, <3>1
    <2> QED BY <2>3, <2>4, <2>5, <2>6
  <1>14. CASE BatchDone
    <2>1. /\ UNCHANGED <<push, described, rtspConnMap, crashed, rtp>>
          /\ \A c \in Conns : tcp[c] # "none" => tcp'[c] # "none"
      BY <1>14 DEF BatchDone
    <2> QED BY <1>3, <2>1
  <1>15. CASE Collect
    <2> DEFINE listed == {n \in DOMAIN clients : RtpAlive(clients[n]) /\ TcpAlive(clients[n])}
    <2>1. /\ push.pc = "collect"
          /\ push' = [push EXCEPT !.pc = "check", !.list = [n \in listed |-> clients[n]],
                                  !.todo = listed]
          /\ UNCHANGED <<tcp, rtspConnMap, described, rtp, crashed>>
      <3>1. listed = {n \in {m \in DOMAIN clients : RtpAlive(clients[m])} : TcpAlive(clients[n])}
        OBVIOUS
      <3> HIDE DEF listed
      <3> QED BY <1>15, <3>1 DEF Collect
    <2>2. push'.list = [n \in listed |-> clients[n]]
      BY <2>1 DEF TypeInv, TypeOK, PushTypes
    <2>3. PushUsesLiveConnections'
      BY <2>1, <2>2, ZenonT(30) DEF PushUsesLiveConnections, PushList, RtpAlive
    <2>4. PushList = {} BY <2>1 DEF PushList, TypeInv, PushInv
    <2>5. RtpConnectionOwned'
      BY <2>1, <2>4 DEF RtpInv, RtpConnectionOwned, InPushList, RtpAlive
    <2> QED BY <2>1, <2>3, <2>5 DEF RtpInv, SetupFindsRtpConnection
  <1>16. CASE CheckClient \/ QueuePacket
    <2>1. /\ UNCHANGED <<rtspConnMap, described, rtp, crashed>>
          /\ \/ push' = [push EXCEPT !.pc = "queue"]
             \/ push' = [push EXCEPT !.todo = Visited]
             \/ push' = [push EXCEPT !.pc = "check", !.todo = Visited]
          /\ tcp' = tcp \/ tcp' = [tcp EXCEPT ![Current] = "destroyed"]
      BY <1>16 DEF CheckClient, QueuePacket
    <2>2. push.list' = push.list BY <2>1 DEF TypeInv, TypeOK, PushTypes
    <2>3. \A d \in Conns : tcp[d] # "none" => tcp'[d] # "none" BY <1>1, <2>1
    <2> QED BY <1>2, <2>1, <2>2, <2>3, StatesKept DEF SetupFindsRtpConnection
  <1>17. CASE ReleaseList
    <2>1. /\ rtp' = Freed(Dying) /\ push'.list = NoClients
          /\ UNCHANGED <<tcp, rtspConnMap, described, crashed>>
      BY <1>17 DEF ReleaseList, TypeInv, TypeOK, PushTypes
    <2>2. PushList' = {} BY <2>1, NoClientsIsMap DEF PushList
    <2>3. PushUsesLiveConnections' BY <2>2 DEF PushUsesLiveConnections
    <2>4. \A d \in Conns : rtp'[d].state = IF d \in Dying THEN "freed" ELSE rtp[d].state
      BY <2>1, CloseTypes
    <2>5. RtpConnectionOwned'
      BY <2>1, <2>4 DEF RtpInv, RtpConnectionOwned, InPushList, Dying, RtpAlive
    <2>6. \A d \in Dying : tcp[d] # "none" /\ d \notin rtspConnMap
      BY DEF Dying, PushList, TypeInv, FdInv
    <2>7. \A d \in Conns : rtp'[d].state = "freed" => tcp'[d] # "none" /\ d \notin rtspConnMap'
      BY <2>1, <2>4, <2>6 DEF RtpInv
    <2>8. \A d \in described : rtp'[d].state # "null"
      BY <1>1, <2>4 DEF RtpInv
    <2> QED BY <2>1, <2>3, <2>5, <2>7, <2>8 DEF RtpInv, SetupFindsRtpConnection
  <1>18. ASSUME NEW ch \in Channels, NEW type \in FrameTypes, NEW n \in 1 .. MaxFragments,
                PushFrame(ch, type, n)
         PROVE  RtpInv'
    <2>1. push.list' = push.list /\ UNCHANGED <<tcp, rtspConnMap, described, rtp, crashed>>
      BY <1>18 DEF PushFrame, TypeInv, TypeOK, PushTypes
    <2> QED BY <1>2, <2>1, StatesKept DEF SetupFindsRtpConnection
  <1>19. CASE SwapFunctors \/ UNCHANGED vars
    BY <1>3, <1>19 DEF SwapFunctors, vars
  <1>20. ASSUME NEW c \in Conns, Request(c) PROVE RtpInv'
    BY <1>5, <1>7, <1>8, <1>9, <1>10, <1>20 DEF Request
  <1> QED BY <1>4, <1>11, <1>12, <1>13, <1>14, <1>15, <1>16, <1>17, <1>18, <1>19, <1>20
          DEF Next, Loop, Pushing

\* The lifetime of RtpConnections, in every reachable state.
THEOREM DeliveryLifetimes == Spec => []RtpInv
  <1>1. Init => RtpInv
    <2> SUFFICES ASSUME Init PROVE RtpInv OBVIOUS
    <2>1. \A c \in Conns : rtp[c].state = "null" BY DEF Init, NoRtp
    <2>2. PushList = {} BY NoClientsIsMap DEF Init, IdlePush, PushList
    <2>3. described = {} /\ crashed = "no" BY DEF Init
    <2> QED BY <2>1, <2>2, <2>3 DEF RtpInv, RtpConnectionOwned, PushUsesLiveConnections,
                                    SetupFindsRtpConnection, RtpAlive
  <1> QED BY <1>1, RtpStep, DeliveryTypes, DeliveryConnections, PTL DEF Spec

\* handleCmdSetup never dereferences a null _rtpConnPtr.
THEOREM SetupAlwaysFinds == Spec => []SetupFindsRtpConnection
  <1>1. RtpInv => SetupFindsRtpConnection BY DEF RtpInv
  <1> QED BY <1>1, DeliveryLifetimes, PTL

\* No live RtpConnection is left without an owner.
THEOREM RtpAlwaysOwned == Spec => []RtpConnectionOwned
  <1>1. RtpInv => RtpConnectionOwned BY DEF RtpInv
  <1> QED BY <1>1, DeliveryLifetimes, PTL

\* The push thread never uses a destroyed RtpConnection.
THEOREM PushAlwaysUsesLive == Spec => []PushUsesLiveConnections
  <1>1. RtpInv => PushUsesLiveConnections BY DEF RtpInv
  <1> QED BY <1>1, DeliveryLifetimes, PTL

-----------------------------------------------------------------------------
(* TEARDOWN.                                                               *)

\* TEARDOWN closes the RtpConnection for good, and no channel of a closed one
\* plays before the next PLAY.
TornInv ==
    \A c \in Conns : /\ torn[c] # 0 => rtp[c].isClosed
                     /\ rtp[c].isClosed /\ c \notin replayed => rtp[c].isPlay = {}

\* A step that closes one RtpConnection at most, with its channels stopped,
\* and lets no more channels play keeps it.
LEMMA NoMorePlaying ==
    ASSUME TornInv, torn' = torn, replayed' = replayed,
           \A c \in Conns : /\ rtp'[c].isPlay \subseteq rtp[c].isPlay
                            /\ rtp[c].isClosed => rtp'[c].isClosed
                            /\ rtp'[c].isClosed => rtp[c].isClosed \/ rtp'[c].isPlay = {}
    PROVE  TornInv'
  BY DEF TornInv

\* Every step keeps it: setup, a late functor and a destroyed RtpConnection
\* start no channel.
LEMMA TornStep == TypeInv /\ TornInv /\ [Next]_vars => TornInv'
  <1> SUFFICES ASSUME TypeInv, TornInv, [Next]_vars PROVE TornInv'
    OBVIOUS
  <1> USE DEF loopVars
  <1>1. /\ rtp \in [Conns -> RtpConnections] /\ torn \in [Conns -> Nat]
        /\ \A c \in Conns : rtp[c] \in RtpConnections /\ rtp[c].isPlay \subseteq rtp[c].isSetup
    BY DEF TypeInv, TypeOK, RtpTypes, OtherTypes
  <1>2. CASE UNCHANGED <<rtp, torn, replayed>>
    BY <1>2 DEF TornInv
  <1>3. ASSUME NEW S, rtp' = Freed(S), UNCHANGED <<torn, replayed>> PROVE TornInv'
    <2>1. \A d \in Conns : rtp'[d].isPlay = rtp[d].isPlay /\ rtp'[d].isClosed = rtp[d].isClosed
      BY <1>3, CloseTypes DEF SameButState
    <2> QED BY <1>3, <2>1, NoMorePlaying
  <1>4. ASSUME NEW c \in Conns, NEW r, rtp' = [rtp EXCEPT ![c] = r], UNCHANGED <<torn, replayed>>,
               r.isPlay \subseteq rtp[c].isPlay, rtp[c].isClosed => r.isClosed,
               r.isClosed => rtp[c].isClosed \/ r.isPlay = {}
        PROVE  TornInv'
    <2>1. rtp'[c] = r /\ \A d \in Conns \ {c} : rtp'[d] = rtp[d]
      BY <1>1, <1>4
    <2> QED BY <1>4, <2>1, NoMorePlaying
  <1>5. ASSUME NEW c \in Conns, NEW queue, HandleClose(c, queue), UNCHANGED <<torn, replayed>>
        PROVE  TornInv'
    <2>1. rtp' = Freed({c}) \/ rtp' = rtp BY <1>5 DEF HandleClose
    <2> QED BY <1>2, <1>3, <1>5, <2>1
  <1>6. ASSUME NEW c \in Conns, NEW found \in BOOLEAN, Describe(c, found) PROVE TornInv'
    <2> DEFINE r == [rtp[c] EXCEPT !.state = "alive"]
    <2>1. rtp' = [rtp EXCEPT ![c] = r] /\ UNCHANGED <<torn, replayed>>
      BY <1>6 DEF Describe, RtpCreated
    <2>2. r.isPlay = rtp[c].isPlay /\ r.isClosed = rtp[c].isClosed BY <1>1 DEF RtpConnections
    <2> QED BY <1>4, <2>1, <2>2
  <1>7. ASSUME NEW c \in Conns, NEW ch \in Channels, Setup(c, ch) PROVE TornInv'
    <2>1. UNCHANGED <<torn, replayed>> BY <1>7 DEF Setup
    <2> QED BY <1>4, <1>7, <2>1, SetupRtp
  <1>8. ASSUME NEW c \in Conns, Play(c) PROVE TornInv'
    <2> DEFINE r == PlayRtp(rtp[c])
    <2>1. /\ rtp' = [rtp EXCEPT ![c] = r] /\ torn' = torn
          /\ replayed' = IF rtp[c].isClosed THEN replayed \cup {c} ELSE replayed
      BY <1>8 DEF Play
    <2>2. r.isClosed = rtp[c].isClosed BY <1>1 DEF PlayRtp, RtpConnections
    <2> HIDE DEF r
    <2>3. rtp'[c] = r /\ \A d \in Conns \ {c} : rtp'[d] = rtp[d]
      BY <1>1, <2>1
    <2> QED BY <2>1, <2>2, <2>3 DEF TornInv
  <1>9. ASSUME NEW c \in Conns, Teardown(c) PROVE TornInv'
    <2> DEFINE r == TeardownRtp(rtp[c])
    <2>1. /\ rtp' = [rtp EXCEPT ![c] = r]
          /\ \A d \in Conns \ {c} : torn'[d] = torn[d]
          /\ replayed' = replayed
      BY <1>1, <1>9 DEF Teardown
    <2>2. /\ r.isPlay \subseteq rtp[c].isPlay /\ (~rtp[c].isClosed => r.isPlay = {})
          /\ r.isClosed
      BY <1>1, TeardownRtpType
    <2> HIDE DEF r
    <2>3. \A d \in Conns \ {c} : rtp'[d] = rtp[d] /\ torn'[d] = torn[d]
      BY <1>1, <2>1
    <2>4. rtp'[c] = r
      BY <1>1, <2>1
    <2> QED BY <2>1, <2>2, <2>3, <2>4 DEF TornInv
  <1>10. ASSUME NEW c \in Conns, Request(c) PROVE TornInv'
    <2>1. ASSUME NEW cmd \in {"SETUP", "PLAY", "TEARDOWN"}, NullDereference(c, cmd)
          PROVE  TornInv'
      BY <1>2, <2>1 DEF NullDereference
    <2> QED BY <1>6, <1>7, <1>8, <1>9, <1>10, <2>1 DEF Request
  <1>11. ASSUME NEW c \in Conns, Accept(c) \/ PeerClose(c) \/ TimerFires(c) PROVE TornInv'
    BY <1>2, <1>5, <1>11 DEF Accept, PeerClose, TimerFires
  <1>12. CASE RunFunctor
    <2> DEFINE f == Head(pending)
               c == f.conn
    <2>1. running > 1 /\ UNCHANGED <<torn, replayed>> BY <1>12 DEF RunFunctor
    <2>2. c \in Conns /\ (f.do = "sendRtpPacket" => f.pkt \in Packets)
      BY <2>1, HeadTypes
    <2>3. CASE f.do = "sendRtpPacket" /\ SendPacket(c, f.pkt)
      <3>1. f.pkt \in Packets BY <2>2, <2>3
      <3>2. PICK r \in RtpConnections : rtp' = [rtp EXCEPT ![c] = r] /\ Leaves(c, r)
        BY <2>2, <2>3, <3>1, SendPacketType
      <3> QED BY <1>4, <2>1, <2>2, <3>2 DEF Leaves
    <2>4. CASE HandleClose(c, Tail(pending))
      BY <1>5, <2>1, <2>2, <2>4
    <2>5. CASE rtp' = rtp
      BY <1>2, <2>1, <2>5
    <2> QED BY <1>12, <2>3, <2>4, <2>5
            DEF RunFunctor, RunRtp, RunConnectDestroyed, RunForceClose
  <1>13. CASE ReleaseList
    BY <1>3, <1>13 DEF ReleaseList
  <1>14. CASE \/ SwapFunctors \/ BatchDone \/ Collect \/ CheckClient \/ QueuePacket
              \/ UNCHANGED vars
    BY <1>2, <1>14 DEF SwapFunctors, BatchDone, Collect, CheckClient, QueuePacket, vars
  <1>15. ASSUME NEW ch \in Channels, NEW type \in FrameTypes, NEW n \in 1 .. MaxFragments,
                PushFrame(ch, type, n)
         PROVE  TornInv'
    BY <1>2, <1>15 DEF PushFrame
  <1> QED BY <1>10, <1>11, <1>12, <1>13, <1>14, <1>15 DEF Next, Loop, Pushing

\* No channel of a closed RtpConnection plays before the next PLAY, in every
\* reachable state.
THEOREM TornIsSilent == Spec => []TornInv
  <1>1. Init => TornInv BY DEF Init, TornInv, NoRtp
  <1> QED BY <1>1, TornStep, DeliveryTypes, PTL DEF Spec

\* Only a functor sends: on a channel of its connection that plays.
LEMMA OnlyFunctorsSend ==
    ASSUME TypeInv, [Next]_vars
    PROVE  \/ sent' = sent
           \/ LET f == Head(pending) IN
                /\ RunFunctor /\ running > 1 /\ f.do = "sendRtpPacket"
                /\ f.conn \in Conns /\ f.pkt \in Packets /\ SendPacket(f.conn, f.pkt)
                /\ pending' = Tail(pending)
                /\ UNCHANGED <<tcp, fd, rtspConnMap, push>>
  <1> USE DEF loopVars
  <1>1. CASE RunFunctor
    <2> DEFINE f == Head(pending)
    <2>1. running > 1 BY <1>1 DEF RunFunctor
    <2>2. f.conn \in Conns /\ (f.do = "sendRtpPacket" => f.pkt \in Packets)
      BY <2>1, HeadTypes
    <2>3. CASE f.do = "sendRtpPacket" /\ SendPacket(f.conn, f.pkt)
      <3>1. pending' = Tail(pending) /\ UNCHANGED <<tcp, fd, rtspConnMap, push>>
        BY <1>1, <2>3 DEF RunFunctor, RunRtp
      <3> QED BY <1>1, <2>1, <2>2, <2>3, <3>1
    <2>4. CASE sent' = sent
      BY <2>4
    <2> QED BY <1>1, <2>3, <2>4 DEF RunFunctor, RunRtp, RunConnectDestroyed, RunForceClose
  <1>2. CASE ~RunFunctor
    <2>1. ASSUME NEW c \in Conns, Accept(c) \/ Request(c) \/ PeerClose(c) \/ TimerFires(c)
          PROVE  sent' = sent
      BY <2>1 DEF Accept, Request, Describe, Setup, Play, Teardown, NullDereference, PeerClose,
                  TimerFires
    <2>2. ASSUME NEW ch \in Channels, NEW type \in FrameTypes, NEW n \in 1 .. MaxFragments,
                 PushFrame(ch, type, n)
          PROVE  sent' = sent
      BY <2>2 DEF PushFrame
    <2>3. CASE SwapFunctors \/ BatchDone \/ Pushing \/ UNCHANGED vars
      BY <2>3 DEF SwapFunctors, BatchDone, Pushing, Collect, CheckClient, QueuePacket,
                  ReleaseList, vars
    <2> QED BY <1>2, <2>1, <2>2, <2>3 DEF Next, Loop
  <1> QED BY <1>1, <1>2

\* From the first TEARDOWN on no packet is sent, unless a PLAY has followed
\* what teardown() did, although functors queued before are still run.
THEOREM TeardownSilences == Spec => NothingSentAfterTeardown
  <1> DEFINE Silent == \A c \in Conns : torn[c] # 0 /\ c \notin replayed => sent'[c] = sent[c]
  <1>1. ASSUME TypeInv, TornInv, [Next]_vars PROVE [Silent]_vars
    <2>1. CASE sent' = sent
      BY <2>1
    <2> DEFINE f == Head(pending)
               p == Given(f.conn, f.pkt)
    <2>2. CASE f.conn \in Conns /\ f.pkt \in Packets /\ SendPacket(f.conn, f.pkt)
      <3>1. \/ sent' = sent
            \/ /\ f.pkt.ch \in rtp[f.conn].isPlay
               /\ sent' = [sent EXCEPT ![f.conn] = Append(@, p)]
        BY <1>1, <2>2, SendPacketType DEF Sends
      <3>2. sent \in [Conns -> Seq(SentPackets)] BY <1>1 DEF TypeInv, TypeOK, OtherTypes
      <3> HIDE DEF p, f
      <3> QED BY <1>1, <3>1, <3>2 DEF TornInv
    <2> QED BY <1>1, <2>1, <2>2, OnlyFunctorsSend
  <1>2. TypeInv /\ TornInv /\ [Next]_vars => [Silent]_vars
    BY <1>1
  <1> QED BY <1>2, DeliveryTypes, TornIsSilent, PTL DEF Spec, NothingSentAfterTeardown

-----------------------------------------------------------------------------
(* The order of packets.                                                   *)

IsSend(f) == f.do = "sendRtpPacket"

\* A packet that was handed to connection c: one of an earlier round of the
\* push thread, or of this round if c has been visited.
Handed(c, id) ==
    \/ id <= push.count
    \/ id = push.count + 1 /\ push.pc \in {"check", "queue"} /\ fd[c] \notin push.todo

QueuedWereHanded ==
    \A i \in 1 .. Len(pending) :
        IsSend(pending[i]) => Handed(pending[i].conn, pending[i].pkt.id)

QueuedInOrder ==
    \A i \in 1 .. Len(pending), j \in 1 .. Len(pending) :
        i < j /\ IsSend(pending[i]) /\ IsSend(pending[j])
        /\ pending[i].conn = pending[j].conn => pending[i].pkt.id < pending[j].pkt.id

SentWereHanded ==
    \A c \in Conns : \A i \in 1 .. Len(sent[c]) :
        tcp[c] # "none" /\ Handed(c, sent[c][i].id)

SentBeforeQueued ==
    \A c \in Conns : \A i \in 1 .. Len(sent[c]), j \in 1 .. Len(pending) :
        IsSend(pending[j]) /\ pending[j].conn = c => sent[c][i].id < pending[j].pkt.id

SentInOrder ==
    \A c \in Conns : \A i \in 1 .. Len(sent[c]), j \in 1 .. Len(sent[c]) :
        i < j => sent[c][i].id < sent[c][j].id

\* Every connection gets the packets in the order of the source: behind what
\* it has sent come the packets queued for it, then those of later rounds.
OrderInv ==
    QueuedWereHanded /\ QueuedInOrder /\ SentWereHanded /\ SentBeforeQueued /\ SentInOrder

\* The types the order is about.
LEMMA OrderTypes ==
    ASSUME TypeInv
    PROVE  /\ Len(pending) \in Nat
           /\ \A i \in 1 .. Len(pending) :
                 /\ pending[i].conn \in Conns /\ tcp[pending[i].conn] # "none"
                 /\ IsSend(pending[i]) => pending[i].pkt.id \in Nat
           /\ \A c \in Conns : Len(sent[c]) \in Nat /\ sent[c] \in Seq(SentPackets)
           /\ \A c \in Conns : \A i \in 1 .. Len(sent[c]) :
                 sent[c][i].id \in Nat /\ sent[c][i].ch \in Channels
                 /\ sent[c][i].seq \in 0 .. SeqMod - 1
           /\ push.count \in Nat
  <1>1. pending \in Seq(Functors) /\ sent \in [Conns -> Seq(SentPackets)]
    BY DEF TypeInv, TypeOK, OtherTypes
  <1>2. \A f \in Functors : f.conn \in Conns /\ (IsSend(f) => f.pkt.id \in Nat)
    BY DEF Functors, Packets, IsSend
  <1>3. \A i \in 1 .. Len(pending) : pending[i] \in Functors
    BY <1>1
  <1>4. \A p \in SentPackets : p.id \in Nat /\ p.ch \in Channels /\ p.seq \in 0 .. SeqMod - 1
    BY DEF SentPackets
  <1>5. \A c \in Conns : \A i \in 1 .. Len(sent[c]) : sent[c][i] \in SentPackets
    BY <1>1
  <1>6. Len(pending) \in Nat /\ \A c \in Conns : Len(sent[c]) \in Nat
    BY <1>1
  <1>7. push.count \in Nat /\ \A i \in 1 .. Len(pending) : tcp[pending[i].conn] # "none"
    BY DEF TypeInv, TypeOK, PushTypes, FdInv
  <1> QED BY <1>1, <1>2, <1>3, <1>4, <1>5, <1>6, <1>7

\* Nothing is sent, functors other than packets join the queue, and the first
\* k functors leave it.
LEMMA OrderKept ==
    ASSUME TypeInv, OrderInv, NEW k \in Nat, sent' = sent,
           \A i \in 1 .. Len(pending') : IsSend(pending'[i]) =>
              i + k \in 1 .. Len(pending) /\ pending'[i] = pending[i + k],
           \A c \in Conns : tcp[c] # "none" => tcp'[c] # "none",
           \A c \in Conns, id \in Nat :
              tcp[c] # "none" /\ Handed(c, id) => Handed(c, id)',
           Len(pending') \in Nat
    PROVE  OrderInv'
  <1>1. QueuedWereHanded'
    BY OrderTypes DEF OrderInv, QueuedWereHanded
  <1>2. QueuedInOrder'
    <2> SUFFICES ASSUME NEW i \in 1 .. Len(pending'), NEW j \in 1 .. Len(pending'), i < j,
                        IsSend(pending'[i]), IsSend(pending'[j]),
                        pending'[i].conn = pending'[j].conn
                 PROVE  pending'[i].pkt.id < pending'[j].pkt.id
      BY DEF QueuedInOrder
    <2>1. /\ i + k \in 1 .. Len(pending) /\ pending'[i] = pending[i + k]
          /\ j + k \in 1 .. Len(pending) /\ pending'[j] = pending[j + k] /\ i + k < j + k
      OBVIOUS
    <2> QED BY <2>1 DEF OrderInv, QueuedInOrder
  <1>3. SentWereHanded'
    BY OrderTypes DEF OrderInv, SentWereHanded
  <1>4. SentBeforeQueued'
    BY DEF OrderInv, SentBeforeQueued
  <1>5. SentInOrder'
    BY DEF OrderInv, SentInOrder
  <1> QED BY <1>1, <1>2, <1>3, <1>4, <1>5 DEF OrderInv

\* A connection closes: the queue gets a functor that is no packet.
LEMMA ClosingOrder ==
    ASSUME NEW c \in Conns, NEW queue \in Seq(Functors), HandleClose(c, queue)
    PROVE  /\ Len(pending') \in Nat
           /\ \A i \in 1 .. Len(pending') : IsSend(pending'[i]) =>
                 i \in 1 .. Len(queue) /\ pending'[i] = queue[i]
  <1> DEFINE f == [do |-> "connectDestroyed", conn |-> c]
  <1>1. pending' = Append(queue, f) /\ ~IsSend(f)
    BY DEF HandleClose, RemoveConnection, IsSend
  <1> HIDE DEF f
  <1> QED BY <1>1

\* A packet is sent: its functor was the first in the queue.
LEMMA SendOrder ==
    ASSUME TypeInv, OrderInv, running > 1, IsSend(Head(pending)), pending' = Tail(pending),
           UNCHANGED <<tcp, fd, push>>,
           NEW p \in SentPackets, p.id = Head(pending).pkt.id,
           sent' = [sent EXCEPT ![Head(pending).conn] = Append(@, p)]
    PROVE  OrderInv'
  <1> DEFINE c == Head(pending).conn
  <1>1. /\ Len(pending) \in Nat /\ Len(pending) > 0 /\ c \in Conns
        /\ Head(pending) = pending[1]
        /\ Len(pending') = Len(pending) - 1
        /\ \A i \in 1 .. Len(pending) - 1 : pending'[i] = pending[i + 1]
    BY HeadTypes
  <1>2. \A i \in 1 .. Len(pending') : /\ pending'[i] = pending[i + 1]
                                      /\ i + 1 \in 1 .. Len(pending) /\ 1 < i + 1
    BY <1>1
  <1>3. 1 \in 1 .. Len(pending) BY <1>1
  <1>4. sent \in [Conns -> Seq(SentPackets)] BY DEF TypeInv, TypeOK, OtherTypes
  <1>5. /\ \A d \in Conns \ {c} : sent'[d] = sent[d]
        /\ Len(sent[c]) \in Nat /\ Len(sent'[c]) = Len(sent[c]) + 1
        /\ \A i \in 1 .. Len(sent[c]) : sent'[c][i] = sent[c][i]
        /\ sent'[c][Len(sent[c]) + 1] = p
    <2>1. sent'[c] = Append(sent[c], p) /\ sent[c] \in Seq(SentPackets)
      BY <1>1, <1>4
    <2>2. \A d \in Conns \ {c} : sent'[d] = sent[d]
      BY <1>1, <1>4
    <2> HIDE DEF c
    <2> QED BY <2>1, <2>2
  <1>6. \A d \in Conns, id \in Nat : Handed(d, id)' <=> Handed(d, id)
    BY DEF Handed
  <1>7. \A i \in 1 .. Len(pending) :
           /\ pending[i].conn \in Conns /\ tcp[pending[i].conn] # "none"
           /\ IsSend(pending[i]) => pending[i].pkt.id \in Nat
    BY OrderTypes
  <1>8. p.id \in Nat /\ tcp[c] # "none" /\ Handed(c, p.id)
    BY <1>1, <1>3, <1>7 DEF OrderInv, QueuedWereHanded
  <1>9. \A d \in Conns : \A i \in 1 .. Len(sent[d]) : sent[d][i].id \in Nat
    BY OrderTypes
  <1>10. QueuedWereHanded'
    BY <1>2, <1>6, <1>7 DEF OrderInv, QueuedWereHanded
  <1>11. QueuedInOrder'
    <2> SUFFICES ASSUME NEW i \in 1 .. Len(pending'), NEW j \in 1 .. Len(pending'), i < j,
                        IsSend(pending'[i]), IsSend(pending'[j]),
                        pending'[i].conn = pending'[j].conn
                 PROVE  pending'[i].pkt.id < pending'[j].pkt.id
      BY DEF QueuedInOrder
    <2>1. i + 1 < j + 1 BY <1>1
    <2> QED BY <1>2, <2>1 DEF OrderInv, QueuedInOrder
  <1>12. SentWereHanded'
    <2> SUFFICES ASSUME NEW d \in Conns, NEW i \in 1 .. Len(sent'[d])
                 PROVE  tcp'[d] # "none" /\ Handed(d, sent[d][i].id)'
      BY DEF SentWereHanded
    <2>1. CASE i \in 1 .. Len(sent[d]) /\ sent'[d][i] = sent[d][i]
      BY <1>6, <1>9, <2>1 DEF OrderInv, SentWereHanded
    <2>2. CASE d = c /\ sent'[d][i] = p
      BY <1>6, <1>8, <2>2
    <2> QED BY <1>5, <2>1, <2>2
  <1>13. SentBeforeQueued'
    <2> SUFFICES ASSUME NEW d \in Conns, NEW i \in 1 .. Len(sent'[d]),
                        NEW j \in 1 .. Len(pending'),
                        IsSend(pending'[j]), pending'[j].conn = d
                 PROVE  sent'[d][i].id < pending'[j].pkt.id
      BY DEF SentBeforeQueued
    <2>1. CASE i \in 1 .. Len(sent[d]) /\ sent'[d][i] = sent[d][i]
      BY <1>2, <2>1 DEF OrderInv, SentBeforeQueued
    <2>2. CASE d = c /\ sent'[d][i] = p
      BY <1>1, <1>2, <1>3, <2>2, SMTT(20) DEF OrderInv, QueuedInOrder
    <2> QED BY <1>5, <2>1, <2>2, SMTT(20)
  <1>14. SentInOrder'
    <2> SUFFICES ASSUME NEW d \in Conns, NEW i \in 1 .. Len(sent'[d]),
                        NEW j \in 1 .. Len(sent'[d]), i < j
                 PROVE  sent'[d][i].id < sent'[d][j].id
      BY DEF SentInOrder
    <2>1. CASE d # c
      BY <1>5, <2>1 DEF OrderInv, SentInOrder
    <2>2. CASE d = c /\ j \in 1 .. Len(sent[c])
      <3>1. i \in 1 .. Len(sent[c]) BY <1>5, <2>2
      <3> QED BY <1>5, <2>2, <3>1 DEF OrderInv, SentInOrder
    <2>3. CASE d = c /\ j = Len(sent[c]) + 1
      <3>1. i \in 1 .. Len(sent[c]) BY <1>5, <2>3
      <3>2. sent[c][i].id < pending[1].pkt.id
        BY <1>1, <1>3, <3>1 DEF OrderInv, SentBeforeQueued
      <3> QED BY <1>1, <1>5, <2>3, <3>1, <3>2
    <2> QED BY <1>5, <2>1, <2>2, <2>3
  <1> QED BY <1>10, <1>11, <1>12, <1>13, <1>14 DEF OrderInv

\* The push thread queues a packet: it is newer than whatever its client has
\* been handed.
LEMMA QueueOrder ==
    ASSUME TypeInv, OrderInv, QueuePacket
    PROVE  OrderInv'
  <1>0. PICK c : c = Current
    OBVIOUS
  <1> DEFINE f == [do |-> "sendRtpPacket", conn |-> c, pkt |-> push.pkt]
  <1>1. /\ push.pc = "queue" /\ pending' = Append(pending, f)
        /\ push' = [push EXCEPT !.pc = "check", !.todo = Visited]
        /\ UNCHANGED <<fd, sent>>
        /\ tcp' = tcp \/ tcp' = [tcp EXCEPT ![c] = "destroyed"]
    BY <1>0 DEF QueuePacket
  <1>2. push.todo # {} /\ push.pkt \in Packets /\ push.pkt.id = push.count + 1
    BY <1>1 DEF TypeInv, PushInv
  <1>3. c \in Conns /\ fd[c] = Highest(push.todo) /\ fd[c] \in push.todo
        /\ tcp[c] # "none"
    BY <1>0, <1>2, CurrentIsListed
  <1>4. f \in Functors BY <1>2, <1>3, FunctorTypes
  <1>5. f.conn = c /\ f.pkt.id = push.count + 1 /\ IsSend(f) BY <1>2 DEF IsSend
  <1> HIDE DEF f
  <1>6. /\ Len(pending) \in Nat /\ Len(pending') = Len(pending) + 1
        /\ \A i \in 1 .. Len(pending) : pending'[i] = pending[i]
        /\ pending'[Len(pending) + 1] = f
    BY <1>1, <1>4, QueueTypes
  <1>7. /\ push'.pc = "check" /\ push'.todo = push.todo \ {fd[c]} /\ push'.count = push.count
        /\ push.count \in Nat
    BY <1>1, <1>3 DEF TypeInv, TypeOK, PushTypes, Visited
  <1>8. /\ \A d \in Conns, id \in Nat : Handed(d, id) => Handed(d, id)'
        /\ Handed(c, push.count + 1)'
        /\ \A id \in Nat : Handed(c, id) => id < push.count + 1
    <2>1. fd' = fd /\ push.pc = "queue" BY <1>1
    <2>2. \A d \in Conns, id \in Nat : Handed(d, id) => Handed(d, id)'
      BY <1>7, <2>1 DEF Handed
    <2>3. Handed(c, push.count + 1)'
      BY <1>7, <2>1 DEF Handed
    <2>4. \A id \in Nat : Handed(c, id) => id < push.count + 1
      BY <1>3, <1>7 DEF Handed
    <2> QED BY <2>2, <2>3, <2>4
  <1>9. \A d \in Conns : tcp[d] # "none" => tcp'[d] # "none"
    BY <1>1 DEF TypeInv, TypeOK, OtherTypes
  <1>10. \A i \in 1 .. Len(pending) :
           /\ pending[i].conn \in Conns
           /\ IsSend(pending[i]) => pending[i].pkt.id \in Nat
    BY OrderTypes
  <1>11. \A d \in Conns : \A i \in 1 .. Len(sent[d]) : sent[d][i].id \in Nat
    BY OrderTypes
  <1>12. \A i \in 1 .. Len(pending') : i \in 1 .. Len(pending) \/ i = Len(pending) + 1
    BY <1>6
  <1>13. QueuedWereHanded'
    <2> SUFFICES ASSUME NEW i \in 1 .. Len(pending'), IsSend(pending'[i])
                 PROVE  Handed(pending[i].conn, pending[i].pkt.id)'
      BY DEF QueuedWereHanded
    <2>1. CASE i \in 1 .. Len(pending)
      BY <1>6, <1>8, <1>10, <2>1 DEF OrderInv, QueuedWereHanded
    <2>2. CASE i = Len(pending) + 1
      <3>1. pending'[i].conn = c /\ pending'[i].pkt.id = push'.count + 1
        BY <1>5, <1>6, <1>7, <2>2
      <3> QED BY <1>8, <3>1
    <2> QED BY <1>12, <2>1, <2>2
  <1>14. QueuedInOrder'
    <2> SUFFICES ASSUME NEW i \in 1 .. Len(pending'), NEW j \in 1 .. Len(pending'), i < j,
                        IsSend(pending'[i]), IsSend(pending'[j]),
                        pending'[i].conn = pending'[j].conn
                 PROVE  pending'[i].pkt.id < pending'[j].pkt.id
      BY DEF QueuedInOrder
    <2>1. i \in 1 .. Len(pending) BY <1>6, <1>12
    <2>2. CASE j \in 1 .. Len(pending)
      BY <1>6, <2>1, <2>2 DEF OrderInv, QueuedInOrder
    <2>3. CASE j = Len(pending) + 1
      <3>1. pending'[j] = f /\ pending'[i] = pending[i] BY <1>6, <2>1, <2>3
      <3>2. Handed(c, pending[i].pkt.id)
        BY <1>5, <2>1, <3>1 DEF OrderInv, QueuedWereHanded
      <3> QED BY <1>5, <1>8, <1>10, <2>1, <3>1, <3>2
    <2> QED BY <1>12, <2>2, <2>3
  <1>15. SentWereHanded'
    BY <1>1, <1>8, <1>9, <1>11 DEF OrderInv, SentWereHanded
  <1>16. SentBeforeQueued'
    <2> SUFFICES ASSUME NEW d \in Conns, NEW i \in 1 .. Len(sent[d]),
                        NEW j \in 1 .. Len(pending'),
                        IsSend(pending'[j]), pending'[j].conn = d
                 PROVE  sent[d][i].id < pending'[j].pkt.id
      BY <1>1 DEF SentBeforeQueued
    <2>1. CASE j \in 1 .. Len(pending)
      BY <1>6, <2>1 DEF OrderInv, SentBeforeQueued
    <2>2. CASE j = Len(pending) + 1
      <3>1. pending'[j] = f /\ d = c BY <1>5, <1>6, <2>2
      <3>2. Handed(c, sent[d][i].id)
        BY <3>1 DEF OrderInv, SentWereHanded
      <3> QED BY <1>5, <1>8, <1>11, <3>1, <3>2
    <2> QED BY <1>12, <2>1, <2>2
  <1>17. SentInOrder'
    BY <1>1 DEF OrderInv, SentInOrder
  <1> QED BY <1>13, <1>14, <1>15, <1>16, <1>17 DEF OrderInv

\* A connection that was accepted keeps its descriptor's number for good.
LEMMA AcceptedForGood ==
    ASSUME TypeInv, [Next]_vars
    PROVE  \A c \in Conns : tcp[c] # "none" => tcp'[c] # "none" /\ fd'[c] = fd[c]
  <1> USE DEF loopVars
  <1>1. /\ tcp \in [Conns -> {"none", "connected", "disconnecting", "disconnected",
                              "removed", "orphan", "destroyed"}]
        /\ fd \in [Conns -> 0 .. MaxFd]
    BY DEF TypeInv, TypeOK, OtherTypes
  <1>2. CASE UNCHANGED <<tcp, fd>>
    BY <1>2
  <1>3. ASSUME NEW c, NEW state, state # "none", tcp' = [tcp EXCEPT ![c] = state], fd' = fd
        PROVE  \A d \in Conns : tcp[d] # "none" => tcp'[d] # "none" /\ fd'[d] = fd[d]
    BY <1>1, <1>3
  <1>4. ASSUME NEW c \in Conns, Accept(c)
        PROVE  \A d \in Conns : tcp[d] # "none" => tcp'[d] # "none" /\ fd'[d] = fd[d]
    <2>1. /\ tcp' = [tcp EXCEPT ![c] = "connected"]
          /\ fd' = [fd EXCEPT ![c] = LowestFree(owner)] /\ tcp[c] = "none"
      BY <1>4 DEF Accept
    <2> QED BY <1>1, <2>1
  <1>5. ASSUME NEW c \in Conns, Request(c) \/ PeerClose(c) \/ TimerFires(c)
        PROVE  UNCHANGED <<tcp, fd>>
               \/ (fd' = fd /\ \E state : state # "none" /\ tcp' = [tcp EXCEPT ![c] = state])
    <2>1. fd' = fd
      BY <1>5 DEF Request, Describe, Setup, Play, Teardown, NullDereference, PeerClose, TimerFires
    <2>2. \/ tcp' = tcp \/ tcp' = [tcp EXCEPT ![c] = "disconnecting"]
          \/ tcp' = [tcp EXCEPT ![c] = "disconnected"]
      BY <1>5 DEF Request, Describe, Setup, Play, Teardown, NullDereference, PeerClose,
                  TimerFires, HandleClose
    <2> QED BY <2>1, <2>2
  <1>6. CASE RunFunctor
    <2>1. fd' = fd BY <1>6 DEF RunFunctor
    <2>2. \/ tcp' = tcp \/ tcp' = [tcp EXCEPT ![Head(pending).conn] = "disconnected"]
          \/ tcp' = [tcp EXCEPT ![Head(pending).conn] = "removed"]
      BY <1>6 DEF RunFunctor, RunRtp, RunConnectDestroyed, RunForceClose, HandleClose
    <2> QED BY <1>2, <1>3, <2>1, <2>2
  <1>7. CASE BatchDone
    BY <1>7 DEF BatchDone
  <1>8. CASE QueuePacket
    <2>1. fd' = fd /\ (tcp' = tcp \/ tcp' = [tcp EXCEPT ![Current] = "destroyed"])
      BY <1>8 DEF QueuePacket
    <2> QED BY <1>2, <1>3, <2>1
  <1>9. CASE SwapFunctors \/ Collect \/ CheckClient \/ ReleaseList \/ UNCHANGED vars
    BY <1>2, <1>9 DEF SwapFunctors, Collect, CheckClient, ReleaseList, vars
  <1>10. ASSUME NEW ch \in Channels, NEW type \in FrameTypes, NEW n \in 1 .. MaxFragments,
                PushFrame(ch, type, n)
         PROVE  UNCHANGED <<tcp, fd>>
    BY <1>10 DEF PushFrame
  <1> QED BY <1>2, <1>3, <1>4, <1>5, <1>6, <1>7, <1>8, <1>9, <1>10 DEF Next, Loop, Pushing

\* Every step keeps the order of the packets.
LEMMA OrderStep == TypeInv /\ OrderInv /\ [Next]_vars => OrderInv'
  <1> SUFFICES ASSUME TypeInv, OrderInv, [Next]_vars PROVE OrderInv'
    OBVIOUS
  <1> USE DEF loopVars
  <1>1. \A c \in Conns : tcp[c] # "none" => tcp'[c] # "none" /\ fd'[c] = fd[c]
    BY AcceptedForGood
  <1>2. pending \in Seq(Functors) /\ Len(pending) \in Nat /\ push.count \in Nat
    BY DEF TypeInv, TypeOK, OtherTypes, PushTypes
  <1>3. ASSUME push' = push
        PROVE  \A c \in Conns, id \in Nat :
                  tcp[c] # "none" /\ Handed(c, id) => Handed(c, id)'
    BY <1>1, <1>3 DEF Handed
  <1>4. CASE UNCHANGED <<push, pending, sent>>
    <2>1. \A i \in 1 .. Len(pending') : IsSend(pending'[i]) =>
              i + 0 \in 1 .. Len(pending) /\ pending'[i] = pending[i + 0]
      BY <1>2, <1>4
    <2> QED BY <1>1, <1>2, <1>3, <1>4, <2>1, OrderKept
  <1>5. ASSUME NEW c \in Conns, PeerClose(c) PROVE OrderInv'
    <2>1. HandleClose(c, pending) /\ UNCHANGED <<push, sent>> BY <1>5 DEF PeerClose
    <2>2. /\ Len(pending') \in Nat
          /\ \A i \in 1 .. Len(pending') : IsSend(pending'[i]) =>
                i \in 1 .. Len(pending) /\ pending'[i] = pending[i]
      BY <1>2, <2>1, ClosingOrder
    <2>3. \A i \in 1 .. Len(pending') : IsSend(pending'[i]) =>
              i + 0 \in 1 .. Len(pending) /\ pending'[i] = pending[i + 0]
      BY <2>2
    <2> QED BY <1>1, <1>3, <2>1, <2>2, <2>3, OrderKept
  <1>6. ASSUME NEW c \in Conns, TimerFires(c) PROVE OrderInv'
    <2> DEFINE f == [do |-> "forceClose", conn |-> c]
    <2>1. UNCHANGED <<push, sent>> /\ (pending' = pending \/ pending' = Append(pending, f))
      BY <1>6 DEF TimerFires
    <2>2. f \in Functors /\ ~IsSend(f) BY FunctorTypes DEF IsSend
    <2> HIDE DEF f
    <2>3. /\ Len(pending') \in Nat
          /\ \A i \in 1 .. Len(pending') : IsSend(pending'[i]) =>
                i + 0 \in 1 .. Len(pending) /\ pending'[i] = pending[i + 0]
      BY <1>2, <2>1, <2>2
    <2> QED BY <1>1, <1>3, <2>1, <2>3, OrderKept
  <1>7. CASE RunFunctor
    <2> DEFINE f == Head(pending)
               c == f.conn
    <2>1. running > 1 /\ UNCHANGED <<fd, push>> BY <1>7 DEF RunFunctor
    <2>2. /\ c \in Conns /\ Tail(pending) \in Seq(Functors)
          /\ Len(Tail(pending)) = Len(pending) - 1
          /\ \A i \in 1 .. Len(pending) - 1 : Tail(pending)[i] = pending[i + 1]
      BY <2>1, HeadTypes
    <2>3. \A i \in 1 .. Len(Tail(pending)) :
             i + 1 \in 1 .. Len(pending) /\ Tail(pending)[i] = pending[i + 1]
      BY <1>2, <2>2
    <2>4. CASE HandleClose(c, Tail(pending)) /\ sent' = sent
      <3>1. /\ Len(pending') \in Nat
            /\ \A i \in 1 .. Len(pending') : IsSend(pending'[i]) =>
                  i \in 1 .. Len(Tail(pending)) /\ pending'[i] = Tail(pending)[i]
        BY <2>2, <2>4, ClosingOrder
      <3>2. \A i \in 1 .. Len(pending') : IsSend(pending'[i]) =>
                  i + 1 \in 1 .. Len(pending) /\ pending'[i] = pending[i + 1]
        BY <2>3, <3>1
      <3> QED BY <1>1, <1>3, <2>1, <2>4, <3>1, <3>2, OrderKept
    <2>5. CASE pending' = Tail(pending) /\ sent' = sent
      <3>1. /\ Len(pending') \in Nat
            /\ \A i \in 1 .. Len(pending') : IsSend(pending'[i]) =>
                  i + 1 \in 1 .. Len(pending) /\ pending'[i] = pending[i + 1]
        BY <2>2, <2>3, <2>5
      <3> QED BY <1>1, <1>3, <2>1, <2>5, <3>1, OrderKept
    <2>6. CASE f.do = "sendRtpPacket" /\ SendPacket(c, f.pkt)
      <3> DEFINE p == Given(c, f.pkt)
      <3>1. f.pkt \in Packets BY <2>1, <2>6, HeadTypes
      <3>2. sent' = sent \/ sent' = [sent EXCEPT ![c] = Append(@, p)]
        BY <2>2, <2>6, <3>1, SendPacketType DEF Sends
      <3>3. pending' = Tail(pending) /\ tcp' = tcp
        BY <1>7, <2>6 DEF RunFunctor, RunRtp
      <3>4. p \in SentPackets /\ p.id = f.pkt.id BY <2>2, <3>1, GivenType
      <3> HIDE DEF p
      <3> QED BY <2>1, <2>5, <2>6, <3>2, <3>3, <3>4, SendOrder DEF IsSend
    <2> QED BY <1>7, <2>4, <2>5, <2>6
            DEF RunFunctor, RunRtp, RunConnectDestroyed, RunForceClose
  <1>8. CASE QueuePacket
    BY <1>8, QueueOrder
  <1>9. ASSUME UNCHANGED <<fd, pending, sent>>,
               \A c \in Conns, id \in Nat :
                  tcp[c] # "none" /\ Handed(c, id) => Handed(c, id)'
        PROVE  OrderInv'
    <2>1. \A i \in 1 .. Len(pending') : IsSend(pending'[i]) =>
              i + 0 \in 1 .. Len(pending) /\ pending'[i] = pending[i + 0]
      BY <1>2, <1>9
    <2> QED BY <1>1, <1>2, <1>9, <2>1, OrderKept
  <1>10. CASE Collect
    <2>1. push.pc = "collect" /\ push'.count = push.count /\ UNCHANGED <<fd, pending, sent>>
      BY <1>10 DEF Collect, TypeInv, TypeOK, PushTypes
    <2>2. \A c \in Conns, id \in Nat : Handed(c, id) => Handed(c, id)'
      BY <2>1 DEF Handed
    <2> QED BY <1>9, <2>1, <2>2
  <1>11. CASE CheckClient
    <2>1. /\ push.pc = "check" /\ UNCHANGED <<fd, pending, sent>>
          /\ \/ push' = [push EXCEPT !.pc = "queue"]
             \/ push' = [push EXCEPT !.todo = Visited]
      BY <1>11 DEF CheckClient
    <2>2. push'.count = push.count /\ push'.pc \in {"check", "queue"}
          /\ push'.todo \subseteq push.todo
      BY <2>1 DEF Visited, TypeInv, TypeOK, PushTypes
    <2>3. \A c \in Conns, id \in Nat : Handed(c, id) => Handed(c, id)'
      BY <2>1, <2>2 DEF Handed
    <2> QED BY <1>9, <2>1, <2>3
  <1>12. CASE ReleaseList
    <2>1. UNCHANGED <<fd, pending, sent>> /\ push'.count = push.count + 1
      BY <1>12 DEF ReleaseList, TypeInv, TypeOK, PushTypes
    <2>2. \A c \in Conns, id \in Nat : Handed(c, id) => Handed(c, id)'
      BY <1>2, <2>1 DEF Handed
    <2> QED BY <1>9, <2>1, <2>2
  <1>13. ASSUME NEW ch \in Channels, NEW type \in FrameTypes, NEW n \in 1 .. MaxFragments,
                PushFrame(ch, type, n)
         PROVE  OrderInv'
    <2>1. /\ push.pc = "idle" /\ UNCHANGED <<fd, pending, sent>> /\ push'.count = push.count
      BY <1>13 DEF PushFrame, TypeInv, TypeOK, PushTypes
    <2>2. \A c \in Conns, id \in Nat : Handed(c, id) => Handed(c, id)'
      BY <2>1 DEF Handed
    <2> QED BY <1>9, <2>1, <2>2
  <1>14. ASSUME NEW c \in Conns, Accept(c) \/ Request(c) PROVE OrderInv'
    BY <1>4, <1>14 DEF Accept, Request, Describe, Setup, Play, Teardown, NullDereference
  <1>15. CASE SwapFunctors \/ BatchDone \/ UNCHANGED vars
    BY <1>4, <1>15 DEF SwapFunctors, BatchDone, vars
  <1> QED BY <1>5, <1>6, <1>7, <1>8, <1>10, <1>11, <1>12, <1>13, <1>14, <1>15
          DEF Next, Loop, Pushing

\* The order of packets, in every reachable state.
THEOREM DeliveryInOrder == Spec => []OrderInv
  <1>1. Init => OrderInv
    BY DEF Init, OrderInv, QueuedWereHanded, QueuedInOrder, SentWereHanded, SentBeforeQueued,
           SentInOrder
  <1> QED BY <1>1, OrderStep, DeliveryTypes, PTL DEF Spec

-----------------------------------------------------------------------------
(* What is sent after TEARDOWN in spite of it.                             *)

\* Only packets that the push thread had begun with at the first TEARDOWN are
\* queued, about to be queued or sent for a connection.
BegunBefore ==
    \A c \in Conns : torn[c] # 0 =>
       /\ \A i \in 1 .. Len(pending) :
             IsSend(pending[i]) /\ pending[i].conn = c => pending[i].pkt.id < torn[c]
       /\ HeldByPush(c) => push.pkt.id < torn[c]
       /\ \A i \in 1 .. Len(sent[c]) : sent[c][i].id < torn[c]

\* A packet waits in the queue already, or is the one sendRtpPacket queues.
LEMMA QueuedByPush ==
    ASSUME TypeInv, [Next]_vars, NEW i \in 1 .. Len(pending'), IsSend(pending'[i])
    PROVE  \/ \E j \in 1 .. Len(pending) : pending'[i] = pending[j]
           \/ /\ QueuePacket
              /\ pending'[i].conn = Current /\ pending'[i].pkt = push.pkt
  <1> USE DEF loopVars
  <1> DEFINE Goal == \E j \in 1 .. Len(pending) : pending'[i] = pending[j]
  <1>1. pending \in Seq(Functors) /\ Len(pending) \in Nat
    BY DEF TypeInv, TypeOK, OtherTypes
  <1>2. CASE pending' = pending
    BY <1>2
  <1>3. ASSUME NEW c \in Conns, HandleClose(c, pending) PROVE Goal
    BY <1>1, <1>3, ClosingOrder
  <1>4. ASSUME NEW c \in Conns, TimerFires(c) PROVE Goal
    <2> DEFINE f == [do |-> "forceClose", conn |-> c]
    <2>1. pending' = pending \/ pending' = Append(pending, f)
      BY <1>4 DEF TimerFires
    <2>2. f \in Functors /\ ~IsSend(f) BY FunctorTypes DEF IsSend
    <2> HIDE DEF f
    <2> QED BY <1>1, <2>1, <2>2
  <1>5. CASE RunFunctor
    <2>1. running > 1 BY <1>5 DEF RunFunctor
    <2>2. /\ Head(pending).conn \in Conns /\ Tail(pending) \in Seq(Functors)
          /\ Len(Tail(pending)) = Len(pending) - 1
          /\ \A j \in 1 .. Len(pending) - 1 : Tail(pending)[j] = pending[j + 1]
      BY <2>1, HeadTypes
    <2>3. \A j \in 1 .. Len(Tail(pending)) :
             j + 1 \in 1 .. Len(pending) /\ Tail(pending)[j] = pending[j + 1]
      BY <1>1, <2>2
    <2>4. CASE HandleClose(Head(pending).conn, Tail(pending))
      <3>1. i \in 1 .. Len(Tail(pending)) /\ pending'[i] = Tail(pending)[i]
        BY <2>2, <2>4, ClosingOrder
      <3> QED BY <2>3, <3>1
    <2>5. CASE pending' = Tail(pending)
      BY <2>3, <2>5
    <2> QED BY <1>5, <2>4, <2>5 DEF RunFunctor, RunRtp, RunConnectDestroyed, RunForceClose
  <1>6. CASE QueuePacket
    <2> DEFINE f == [do |-> "sendRtpPacket", conn |-> Current, pkt |-> push.pkt]
    <2>1. pending' = Append(pending, f) BY <1>6 DEF QueuePacket
    <2>2. f.conn = Current /\ f.pkt = push.pkt OBVIOUS
    <2> HIDE DEF f
    <2>3. \/ i \in 1 .. Len(pending) /\ pending'[i] = pending[i]
          \/ pending'[i] = f
      BY <1>1, <2>1
    <2> QED BY <1>6, <2>2, <2>3
  <1>7. ASSUME NEW c \in Conns, Accept(c) \/ Request(c) \/ PeerClose(c) PROVE Goal
    BY <1>2, <1>3, <1>7 DEF Accept, Request, Describe, Setup, Play, Teardown, NullDereference,
                            PeerClose
  <1>8. ASSUME NEW ch \in Channels, NEW type \in FrameTypes, NEW n \in 1 .. MaxFragments,
               PushFrame(ch, type, n)
        PROVE  Goal
    BY <1>2, <1>8 DEF PushFrame
  <1>9. CASE \/ SwapFunctors \/ BatchDone \/ Collect \/ CheckClient \/ ReleaseList
             \/ UNCHANGED vars
    BY <1>2, <1>9 DEF SwapFunctors, BatchDone, Collect, CheckClient, ReleaseList, vars
  <1> QED BY <1>4, <1>5, <1>6, <1>7, <1>8, <1>9 DEF Next, Loop, Pushing

\* sendRtpPacket comes to queueing a packet only past its check of _isClosed.
LEMMA HeldPastCheck ==
    ASSUME TypeInv, [Next]_vars, NEW c \in Conns, HeldByPush(c)'
    PROVE  \/ HeldByPush(c) /\ push' = push
           \/ CheckClient /\ ~rtp[c].isClosed
  <1> USE DEF loopVars
  <1>1. CASE push' = push
    BY <1>1 DEF HeldByPush, Current
  <1>2. CASE CheckClient
    <2>1. push.pc = "check" BY <1>2 DEF CheckClient
    <2>2. push'.pc = "queue" /\ Current' = c BY DEF HeldByPush
    <2>3. CASE push' = [push EXCEPT !.pc = "queue"] /\ ~rtp[Current].isClosed
      <3>1. push'.list = push.list /\ push'.todo = push.todo
        BY <2>3 DEF TypeInv, TypeOK, PushTypes
      <3>2. Current' = Current BY <3>1 DEF Current
      <3> QED BY <1>2, <2>2, <2>3, <3>2
    <2>4. CASE push' = [push EXCEPT !.todo = Visited]
      <3>1. push'.pc = "check" BY <2>1, <2>4 DEF TypeInv, TypeOK, PushTypes
      <3> QED BY <2>2, <3>1
    <2> QED BY <1>2, <2>3, <2>4 DEF CheckClient
  <1>3. CASE push'.pc # "queue"
    BY <1>3 DEF HeldByPush
  <1>4. ASSUME NEW d \in Conns, Accept(d) \/ Request(d) \/ PeerClose(d) \/ TimerFires(d)
        PROVE  push' = push
    BY <1>4 DEF Accept, Request, Describe, Setup, Play, Teardown, NullDereference, PeerClose,
                TimerFires
  <1>5. ASSUME NEW ch \in Channels, NEW type \in FrameTypes, NEW n \in 1 .. MaxFragments,
               PushFrame(ch, type, n)
        PROVE  push'.pc # "queue"
    BY <1>5 DEF PushFrame, TypeInv, TypeOK, PushTypes
  <1>6. CASE Collect \/ QueuePacket \/ ReleaseList
    <2>1. push'.pc # "queue"
      BY <1>6 DEF Collect, QueuePacket, ReleaseList, TypeInv, TypeOK, PushTypes
    <2> QED BY <1>3, <2>1
  <1>7. CASE Loop \/ UNCHANGED vars
    BY <1>1, <1>7 DEF Loop, SwapFunctors, RunFunctor, BatchDone, vars
  <1> QED BY <1>1, <1>2, <1>3, <1>4, <1>5, <1>6, <1>7 DEF Next, Pushing

\* What a step sends was at the head of the queue.
LEMMA SentFromQueue ==
    ASSUME TypeInv, [Next]_vars, NEW c \in Conns, NEW i \in 1 .. Len(sent'[c])
    PROVE  \/ i \in 1 .. Len(sent[c]) /\ sent'[c][i] = sent[c][i]
           \/ \E j \in 1 .. Len(pending) : /\ IsSend(pending[j]) /\ pending[j].conn = c
                                           /\ sent'[c][i].id = pending[j].pkt.id
  <1> DEFINE f == Head(pending)
             p == Given(f.conn, f.pkt)
  <1>1. sent \in [Conns -> Seq(SentPackets)]
    BY DEF TypeInv, TypeOK, OtherTypes
  <1>2. CASE sent' = sent
    BY <1>2
  <1>3. CASE /\ running > 1 /\ f.do = "sendRtpPacket"
             /\ f.conn \in Conns /\ f.pkt \in Packets /\ SendPacket(f.conn, f.pkt)
    <2>1. sent' = sent \/ sent' = [sent EXCEPT ![f.conn] = Append(@, p)]
      BY <1>3, SendPacketType DEF Sends
    <2>2. f = pending[1] /\ 1 \in 1 .. Len(pending) /\ IsSend(f)
      BY <1>3, HeadTypes DEF IsSend
    <2>3. p.id = f.pkt.id BY <1>3, GivenType
    <2> HIDE DEF p, f
    <2>4. CASE sent' = [sent EXCEPT ![f.conn] = Append(@, p)]
      <3>1. CASE c # f.conn
        BY <1>1, <2>4, <3>1
      <3>2. CASE c = f.conn
        <4>1. sent'[c] = Append(sent[c], p) /\ sent[c] \in Seq(SentPackets)
          BY <1>1, <2>4, <3>2
        <4>2. \/ i \in 1 .. Len(sent[c]) /\ sent'[c][i] = sent[c][i]
              \/ sent'[c][i] = p
          BY <4>1
        <4> QED BY <2>2, <2>3, <3>2, <4>2
      <3> QED BY <3>1, <3>2
    <2> QED BY <1>2, <2>1, <2>4
  <1> QED BY <1>2, <1>3, OnlyFunctorsSend

\* Every step keeps it: the check of _isClosed lets no later packet pass.
LEMMA BegunStep == TypeInv /\ TornInv /\ OrderInv /\ BegunBefore /\ [Next]_vars => BegunBefore'
  <1> SUFFICES ASSUME TypeInv, TornInv, OrderInv, BegunBefore, [Next]_vars,
                      NEW c \in Conns, torn'[c] # 0
               PROVE  /\ \A i \in 1 .. Len(pending') :
                            IsSend(pending'[i]) /\ pending'[i].conn = c
                               => pending'[i].pkt.id < torn'[c]
                      /\ HeldByPush(c)' => push'.pkt.id < torn'[c]
                      /\ \A i \in 1 .. Len(sent'[c]) : sent'[c][i].id < torn'[c]
    BY DEF BegunBefore
  <1> USE DEF loopVars
  <1>1. CASE torn'[c] = torn[c]
    <2>1. torn[c] # 0 /\ rtp[c].isClosed
      BY <1>1 DEF TornInv
    <2>2. ASSUME NEW i \in 1 .. Len(pending'), IsSend(pending'[i]), pending'[i].conn = c
          PROVE  pending'[i].pkt.id < torn'[c]
      <3>1. CASE \E j \in 1 .. Len(pending) : pending'[i] = pending[j]
        BY <1>1, <2>1, <2>2, <3>1 DEF BegunBefore
      <3>2. CASE QueuePacket /\ pending'[i].conn = Current /\ pending'[i].pkt = push.pkt
        <4>1. HeldByPush(c) BY <2>2, <3>2 DEF HeldByPush, QueuePacket
        <4> QED BY <1>1, <2>1, <3>2, <4>1 DEF BegunBefore
      <3> QED BY <2>2, <3>1, <3>2, QueuedByPush
    <2>3. ASSUME HeldByPush(c)' PROVE push'.pkt.id < torn'[c]
      BY <1>1, <2>1, <2>3, HeldPastCheck DEF BegunBefore
    <2>4. ASSUME NEW i \in 1 .. Len(sent'[c]) PROVE sent'[c][i].id < torn'[c]
      BY <1>1, <2>1, SentFromQueue DEF BegunBefore
    <2> QED BY <2>2, <2>3, <2>4
  <1>2. CASE Teardown(c) /\ torn[c] = 0
    <2>1. torn'[c] = Upcoming /\ UNCHANGED <<pending, push, sent>>
      BY <1>2 DEF Teardown, TypeInv, TypeOK, OtherTypes
    <2>2. \A id \in Nat : Handed(c, id) => id < Upcoming
      BY UpcomingType DEF Handed
    <2>3. \A i \in 1 .. Len(pending) : IsSend(pending[i]) /\ pending[i].conn = c
                                        => pending[i].pkt.id < Upcoming
      BY <2>2, OrderTypes DEF OrderInv, QueuedWereHanded
    <2>4. \A i \in 1 .. Len(sent[c]) : sent[c][i].id < Upcoming
      BY <2>2, OrderTypes DEF OrderInv, SentWereHanded
    <2>5. HeldByPush(c)' => push.pkt.id < Upcoming
      BY <2>1, UpcomingType DEF HeldByPush
    <2> QED BY <2>1, <2>3, <2>4, <2>5
  <1>3. torn'[c] = torn[c] \/ (Teardown(c) /\ torn[c] = 0)
    <2>1. ASSUME NEW d \in Conns, Teardown(d)
          PROVE  torn'[c] = torn[c] \/ (Teardown(c) /\ torn[c] = 0)
      BY <2>1 DEF Teardown, TypeInv, TypeOK, OtherTypes
    <2>2. ASSUME NEW d \in Conns,
                 Accept(d) \/ (Request(d) /\ ~Teardown(d)) \/ PeerClose(d) \/ TimerFires(d)
          PROVE  torn' = torn
      BY <2>2 DEF Accept, Request, Describe, Setup, Play, NullDereference, PeerClose, TimerFires
    <2>3. ASSUME NEW ch \in Channels, NEW type \in FrameTypes, NEW n \in 1 .. MaxFragments,
                 PushFrame(ch, type, n)
          PROVE  torn' = torn
      BY <2>3 DEF PushFrame
    <2>4. CASE Loop \/ Pushing \/ UNCHANGED vars
      BY <2>4 DEF Loop, SwapFunctors, RunFunctor, BatchDone, Pushing, Collect, CheckClient,
                  QueuePacket, ReleaseList, vars
    <2> QED BY <2>1, <2>2, <2>3, <2>4 DEF Next
  <1> QED BY <1>1, <1>2, <1>3

\* What the push thread begins with after the first TEARDOWN is never sent,
\* whatever requests follow.
THEOREM TeardownEndsDelivery == Spec => []NothingNewAfterTeardown
  <1>1. Init => BegunBefore BY DEF Init, BegunBefore
  <1>2. BegunBefore => NothingNewAfterTeardown BY DEF BegunBefore, NothingNewAfterTeardown
  <1> QED BY <1>1, <1>2, BegunStep, DeliveryTypes, TornIsSilent, DeliveryInOrder, PTL DEF Spec

-----------------------------------------------------------------------------
(* RTP sequence numbers.                                                   *)

\* i is the last packet that connection c has sent on its channel before
\* packet j.
LastBefore(c, i, j) == \A k \in i + 1 .. j - 1 : sent[c][k].ch # sent[c][i].ch

\* packetSeq continues the last packet of each channel.
SeqContinues ==
    \A c \in Conns : \A i \in 1 .. Len(sent[c]) :
        LastBefore(c, i, Len(sent[c]) + 1)
           => rtp[c].packetSeq[sent[c][i].ch] = (sent[c][i].seq + 1) % SeqMod

SeqConsecutive ==
    \A c \in Conns : \A i \in 1 .. Len(sent[c]), j \in 1 .. Len(sent[c]) :
        i < j /\ sent[c][i].ch = sent[c][j].ch /\ LastBefore(c, i, j)
           => sent[c][j].seq = (sent[c][i].seq + 1) % SeqMod

SeqInv == SeqContinues /\ SeqConsecutive

\* Nothing is sent, and the RtpConnections keep packetSeq.
LEMMA SeqKept ==
    ASSUME TypeInv, SeqInv, sent' = sent,
           \A c \in Conns : rtp'[c].packetSeq = rtp[c].packetSeq
    PROVE  SeqInv'
  <1>1. SeqContinues'
    BY DEF SeqInv, SeqContinues, LastBefore
  <1>2. SeqConsecutive'
    BY DEF SeqInv, SeqConsecutive, LastBefore
  <1> QED BY <1>1, <1>2 DEF SeqInv

\* A packet is sent with the number in packetSeq, which is advanced.
LEMMA SeqSend ==
    ASSUME TypeInv, SeqInv, NEW c \in Conns, NEW p \in SentPackets, NEW r,
           sent' = [sent EXCEPT ![c] = Append(@, p)], rtp' = [rtp EXCEPT ![c] = r],
           p.seq = rtp[c].packetSeq[p.ch],
           r.packetSeq = [rtp[c].packetSeq EXCEPT ![p.ch] = (@ + 1) % SeqMod]
    PROVE  SeqInv'
  <1>1. sent \in [Conns -> Seq(SentPackets)] /\ rtp \in [Conns -> RtpConnections]
    BY DEF TypeInv, TypeOK, OtherTypes, RtpTypes
  <1>2. /\ \A d \in Conns \ {c} : sent'[d] = sent[d] /\ rtp'[d] = rtp[d]
        /\ rtp'[c] = r /\ Len(sent[c]) \in Nat /\ Len(sent'[c]) = Len(sent[c]) + 1
        /\ \A i \in 1 .. Len(sent[c]) : sent'[c][i] = sent[c][i]
        /\ sent'[c][Len(sent[c]) + 1] = p
    <2>1. sent'[c] = Append(sent[c], p) /\ sent[c] \in Seq(SentPackets)
      BY <1>1
    <2> QED BY <1>1, <2>1
  <1>3. /\ \A ch \in Channels : r.packetSeq[ch] = IF ch = p.ch
                                    THEN (rtp[c].packetSeq[ch] + 1) % SeqMod
                                    ELSE rtp[c].packetSeq[ch]
        /\ p.ch \in Channels
    BY <1>1 DEF RtpConnections, SentPackets
  <1>4. \A i \in 1 .. Len(sent[c]) : sent[c][i].ch \in Channels
    BY OrderTypes
  <1> DEFINE m == Len(sent[c])
  <1>5. SeqContinues'
    <2> SUFFICES ASSUME NEW d \in Conns, NEW i \in 1 .. Len(sent'[d]),
                        LastBefore(d, i, Len(sent[d]) + 1)'
                 PROVE  rtp'[d].packetSeq[sent'[d][i].ch] = (sent'[d][i].seq + 1) % SeqMod
      BY DEF SeqContinues
    <2>0. \A k \in i + 1 .. Len(sent'[d]) + 1 - 1 : sent'[d][k].ch # sent'[d][i].ch
      BY DEF LastBefore
    <2>1. CASE d # c
      <3>1. sent'[d] = sent[d] /\ rtp'[d] = rtp[d]
        BY <1>2, <2>1
      <3>2. \A k \in i + 1 .. Len(sent[d]) + 1 - 1 : sent[d][k].ch # sent[d][i].ch
        BY <2>0, <3>1
      <3>3. i \in 1 .. Len(sent[d]) BY <3>1
      <3>4. rtp[d].packetSeq[sent[d][i].ch] = (sent[d][i].seq + 1) % SeqMod
        BY <3>2, <3>3 DEF SeqInv, SeqContinues, LastBefore
      <3> QED BY <3>1, <3>4
    <2>2. CASE d = c /\ i = m + 1
      <3>1. sent'[d][i] = p /\ rtp'[d] = r BY <1>2, <2>2
      <3>2. r.packetSeq[p.ch] = (p.seq + 1) % SeqMod BY <1>3
      <3> QED BY <3>1, <3>2
    <2>3. CASE d = c /\ i \in 1 .. m
      <3>1. m + 1 \in i + 1 .. Len(sent'[d]) + 1 - 1 BY <1>2, <2>3
      <3>2. p.ch # sent[c][i].ch BY <1>2, <2>0, <2>3, <3>1
      <3>3. \A k \in i + 1 .. m + 1 - 1 : sent[c][k].ch # sent[c][i].ch
        <4> SUFFICES ASSUME NEW k \in i + 1 .. m + 1 - 1 PROVE sent[c][k].ch # sent[c][i].ch
          OBVIOUS
        <4>1. k \in 1 .. m /\ k \in i + 1 .. Len(sent'[d]) + 1 - 1 BY <1>2, <2>3
        <4> QED BY <1>2, <2>0, <2>3, <4>1
      <3>4. rtp[c].packetSeq[sent[c][i].ch] = (sent[c][i].seq + 1) % SeqMod
        BY <2>3, <3>3 DEF SeqInv, SeqContinues, LastBefore
      <3>5. r.packetSeq[sent[c][i].ch] = rtp[c].packetSeq[sent[c][i].ch]
        BY <1>3, <1>4, <2>3, <3>2
      <3>6. sent'[d][i] = sent[c][i] /\ rtp'[d] = r BY <1>2, <2>3
      <3> QED BY <3>4, <3>5, <3>6
    <2> QED BY <1>2, <2>1, <2>2, <2>3
  <1>6. SeqConsecutive'
    <2> SUFFICES ASSUME NEW d \in Conns, NEW i \in 1 .. Len(sent'[d]),
                        NEW j \in 1 .. Len(sent'[d]), i < j,
                        sent'[d][i].ch = sent'[d][j].ch,
                        LastBefore(d, i, j)'
                 PROVE  sent'[d][j].seq = (sent'[d][i].seq + 1) % SeqMod
      BY DEF SeqConsecutive
    <2>0. \A k \in i + 1 .. j - 1 : sent'[d][k].ch # sent'[d][i].ch
      BY DEF LastBefore
    <2>1. CASE d # c
      <3>1. sent'[d] = sent[d] BY <1>2, <2>1
      <3>2. \A k \in i + 1 .. j - 1 : sent[d][k].ch # sent[d][i].ch
        BY <2>0, <3>1
      <3>3. /\ i \in 1 .. Len(sent[d]) /\ j \in 1 .. Len(sent[d])
            /\ sent[d][i].ch = sent[d][j].ch
        BY <3>1
      <3>4. sent[d][j].seq = (sent[d][i].seq + 1) % SeqMod
        BY <3>2, <3>3 DEF SeqInv, SeqConsecutive, LastBefore
      <3> QED BY <3>1, <3>4
    <2>2. CASE d = c /\ j \in 1 .. m
      <3>1. i \in 1 .. m BY <1>2, <2>2
      <3>2. \A k \in i + 1 .. j - 1 : sent[c][k].ch # sent[c][i].ch
        <4> SUFFICES ASSUME NEW k \in i + 1 .. j - 1 PROVE sent[c][k].ch # sent[c][i].ch
          OBVIOUS
        <4>1. k \in 1 .. m BY <1>2, <2>2, <3>1
        <4> QED BY <1>2, <2>0, <2>2, <3>1, <4>1
      <3>3. sent[c][i].ch = sent[c][j].ch BY <1>2, <2>2, <3>1
      <3>4. sent[c][j].seq = (sent[c][i].seq + 1) % SeqMod
        BY <2>2, <3>1, <3>2, <3>3 DEF SeqInv, SeqConsecutive, LastBefore
      <3> QED BY <1>2, <2>2, <3>1, <3>4
    <2>3. CASE d = c /\ j = m + 1
      <3>1. i \in 1 .. m BY <1>2, <2>3
      <3>2. \A k \in i + 1 .. m + 1 - 1 : sent[c][k].ch # sent[c][i].ch
        <4> SUFFICES ASSUME NEW k \in i + 1 .. m + 1 - 1 PROVE sent[c][k].ch # sent[c][i].ch
          OBVIOUS
        <4>1. k \in 1 .. m /\ k \in i + 1 .. j - 1 BY <1>2, <2>3, <3>1
        <4> QED BY <1>2, <2>0, <2>3, <3>1, <4>1
      <3>3. rtp[c].packetSeq[sent[c][i].ch] = (sent[c][i].seq + 1) % SeqMod
        BY <3>1, <3>2 DEF SeqInv, SeqContinues, LastBefore
      <3> QED BY <1>2, <2>3, <3>1, <3>3
    <2> QED BY <1>2, <2>1, <2>2, <2>3
  <1> QED BY <1>5, <1>6 DEF SeqInv

\* Every step keeps the sequence numbers.
LEMMA SeqStep == TypeInv /\ SeqInv /\ [Next]_vars => SeqInv'
  <1> SUFFICES ASSUME TypeInv, SeqInv, [Next]_vars PROVE SeqInv'
    OBVIOUS
  <1> USE DEF loopVars
  <1>1. rtp \in [Conns -> RtpConnections] BY DEF TypeInv, TypeOK, RtpTypes
  <1>2. CASE UNCHANGED <<rtp, sent>>
    BY <1>2, SeqKept
  <1>3. ASSUME NEW S, rtp' = Freed(S), sent' = sent PROVE SeqInv'
    <2>1. \A d \in Conns : rtp'[d].packetSeq = rtp[d].packetSeq
      BY <1>3, CloseTypes DEF SameButState
    <2> QED BY <1>3, <2>1, SeqKept
  <1>4. ASSUME NEW c \in Conns, NEW r, rtp' = [rtp EXCEPT ![c] = r], sent' = sent,
               r.packetSeq = rtp[c].packetSeq
        PROVE  SeqInv'
    <2>1. rtp'[c] = r /\ \A d \in Conns \ {c} : rtp'[d] = rtp[d]
      BY <1>1, <1>4
    <2> QED BY <1>4, <2>1, SeqKept
  <1>5. ASSUME NEW c \in Conns, NEW queue, HandleClose(c, queue), sent' = sent
        PROVE  SeqInv'
    <2>1. rtp' = Freed({c}) \/ rtp' = rtp BY <1>5 DEF HandleClose
    <2> QED BY <1>2, <1>3, <1>5, <2>1
  <1>6. ASSUME NEW c \in Conns, NEW found \in BOOLEAN, Describe(c, found) PROVE SeqInv'
    <2> DEFINE r == [rtp[c] EXCEPT !.state = "alive"]
    <2>1. rtp' = [rtp EXCEPT ![c] = r] /\ sent' = sent
      BY <1>6 DEF Describe, RtpCreated
    <2>2. r.packetSeq = rtp[c].packetSeq BY <1>1 DEF RtpConnections
    <2> QED BY <1>4, <2>1, <2>2
  <1>7. ASSUME NEW c \in Conns, NEW ch \in Channels, Setup(c, ch) PROVE SeqInv'
    <2>1. sent' = sent BY <1>7 DEF Setup
    <2> QED BY <1>4, <1>7, <2>1, SetupRtp
  <1>8. ASSUME NEW c \in Conns, Play(c) PROVE SeqInv'
    <2>1. rtp' = [rtp EXCEPT ![c] = PlayRtp(rtp[c])] /\ sent' = sent
      BY <1>8 DEF Play
    <2>2. PlayRtp(rtp[c]).packetSeq = rtp[c].packetSeq
      BY <1>1 DEF PlayRtp, RtpConnections
    <2> QED BY <1>4, <2>1, <2>2
  <1>9. ASSUME NEW c \in Conns, Teardown(c) PROVE SeqInv'
    <2>1. rtp' = [rtp EXCEPT ![c] = TeardownRtp(rtp[c])] /\ sent' = sent
      BY <1>9 DEF Teardown
    <2>2. TeardownRtp(rtp[c]).packetSeq = rtp[c].packetSeq
      BY TeardownRtpType DEF TypeInv, TypeOK, RtpTypes
    <2> QED BY <1>4, <2>1, <2>2
  <1>10. ASSUME NEW c \in Conns, Request(c) PROVE SeqInv'
    <2>1. ASSUME NEW cmd \in {"SETUP", "PLAY", "TEARDOWN"}, NullDereference(c, cmd)
          PROVE  SeqInv'
      BY <1>2, <2>1 DEF NullDereference
    <2> QED BY <1>6, <1>7, <1>8, <1>9, <1>10, <2>1 DEF Request
  <1>11. ASSUME NEW c \in Conns, Accept(c) \/ PeerClose(c) \/ TimerFires(c) PROVE SeqInv'
    BY <1>2, <1>5, <1>11 DEF Accept, PeerClose, TimerFires
  <1>12. CASE RunFunctor
    <2>0. PICK f : f = Head(pending) OBVIOUS
    <2> DEFINE c == f.conn
    <2>1. running > 1 BY <1>12 DEF RunFunctor
    <2>2. c \in Conns /\ (f.do = "sendRtpPacket" => f.pkt \in Packets)
      BY <2>0, <2>1, HeadTypes
    <2>3. CASE f.do = "sendRtpPacket" /\ SendPacket(c, f.pkt)
      <3> DEFINE p == Given(c, f.pkt)
      <3>1. f.pkt \in Packets BY <2>2, <2>3
      <3>2. PICK r \in RtpConnections :
               /\ rtp' = [rtp EXCEPT ![c] = r]
               /\ \/ sent' = sent /\ r.packetSeq = rtp[c].packetSeq
                  \/ /\ sent' = [sent EXCEPT ![c] = Append(@, p)]
                     /\ r.packetSeq = [rtp[c].packetSeq EXCEPT ![f.pkt.ch] = (@ + 1) % SeqMod]
        <4>1. SendPacket(c, f.pkt) BY <2>3
        <4> HIDE DEF c
        <4> QED BY <2>2, <3>1, <4>1, SendPacketType DEF Sends
      <3>3. p \in SentPackets /\ p.seq = rtp[c].packetSeq[p.ch] /\ p.ch = f.pkt.ch
        BY <2>2, <3>1, GivenType
      <3> HIDE DEF p
      <3> QED BY <1>4, <2>2, <3>2, <3>3, SeqSend
    <2>4. CASE HandleClose(c, Tail(pending)) /\ sent' = sent
      BY <1>5, <2>2, <2>4
    <2>5. CASE UNCHANGED <<rtp, sent>>
      BY <1>2, <2>5
    <2> QED BY <1>12, <2>0, <2>3, <2>4, <2>5
            DEF RunFunctor, RunRtp, RunConnectDestroyed, RunForceClose
  <1>13. CASE ReleaseList
    BY <1>3, <1>13 DEF ReleaseList
  <1>14. CASE \/ SwapFunctors \/ BatchDone \/ Collect \/ CheckClient \/ QueuePacket
              \/ UNCHANGED vars
    BY <1>2, <1>14 DEF SwapFunctors, BatchDone, Collect, CheckClient, QueuePacket, vars
  <1>15. ASSUME NEW ch \in Channels, NEW type \in FrameTypes, NEW n \in 1 .. MaxFragments,
                PushFrame(ch, type, n)
         PROVE  SeqInv'
    BY <1>2, <1>15 DEF PushFrame
  <1> QED BY <1>10, <1>11, <1>12, <1>13, <1>14, <1>15 DEF Next, Loop, Pushing

\* What every connection sends on a channel keeps the order of the source and
\* carries consecutive RTP sequence numbers, for any number of connections,
\* channels and packets and any interleaving of the two threads.
THEOREM SequenceNumbersStayConsecutive == Spec => []SequenceNumbersConsecutive
  <1>1. Init => SeqInv
    BY DEF Init, SeqInv, SeqContinues, SeqConsecutive
  <1>2. OrderInv /\ SeqInv => SequenceNumbersConsecutive
    BY DEF OrderInv, SentInOrder, SeqInv, SeqConsecutive, LastBefore,
           SequenceNumbersConsecutive
  <1> QED BY <1>1, <1>2, SeqStep, DeliveryTypes, DeliveryInOrder, PTL DEF Spec

-----------------------------------------------------------------------------
(* Sockets.                                                                *)

\* Clients use UDP, and binding the two sockets succeeds.  A channel over TCP
\* borrows the connection's descriptor, and a failed SETUP keeps numbers it
\* has closed; both break what follows.
OnlyUdp == "tcp" \notin Transports /\ ~BindMayFail

\* The numbers an RtpConnection keeps are those of its own sockets, until it
\* is destroyed: its fields are left with numbers of closed ones.
RtpSockets ==
    \A c \in Conns : rtp[c].state # "freed" =>
        /\ rtp[c].mode # "tcp"
        /\ \A ch \in Channels :
              /\ ch \in rtp[c].isSetup => rtp[c].rtpfd[ch] # 0
              /\ rtp[c].rtpfd[ch] # 0 => owner[rtp[c].rtpfd[ch]] = Udp(c)
              /\ rtp[c].rtcpfd[ch] # 0 => owner[rtp[c].rtcpfd[ch]] = Udp(c)

\* So is the number of a connection that has not been destroyed.
TcpSockets == \A c \in Conns : TcpAlive(c) => owner[fd[c]] = Tcp(c)

SocketInv == RtpSockets /\ TcpSockets

\* What RtpSockets reads of an RtpConnection.
SameSockets(q, r) ==
    /\ q.state = "freed" <=> r.state = "freed"
    /\ q.mode = r.mode /\ q.isSetup = r.isSetup
    /\ q.rtpfd = r.rtpfd /\ q.rtcpfd = r.rtcpfd

\* The owners differ from each other and from Free.
LEMMA OwnersDiffer ==
    \A c, d : /\ Tcp(c) # Udp(d) /\ Tcp(c) # Free /\ Udp(c) # Free
              /\ Tcp(c) = Tcp(d) => c = d
              /\ Udp(c) = Udp(d) => c = d
  BY DEF Tcp, Udp, Free

\* No connection is accepted, and descriptors are closed only behind
\* connections that are destroyed and RtpConnections that are freed.
LEMMA SocketsKept ==
    ASSUME TypeInv, SocketInv, fd' = fd,
           \A c \in Conns : TcpAlive(c)' =>
              TcpAlive(c) /\ owner'[fd[c]] = owner[fd[c]],
           \A c \in Conns :
              \/ rtp'[c].state = "freed"
              \/ /\ SameSockets(rtp'[c], rtp[c])
                 /\ \A n \in Fds : owner[n] = Udp(c) => owner'[n] = Udp(c)
    PROVE  SocketInv'
  <1>1. \A c \in Conns : rtp[c].rtpfd \in [Channels -> 0 .. MaxFd]
                         /\ rtp[c].rtcpfd \in [Channels -> 0 .. MaxFd]
    BY DEF TypeInv, TypeOK, RtpTypes, RtpConnections
  <1>2. \A n \in 0 .. MaxFd : n # 0 => n \in Fds
    BY DeliveryAssumption DEF Fds
  <1>3. TcpSockets'
    BY DEF SocketInv, TcpSockets
  <1>4. RtpSockets'
    <2> SUFFICES ASSUME NEW c \in Conns, rtp'[c].state # "freed"
                 PROVE  /\ rtp'[c].mode # "tcp"
                        /\ \A ch \in Channels :
                            /\ ch \in rtp'[c].isSetup => rtp'[c].rtpfd[ch] # 0
                            /\ rtp'[c].rtpfd[ch] # 0 => owner'[rtp'[c].rtpfd[ch]] = Udp(c)
                            /\ rtp'[c].rtcpfd[ch] # 0 => owner'[rtp'[c].rtcpfd[ch]] = Udp(c)
      BY DEF RtpSockets
    <2>1. /\ SameSockets(rtp'[c], rtp[c])
          /\ \A n \in Fds : owner[n] = Udp(c) => owner'[n] = Udp(c)
      OBVIOUS
    <2> QED BY <1>1, <1>2, <2>1 DEF SocketInv, RtpSockets, SameSockets
  <1> QED BY <1>3, <1>4 DEF SocketInv

\* ~RtpConnection closes sockets of its own.
LEMMA ClosingOwnSockets ==
    ASSUME TypeInv, SocketInv, NEW S \in SUBSET Conns, \A c \in S : RtpAlive(c)
    PROVE  /\ \A c \in Conns : TcpAlive(c) =>
                 Close(owner, ClosedWith(S))[fd[c]] = owner[fd[c]]
           /\ \A c \in Conns \ S, n \in Fds : owner[n] = Udp(c) =>
                 Close(owner, ClosedWith(S))[n] = Udp(c)
  <1>1. \A n \in ClosedWith(S) : n \in Fds => \E c \in S : owner[n] = Udp(c)
    <2> SUFFICES ASSUME NEW n \in ClosedWith(S), n \in Fds
                 PROVE  \E c \in S : owner[n] = Udp(c)
      OBVIOUS
    <2>1. PICK c \in S : n \in RtpFds(rtp[c])
      BY DEF ClosedWith
    <2>2. n # 0 BY DeliveryAssumption DEF Fds
    <2>3. PICK ch \in Channels : n = rtp[c].rtpfd[ch] \/ n = rtp[c].rtcpfd[ch]
      BY <2>1 DEF RtpFds
    <2> QED BY <2>2, <2>3 DEF SocketInv, RtpSockets, RtpAlive
  <1>2. \A n \in Fds : Close(owner, ClosedWith(S))[n]
                         = IF n \in ClosedWith(S) THEN Free ELSE owner[n]
    BY CloseTypes
  <1>3. \A c \in Conns : TcpAlive(c) => fd[c] \in Fds /\ owner[fd[c]] = Tcp(c)
    BY DEF SocketInv, TcpSockets, TypeInv, FdInv, TcpAlive
  <1>4. \A c \in Conns : TcpAlive(c) => fd[c] \notin ClosedWith(S)
    BY <1>1, <1>3, OwnersDiffer
  <1>5. \A c \in Conns \ S, n \in Fds : owner[n] = Udp(c) => n \notin ClosedWith(S)
    BY <1>1, OwnersDiffer
  <1> QED BY <1>2, <1>3, <1>4, <1>5

\* ~Socket closes the connection's own descriptor.
LEMMA ClosingOwnConnection ==
    ASSUME TypeInv, SocketInv, NEW G \in SUBSET Conns, \A c \in G : TcpAlive(c)
    PROVE  /\ \A c \in Conns : TcpAlive(c) /\ c \notin G =>
                 Close(owner, {fd[d] : d \in G})[fd[c]] = owner[fd[c]]
           /\ \A c \in Conns, n \in Fds : owner[n] = Udp(c) =>
                 Close(owner, {fd[d] : d \in G})[n] = Udp(c)
  <1> DEFINE C == {fd[d] : d \in G}
  <1>1. \A n \in C : \E d \in G : owner[n] = Tcp(d)
    BY DEF SocketInv, TcpSockets
  <1>2. \A n \in Fds : Close(owner, C)[n] = IF n \in C THEN Free ELSE owner[n]
    BY CloseTypes
  <1>3. \A c \in Conns : TcpAlive(c) => fd[c] \in Fds /\ owner[fd[c]] = Tcp(c)
    BY DEF SocketInv, TcpSockets, TypeInv, FdInv, TcpAlive
  <1> HIDE DEF C
  <1>4. \A c \in Conns : TcpAlive(c) /\ c \notin G => fd[c] \notin C
    BY <1>1, <1>3, OwnersDiffer
  <1>5. \A c \in Conns, n \in Fds : owner[n] = Udp(c) => n \notin C
    BY <1>1, OwnersDiffer
  <1>6. /\ \A c \in Conns : TcpAlive(c) /\ c \notin G => Close(owner, C)[fd[c]] = owner[fd[c]]
        /\ \A c \in Conns, n \in Fds : owner[n] = Udp(c) => Close(owner, C)[n] = Udp(c)
    BY <1>2, <1>3, <1>4, <1>5
  <1> QED BY <1>6 DEF C

\* SETUP makes two sockets for the channel.
LEMMA SetupSockets ==
    ASSUME OnlyUdp, TypeInv, SocketInv, NEW c \in Conns, NEW ch \in Channels, Setup(c, ch)
    PROVE  SocketInv'
  <1>1. SetupRtpOverUdp(c, ch) /\ UNCHANGED <<tcp, fd>>
    BY DEF Setup, OnlyUdp, SetupRtpOverUdpFails
  <1> DEFINE n == LowestFree(owner)
             m == LowestFree([owner EXCEPT ![n] = Udp(c)])
  <1>2. owner \in [Fds -> Owners] /\ rtp \in [Conns -> RtpConnections]
    BY DEF TypeInv, TypeOK, OtherTypes, RtpTypes
  <1>3. n \in Fds /\ owner[n] = Free /\ m \in Fds /\ owner[m] = Free /\ m # n
    BY <1>1, <1>2, TwoSockets DEF SetupRtpOverUdp
  <1>4. /\ owner' = [owner EXCEPT ![n] = Udp(c), ![m] = Udp(c)]
        /\ rtp' = [rtp EXCEPT ![c].rtpfd[ch] = n, ![c].rtcpfd[ch] = m,
                              ![c].isSetup = @ \cup {ch}, ![c].mode = "udp"]
    BY <1>1 DEF SetupRtpOverUdp
  <1> HIDE DEF n, m
  <1>5. /\ \A k \in Fds : owner[k] # Free => owner'[k] = owner[k]
        /\ owner'[n] = Udp(c) /\ owner'[m] = Udp(c) /\ n # 0 /\ m # 0
    BY <1>2, <1>3, <1>4, DeliveryAssumption DEF Fds
  <1>6. /\ \A d \in Conns \ {c} : rtp'[d] = rtp[d]
        /\ rtp'[c].state = rtp[c].state
        /\ rtp'[c].mode = "udp" /\ rtp'[c].isSetup = rtp[c].isSetup \cup {ch}
        /\ rtp'[c].rtpfd[ch] = n /\ rtp'[c].rtcpfd[ch] = m
        /\ \A k \in Channels \ {ch} : /\ rtp'[c].rtpfd[k] = rtp[c].rtpfd[k]
                                      /\ rtp'[c].rtcpfd[k] = rtp[c].rtcpfd[k]
    BY <1>2, <1>4 DEF RtpConnections
  <1>7. \A d \in Conns, k \in Channels :
           /\ rtp[d].rtpfd[k] # 0 => rtp[d].rtpfd[k] \in Fds
           /\ rtp[d].rtcpfd[k] # 0 => rtp[d].rtcpfd[k] \in Fds
    BY <1>2, DeliveryAssumption, SMTT(20) DEF RtpConnections, Fds
  <1>8. TcpSockets'
    <2>1. \A d \in Conns : TcpAlive(d) => fd[d] \in Fds BY DEF TypeInv, FdInv, TcpAlive
    <2> QED BY <1>1, <1>5, <2>1, OwnersDiffer DEF SocketInv, TcpSockets, TcpAlive
  <1>9. RtpSockets'
    <2> SUFFICES ASSUME NEW d \in Conns, rtp'[d].state # "freed"
                 PROVE  /\ rtp'[d].mode # "tcp"
                        /\ \A k \in Channels :
                            /\ k \in rtp'[d].isSetup => rtp'[d].rtpfd[k] # 0
                            /\ rtp'[d].rtpfd[k] # 0 => owner'[rtp'[d].rtpfd[k]] = Udp(d)
                            /\ rtp'[d].rtcpfd[k] # 0 => owner'[rtp'[d].rtcpfd[k]] = Udp(d)
      BY DEF RtpSockets
    <2>0. rtp[d].state # "freed" BY <1>6
    <2>1. \A k \in Channels :
             /\ k \in rtp[d].isSetup => rtp[d].rtpfd[k] # 0
             /\ rtp[d].rtpfd[k] # 0 => owner'[rtp[d].rtpfd[k]] = Udp(d)
             /\ rtp[d].rtcpfd[k] # 0 => owner'[rtp[d].rtcpfd[k]] = Udp(d)
      BY <1>5, <1>7, <2>0, OwnersDiffer DEF SocketInv, RtpSockets
    <2>2. CASE d # c
      BY <1>6, <2>0, <2>1, <2>2 DEF SocketInv, RtpSockets
    <2>3. CASE d = c
      BY <1>5, <1>6, <2>1, <2>3
    <2> QED BY <2>2, <2>3
  <1> QED BY <1>8, <1>9 DEF SocketInv

\* A connection closes.
LEMMA ClosingSockets ==
    ASSUME TypeInv, SocketInv, NEW c \in Conns, NEW queue, Open(c), HandleClose(c, queue),
           fd' = fd
    PROVE  SocketInv'
  <1>1. tcp' = [tcp EXCEPT ![c] = "disconnected"] BY DEF HandleClose
  <1>2. tcp \in [Conns -> {"none", "connected", "disconnecting", "disconnected",
                           "removed", "orphan", "destroyed"}]
    BY DEF TypeInv, TypeOK, OtherTypes
  <1>3. \A d \in Conns : TcpAlive(d)' => TcpAlive(d)
    BY <1>1, <1>2 DEF TcpAlive, Open
  <1>4. CASE RtpAlive(c) /\ ~InPushList(c)
    <2>1. rtp' = Freed({c}) /\ owner' = Close(owner, ClosedWith({c}))
      BY <1>4 DEF HandleClose
    <2>2. \A d \in Conns : TcpAlive(d) => owner'[fd[d]] = owner[fd[d]]
      BY <1>4, <2>1, ClosingOwnSockets
    <2>3. \A d \in Conns \ {c}, n \in Fds : owner[n] = Udp(d) => owner'[n] = Udp(d)
      BY <1>4, <2>1, ClosingOwnSockets
    <2>4. /\ rtp'[c].state = "freed"
          /\ \A d \in Conns \ {c} : rtp'[d] = rtp[d]
      BY <2>1, CloseTypes
    <2> QED BY <1>3, <2>2, <2>3, <2>4, SocketsKept DEF SameSockets
  <1>5. CASE ~(RtpAlive(c) /\ ~InPushList(c))
    <2>1. rtp' = rtp /\ owner' = owner BY <1>5 DEF HandleClose
    <2> QED BY <1>3, <2>1, SocketsKept DEF SameSockets
  <1> QED BY <1>4, <1>5

\* Every step leaves everyone's descriptors to their owner.
LEMMA SocketStep ==
    ASSUME OnlyUdp, TypeInv, TcpInv, RtpInv, SocketInv, [Next]_vars
    PROVE  SocketInv'
  <1> USE DEF loopVars
  <1>1. /\ tcp \in [Conns -> {"none", "connected", "disconnecting", "disconnected",
                              "removed", "orphan", "destroyed"}]
        /\ rtp \in [Conns -> RtpConnections] /\ owner \in [Fds -> Owners]
        /\ fd \in [Conns -> 0 .. MaxFd]
    BY DEF TypeInv, TypeOK, OtherTypes, RtpTypes
  <1>2. ASSUME UNCHANGED <<fd, owner>>,
               \A c \in Conns : TcpAlive(c)' => TcpAlive(c),
               \A c \in Conns : SameSockets(rtp'[c], rtp[c])
        PROVE  SocketInv'
    BY <1>2, SocketsKept
  <1>3. CASE UNCHANGED <<tcp, fd, owner, rtp>>
    BY <1>2, <1>3 DEF SameSockets, TcpAlive
  <1>4. ASSUME NEW c \in Conns, NEW r, rtp' = [rtp EXCEPT ![c] = r], SameSockets(r, rtp[c])
        PROVE  \A d \in Conns : SameSockets(rtp'[d], rtp[d])
    BY <1>1, <1>4 DEF SameSockets
  <1>5. ASSUME NEW c \in Conns, Accept(c) PROVE SocketInv'
    <2> DEFINE n == LowestFree(owner)
    <2>1. n \in Fds /\ owner[n] = Free
      BY <1>1, <1>5, LowestFreeIsFree DEF Accept
    <2>2. /\ tcp' = [tcp EXCEPT ![c] = "connected"] /\ fd' = [fd EXCEPT ![c] = n]
          /\ owner' = [owner EXCEPT ![n] = Tcp(c)] /\ rtp' = rtp
      BY <1>5 DEF Accept
    <2> HIDE DEF n
    <2>3. owner'[n] = Tcp(c) /\ \A k \in Fds : owner[k] # Free => owner'[k] = owner[k]
      BY <1>1, <2>1, <2>2
    <2>4. TcpSockets'
      <3>1. \A d \in Conns : TcpAlive(d) => fd[d] \in Fds BY DEF TypeInv, FdInv, TcpAlive
      <3> QED BY <1>1, <2>2, <2>3, <3>1, OwnersDiffer DEF SocketInv, TcpSockets, TcpAlive
    <2>5. \A d \in Conns, k \in Channels :
             /\ rtp[d].rtpfd[k] # 0 => rtp[d].rtpfd[k] \in Fds
             /\ rtp[d].rtcpfd[k] # 0 => rtp[d].rtcpfd[k] \in Fds
      BY <1>1, DeliveryAssumption DEF RtpConnections, Fds
    <2>6. RtpSockets'
      BY <2>2, <2>3, <2>5, OwnersDiffer DEF SocketInv, RtpSockets
    <2> QED BY <2>4, <2>6 DEF SocketInv
  <1>6. ASSUME NEW c \in Conns, NEW found \in BOOLEAN, Describe(c, found) PROVE SocketInv'
    <2> DEFINE r == [rtp[c] EXCEPT !.state = "alive"]
    <2>1. rtp' = [rtp EXCEPT ![c] = r] /\ UNCHANGED <<tcp, fd, owner>> /\ Open(c)
      BY <1>6 DEF Describe, RtpCreated, Event, Readable
    <2>2. rtp[c].state # "freed"
      BY <2>1 DEF RtpInv, TcpInv, MapMatchesConnections
    <2>3. SameSockets(r, rtp[c]) BY <1>1, <2>2 DEF SameSockets, RtpConnections
    <2> QED BY <1>2, <1>4, <2>1, <2>3 DEF TcpAlive
  <1>7. ASSUME NEW c \in Conns, Play(c) PROVE SocketInv'
    <2>1. rtp' = [rtp EXCEPT ![c] = PlayRtp(rtp[c])] /\ UNCHANGED <<tcp, fd, owner>>
      BY <1>7 DEF Play
    <2>2. SameSockets(PlayRtp(rtp[c]), rtp[c])
      BY <1>1 DEF SameSockets, PlayRtp, RtpConnections
    <2> QED BY <1>2, <1>4, <2>1, <2>2 DEF TcpAlive
  <1>8. ASSUME NEW c \in Conns, Teardown(c) PROVE SocketInv'
    <2>1. /\ rtp' = [rtp EXCEPT ![c] = TeardownRtp(rtp[c])] /\ UNCHANGED <<fd, owner>>
          /\ tcp' = [tcp EXCEPT ![c] = "disconnecting"] /\ Open(c)
      BY <1>8 DEF Teardown, Event, Readable
    <2>2. SameSockets(TeardownRtp(rtp[c]), rtp[c])
      BY <1>1 DEF SameSockets, TeardownRtp, RtpConnections
    <2>3. \A d \in Conns : TcpAlive(d)' => TcpAlive(d)
      BY <1>1, <2>1 DEF TcpAlive, Open
    <2> QED BY <1>2, <1>4, <2>1, <2>2, <2>3
  <1>9. ASSUME NEW c \in Conns, Request(c) PROVE SocketInv'
    <2>1. ASSUME NEW cmd \in {"SETUP", "PLAY", "TEARDOWN"}, NullDereference(c, cmd)
          PROVE  SocketInv'
      BY <1>3, <2>1 DEF NullDereference
    <2> QED BY <1>6, <1>7, <1>8, <1>9, <2>1, SetupSockets DEF Request
  <1>10. ASSUME NEW c \in Conns, PeerClose(c) PROVE SocketInv'
    BY <1>10, ClosingSockets DEF PeerClose, Event, Readable
  <1>11. ASSUME NEW c \in Conns, TimerFires(c) PROVE SocketInv'
    <2>1. UNCHANGED <<fd, owner, rtp>> BY <1>11 DEF TimerFires
    <2>2. \A d \in Conns : TcpAlive(d)' => TcpAlive(d)
      BY <1>1, <1>11 DEF TimerFires, TcpAlive, Open
    <2> QED BY <1>2, <2>1, <2>2 DEF SameSockets
  <1>12. CASE RunFunctor
    <2>0. PICK f : f = Head(pending) OBVIOUS
    <2> DEFINE c == f.conn
    <2>1. running > 1 /\ fd' = fd BY <1>12 DEF RunFunctor
    <2>2. c \in Conns /\ (f.do = "sendRtpPacket" => f.pkt \in Packets)
      BY <2>0, <2>1, HeadTypes
    <2>3. CASE f.do = "sendRtpPacket" /\ SendPacket(c, f.pkt)
      <3>1. SendPacket(c, f.pkt) /\ UNCHANGED <<tcp, owner>>
        BY <1>12, <2>0, <2>3 DEF RunFunctor, RunRtp
      <3>2. PICK r \in RtpConnections : rtp' = [rtp EXCEPT ![c] = r] /\ SameSockets(r, rtp[c])
        BY <2>2, <2>3, <3>1, SendPacketType DEF Leaves, SameSockets
      <3> QED BY <1>2, <1>4, <2>1, <2>2, <3>1, <3>2 DEF TcpAlive
    <2>4. CASE f.do = "connectDestroyed"
      <3>1. tcp' = [tcp EXCEPT ![c] = "removed"] /\ UNCHANGED <<owner, rtp>>
        BY <1>12, <2>0, <2>4 DEF RunFunctor, RunConnectDestroyed
      <3>2. tcp[c] = "disconnected" BY <2>0, <2>1, <2>4, TailKeepsTcp
      <3>3. \A d \in Conns : TcpAlive(d)' => TcpAlive(d)
        BY <1>1, <2>2, <3>1, <3>2 DEF TcpAlive
      <3> QED BY <1>2, <2>1, <3>1, <3>3 DEF SameSockets
    <2>5. CASE f.do = "forceClose" /\ Open(c)
      <3>1. HandleClose(c, Tail(pending))
        BY <1>12, <2>0, <2>5 DEF RunFunctor, RunForceClose
      <3> QED BY <2>1, <2>2, <2>5, <3>1, ClosingSockets
    <2>6. CASE /\ ~(f.do = "sendRtpPacket" /\ SendPacket(c, f.pkt)) /\ f.do # "connectDestroyed"
               /\ ~(f.do = "forceClose" /\ Open(c))
      <3>1. UNCHANGED <<tcp, owner, rtp>>
        BY <1>12, <2>0, <2>6 DEF RunFunctor, RunForceClose, RunRtp
      <3> QED BY <1>3, <2>1, <3>1
    <2> QED BY <2>3, <2>4, <2>5, <2>6
  <1>13. CASE BatchDone
    <2> DEFINE removed == {c \in Conns : tcp[c] = "removed"}
               gone == {c \in removed : ~HeldByPush(c)}
    <2>1. /\ tcp' = [c \in Conns |-> IF c \in gone THEN "destroyed"
                                   ELSE IF c \in removed THEN "orphan" ELSE tcp[c]]
          /\ owner' = Close(owner, {fd[c] : c \in gone})
          /\ UNCHANGED <<fd, rtp>>
      BY <1>13 DEF BatchDone
    <2>2. /\ gone \in SUBSET Conns /\ gone \subseteq removed
          /\ \A c \in removed : tcp[c] = "removed"
      OBVIOUS
    <2> HIDE DEF gone, removed
    <2>3. \A c \in gone : TcpAlive(c) BY <2>2 DEF TcpAlive
    <2>4. \A c \in Conns : TcpAlive(c)' => TcpAlive(c) /\ c \notin gone
      BY <2>1, <2>2 DEF TcpAlive
    <2>5. /\ \A c \in Conns : TcpAlive(c) /\ c \notin gone => owner'[fd[c]] = owner[fd[c]]
          /\ \A c \in Conns, n \in Fds : owner[n] = Udp(c) => owner'[n] = Udp(c)
      BY <2>1, <2>2, <2>3, ClosingOwnConnection
    <2> QED BY <2>1, <2>4, <2>5, SocketsKept DEF SameSockets
  <1>14. CASE QueuePacket
    <2>0. PICK c : c = Current OBVIOUS
    <2>1. /\ UNCHANGED <<fd, rtp>> /\ push.pc = "queue"
          /\ \/ UNCHANGED <<tcp, owner>>
             \/ /\ tcp[c] = "orphan" /\ tcp' = [tcp EXCEPT ![c] = "destroyed"]
                /\ owner' = Close(owner, {fd[c]})
      BY <1>14, <2>0 DEF QueuePacket
    <2>2. c \in Conns
      BY <2>0, <2>1, CurrentIsListed DEF TypeInv, PushInv
    <2>3. CASE /\ tcp[c] = "orphan" /\ tcp' = [tcp EXCEPT ![c] = "destroyed"]
               /\ owner' = Close(owner, {fd[c]})
      <3> DEFINE G == {c}
      <3>1. {fd[c]} = {fd[d] : d \in G} OBVIOUS
      <3>2. G \in SUBSET Conns /\ \A d \in G : TcpAlive(d) BY <2>2, <2>3 DEF TcpAlive
      <3>3. \A d \in Conns : TcpAlive(d)' => TcpAlive(d) /\ d \notin G
        BY <1>1, <2>2, <2>3 DEF TcpAlive
      <3> HIDE DEF G
      <3>4. /\ \A d \in Conns : TcpAlive(d) /\ d \notin G => owner'[fd[d]] = owner[fd[d]]
            /\ \A d \in Conns, n \in Fds : owner[n] = Udp(d) => owner'[n] = Udp(d)
        BY <2>3, <3>1, <3>2, ClosingOwnConnection, ZenonT(30)
      <3> QED BY <2>1, <3>3, <3>4, SocketsKept DEF SameSockets
    <2> QED BY <1>3, <2>1, <2>3
  <1>15. CASE ReleaseList
    <2>1. /\ rtp' = Freed(Dying) /\ owner' = Close(owner, ClosedWith(Dying))
          /\ UNCHANGED <<tcp, fd>>
      BY <1>15 DEF ReleaseList
    <2>0. PICK S : S = Dying OBVIOUS
    <2>2. S \in SUBSET Conns
          /\ \A d \in S : RtpAlive(d)
      BY <2>0 DEF Dying, PushList, TypeInv, TypeOK, PushTypes, IsClientMap, RtpInv,
                  PushUsesLiveConnections
    <2>3. \A d \in Conns : TcpAlive(d) => owner'[fd[d]] = owner[fd[d]]
      BY <2>0, <2>1, <2>2, ClosingOwnSockets
    <2>4. \A d \in Conns \ S, n \in Fds : owner[n] = Udp(d) => owner'[n] = Udp(d)
      BY <2>0, <2>1, <2>2, ClosingOwnSockets
    <2>5. \A d \in Conns : IF d \in S THEN rtp'[d].state = "freed" ELSE rtp'[d] = rtp[d]
      BY <2>0, <2>1, CloseTypes
    <2>6. \A d \in Conns : TcpAlive(d)' <=> TcpAlive(d) BY <2>1 DEF TcpAlive
    <2> QED BY <2>1, <2>3, <2>4, <2>5, <2>6, SocketsKept DEF SameSockets
  <1>16. CASE SwapFunctors \/ Collect \/ CheckClient \/ UNCHANGED vars
    BY <1>3, <1>16 DEF SwapFunctors, Collect, CheckClient, vars
  <1>17. ASSUME NEW ch \in Channels, NEW type \in FrameTypes, NEW n \in 1 .. MaxFragments,
                PushFrame(ch, type, n)
         PROVE  SocketInv'
    BY <1>3, <1>17 DEF PushFrame
  <1> QED BY <1>5, <1>9, <1>10, <1>11, <1>12, <1>13, <1>14, <1>15, <1>16, <1>17
          DEF Next, Loop, Pushing

\* A functor of an RtpConnection that exists sends on the socket that SETUP
\* made for its client.
LEMMA SentStep ==
    ASSUME TypeInv, SocketInv, SentOnOwnSocket, [Next]_vars
    PROVE  SentOnOwnSocket'
  <1>1. CASE sent' = sent
    BY <1>1 DEF SentOnOwnSocket
  <1>2. CASE LET f == Head(pending) IN
               f.conn \in Conns /\ f.pkt \in Packets /\ SendPacket(f.conn, f.pkt)
    <2>0. PICK f : f = Head(pending) OBVIOUS
    <2> DEFINE c == f.conn
               p == Given(c, f.pkt)
    <2>1. c \in Conns /\ f.pkt \in Packets /\ SendPacket(c, f.pkt)
      BY <1>2, <2>0
    <2>2. \/ sent' = sent
          \/ f.pkt.ch \in rtp[c].isPlay /\ sent' = [sent EXCEPT ![c] = Append(@, p)]
      BY <2>1, SendPacketType DEF Sends
    <2>3. CASE f.pkt.ch \in rtp[c].isPlay /\ sent' = [sent EXCEPT ![c] = Append(@, p)]
      <3>1. f.pkt.ch \in Channels /\ f.pkt.ch \in rtp[c].isSetup
        BY <2>1, <2>3 DEF Packets, TypeInv, TypeOK, RtpTypes
      <3>2. rtp[c].rtpfd[f.pkt.ch] \in 0 .. MaxFd
        BY <2>1, <3>1 DEF TypeInv, TypeOK, RtpTypes, RtpConnections
      <3>3. ASSUME RtpAlive(c) PROVE Via(c, rtp[c], f.pkt.ch) = Udp(c)
        <4>1. rtp[c].state # "freed" BY <3>3 DEF RtpAlive
        <4>2. /\ rtp[c].mode # "tcp" /\ rtp[c].rtpfd[f.pkt.ch] \in Fds
              /\ owner[rtp[c].rtpfd[f.pkt.ch]] = Udp(c)
          BY <2>1, <3>1, <3>2, <4>1, DeliveryAssumption DEF SocketInv, RtpSockets, Fds
        <4> QED BY <4>2, OwnersDiffer DEF Via, IsOpen
      <3>5. p.alive => p.via = Udp(c) BY <2>1, <3>3, GivenType
      <3> HIDE DEF p
      <3>6. sent \in [Conns -> Seq(SentPackets)] BY DEF TypeInv, TypeOK, OtherTypes
      <3>7. /\ \A d \in Conns \ {c} : sent'[d] = sent[d]
            /\ sent[c] \in Seq(SentPackets) /\ sent'[c] = Append(sent[c], p)
        BY <2>1, <2>3, <3>6
      <3>8. \A i \in 1 .. Len(sent'[c]) :
               sent'[c][i] = p \/ (i \in 1 .. Len(sent[c]) /\ sent'[c][i] = sent[c][i])
        BY <3>7
      <3>9. ASSUME NEW d \in Conns, NEW i \in 1 .. Len(sent'[d]), sent'[d][i].alive
            PROVE  sent'[d][i].via \in {Tcp(d), Udp(d)}
        <4>1. CASE d # c
          BY <3>7, <3>9, <4>1 DEF SentOnOwnSocket
        <4>2. CASE d = c /\ sent'[d][i] = p
          BY <3>5, <3>9, <4>2
        <4>3. CASE d = c /\ i \in 1 .. Len(sent[c]) /\ sent'[d][i] = sent[c][i]
          BY <2>1, <3>9, <4>3 DEF SentOnOwnSocket
        <4> QED BY <3>8, <4>1, <4>2, <4>3
      <3> QED BY <3>9 DEF SentOnOwnSocket
    <2> QED BY <1>1, <2>2, <2>3
  <1> QED BY <1>1, <1>2, OnlyFunctorsSend

\* The sockets, in every reachable state, when only UDP is used and binding
\* succeeds.
THEOREM DeliverySockets == Spec => [](OnlyUdp => SocketInv /\ SentOnOwnSocket)
  <1> DEFINE Inv == OnlyUdp => SocketInv /\ SentOnOwnSocket
  <1>1. Init => Inv
    <2> SUFFICES ASSUME Init PROVE SocketInv /\ SentOnOwnSocket OBVIOUS
    <2>1. \A c \in Conns : rtp[c] = NoRtp /\ tcp[c] = "none" /\ sent[c] = <<>>
      BY DEF Init
    <2>2. /\ NoRtp.mode = "unset" /\ NoRtp.isSetup = {}
          /\ \A ch \in Channels : NoRtp.rtpfd[ch] = 0 /\ NoRtp.rtcpfd[ch] = 0
      BY DEF NoRtp
    <2>3. RtpSockets BY <2>1, <2>2 DEF RtpSockets
    <2>4. TcpSockets BY <2>1 DEF TcpSockets, TcpAlive
    <2>5. SentOnOwnSocket BY <2>1 DEF SentOnOwnSocket
    <2> QED BY <2>3, <2>4, <2>5 DEF SocketInv
  <1>2. TypeInv /\ TcpInv /\ RtpInv /\ Inv /\ [Next]_vars => Inv'
    <2> SUFFICES ASSUME TypeInv, TcpInv, RtpInv, Inv, [Next]_vars, OnlyUdp
                 PROVE  SocketInv' /\ SentOnOwnSocket'
      BY DEF OnlyUdp
    <2> QED BY SocketStep, SentStep
  <1> QED BY <1>1, <1>2, DeliveryTypes, DeliveryConnections, DeliveryLifetimes, PTL DEF Spec

\* While the RtpConnection exists, sendto() is given the number of the socket
\* that SETUP made for its client, when only UDP is used and binding succeeds.
THEOREM UdpStaysOnOwnSocket == Spec => [](OnlyUdp => SentOnOwnSocket)
  <1>1. (OnlyUdp => SocketInv /\ SentOnOwnSocket) => (OnlyUdp => SentOnOwnSocket)
    OBVIOUS
  <1> QED BY <1>1, DeliverySockets, PTL

\* Under the same hypotheses the descriptor of an open connection is open and
\* its own.
THEOREM UdpLeavesDescriptors == Spec => [](OnlyUdp => DescriptorIsOwn)
  <1>1. (OnlyUdp => SocketInv /\ SentOnOwnSocket) => (OnlyUdp => DescriptorIsOwn)
    BY DEF SocketInv, TcpSockets, DescriptorIsOwn, Open, TcpAlive
  <1> QED BY <1>1, DeliverySockets, PTL

=============================================================================
