---------------------------- MODULE MediaDelivery ----------------------------
(***************************************************************************)
(* How frames reach clients.  Two threads: the loop thread accepts         *)
(* connections, handles RTSP requests, closes connections and runs queued  *)
(* functors; the push thread (sendFrameThread) packs frames and hands every *)
(* packet to the RtpConnections of the session's clients, each of which    *)
(* queues a functor on the loop.  The model follows the lifetime of the    *)
(* objects (shared_ptr, weak_ptr and raw pointers) and of the descriptors. *)
(*                                                                         *)
(* The functor queue is the one of module FunctorQueue; `running' counts   *)
(* the functors at its head that doPendingFunctors() has swapped out.      *)
(***************************************************************************)
EXTENDS Naturals, Sequences, FiniteSets

CONSTANTS
    Conns,         \* TCP connections, each accepted at most once
    Channels,      \* MediaChannelId
    Transports,    \* transports clients ask for, within {"tcp", "udp"}
    FrameTypes,    \* AVFrame::type: "none" (0), "I", "P"
    BindMayFail,   \* whether the ten attempts of a UDP SETUP may all fail
    MaxFd,         \* descriptors are numbered 1 .. MaxFd
    MaxPackets,    \* bound on the packets pushed
    MaxFragments,  \* bound on the packets of one frame
    MaxTeardowns,  \* bound on the forceClose timers pending for a connection
    SeqMod,        \* RTP sequence numbers are modulo SeqMod (2^16 in the code)
    StartSeq       \* the random initial packetSeq

ASSUME DeliveryAssumption ==
    /\ Transports \subseteq {"tcp", "udp"}
    /\ FrameTypes \subseteq {"none", "I", "P"}
    /\ BindMayFail \in BOOLEAN
    /\ {MaxFd, MaxPackets, MaxFragments, MaxTeardowns} \subseteq Nat
    /\ SeqMod \in Nat \ {0, 1}
    /\ StartSeq \in 0 .. SeqMod - 2

VARIABLES
    tcp,          \* TcpConnection::state_, and what happens to it afterwards
    fd,           \* the descriptor of its Socket
    owner,        \* kernel: whose open descriptor is number n
    rtspConnMap,  \* keys of RtspServer::_rtspConnMap
    described,    \* RtspConnections whose _sessionId is set
    rtp,          \* RtspConnection::_rtpConnPtr and the RtpConnection
    clients,      \* MediaSession::_clients, weak pointers keyed by descriptor
    pending,      \* the loop's functors, oldest first
    running,      \* how many of them belong to the batch being run
    handled,      \* channels with no event left to handle in this iteration
    timers,       \* forceCloseWithDelay timers pending per connection
    push,         \* the push thread
    crashed,      \* "no", or the operation that used an invalid pointer
    sent,         \* history: packets given to sendRtpOverTcp or sendRtpOverUdp
    torn,         \* history: the first packet that the push thread had not
                  \* begun with at the first TEARDOWN, or 0 before any
    replayed      \* history: connections with a PLAY since teardown() acted

loopVars == <<tcp, fd, owner, rtspConnMap, described, rtp, clients, timers>>
history == <<sent, torn, replayed>>
vars == <<loopVars, pending, running, handled, push, crashed, history>>

Fds == 1 .. MaxFd
Free == <<"free">>
Tcp(c) == <<"tcp", c>>
Udp(c) == <<"udp", c>>
None == <<"none">>
NoClients == [n \in {} |-> None]
Acceptor == <<"acceptor">>   \* the listening socket's channel

NoRtp == [state |-> "null", isSetup |-> {}, isPlay |-> {}, mode |-> "unset",
          isClosed |-> FALSE, hasIDR |-> FALSE,
          packetSeq |-> [ch \in Channels |-> StartSeq],
          rtpfd |-> [ch \in Channels |-> 0],
          rtcpfd |-> [ch \in Channels |-> 0]]

\* `list' is rtpConnList with the keys its elements had in _clients, `todo'
\* the keys still to be visited; emplace_front makes the highest the first.
IdlePush == [pc |-> "idle", list |-> NoClients, todo |-> {}, left |-> 0,
             pkt |-> None, count |-> 0]

Init ==
    /\ tcp = [c \in Conns |-> "none"]
    /\ fd = [c \in Conns |-> 0]
    /\ owner = [n \in Fds |-> Free]
    /\ rtspConnMap = {}
    /\ described = {}
    /\ rtp = [c \in Conns |-> NoRtp]
    /\ clients = NoClients
    /\ pending = <<>>
    /\ running = 0
    /\ handled = {}
    /\ timers = [c \in Conns |-> 0]
    /\ push = IdlePush
    /\ crashed = "no"
    /\ sent = [c \in Conns |-> <<>>]
    /\ torn = [c \in Conns |-> 0]
    /\ replayed = {}

-----------------------------------------------------------------------------
(* The kernel's descriptor table and object lifetimes.                     *)

FreeFds(table) == {n \in DOMAIN table : table[n] = Free}
LowestFree(table) == CHOOSE n \in FreeFds(table) :
                        \A m \in FreeFds(table) : n <= m

\* close() of every number in S, whoever owns it by now.
Close(table, S) == [n \in DOMAIN table |-> IF n \in S THEN Free ELSE table[n]]

\* The numbers ~RtpConnection closes: _rtpfd and _rtcpfd where positive.
RtpFds(r) == {r.rtpfd[ch] : ch \in Channels} \cup {r.rtcpfd[ch] : ch \in Channels}

MutClosedWithSocket(S) == UNION {RtpFds(rtp[c]) \cup {fd[c]} : c \in S}

ClosedWith(S) == UNION {RtpFds(rtp[c]) : c \in S}

IsOpen(n) == n \in Fds /\ owner[n] # Free

Open(c) == tcp[c] \in {"connected", "disconnecting"}
TcpAlive(c) == tcp[c] \notin {"none", "destroyed"}
RtpAlive(c) == rtp[c].state = "alive"
Highest(S) == CHOOSE n \in S : \A m \in S : m <= n

\* The push thread's rtpConnList holds shared_ptrs of RtpConnections, and
\* sendRtpPacket one of the TcpConnection it queues for.
PushList == {push.list[n] : n \in DOMAIN push.list}
MutInPushListWeak(c) == FALSE
InPushList(c) == c \in PushList
Current == push.list[Highest(push.todo)]
HeldByPush(c) == push.pc = "queue" /\ Current = c
Visited == push.todo \ {Highest(push.todo)}

\* ~RtpConnection closes the sockets; the fields keep what they hold.
Freed(S) == [c \in Conns |-> IF c \in S THEN [rtp[c] EXCEPT !.state = "freed"]
                                        ELSE rtp[c]]

-----------------------------------------------------------------------------
(* The loop thread: events of the poller, handled when no batch is running. *)

Handling == running = 0 /\ crashed = "no"

\* A poll reports a channel at most once, and reports what happens to the
\* socket that the connection was accepted on.
HandleOnce(channel) == channel \notin handled /\ handled' = handled \cup {channel}
Readable(c) == Open(c) /\ owner[fd[c]] = Tcp(c)
Event(c) == Handling /\ Readable(c) /\ HandleOnce(c)

\* RtspServer::onConnection: the entry is made when a connection comes up and
\* erased, with the RtspConnection, when it goes down.
MutOnConnectionKeepsEntry(c, up) == rtspConnMap' = rtspConnMap \cup {c}

OnConnection(c, up) ==
    rtspConnMap' = IF up THEN rtspConnMap \cup {c} ELSE rtspConnMap \ {c}

\* TcpServer::removeConnection; the functor keeps the TcpConnection alive.
RemoveConnection(c, queue) ==
    Append(queue, [do |-> "connectDestroyed", conn |-> c])

\* Acceptor::handleRead, TcpServer::newConnection, connectEstablished and
\* RtspServer::onConnection (UP).
Accept(c) ==
    /\ Handling
    /\ tcp[c] = "none"
    /\ Acceptor \notin handled
    /\ handled' = handled \cup {Acceptor, c}
    /\ FreeFds(owner) # {}
    /\ LET n == LowestFree(owner) IN
        /\ fd' = [fd EXCEPT ![c] = n]
        /\ owner' = [owner EXCEPT ![n] = Tcp(c)]
    /\ tcp' = [tcp EXCEPT ![c] = "connected"]
    /\ OnConnection(c, TRUE)
    /\ UNCHANGED <<described, rtp, clients, timers, pending, running, push,
                   crashed, history>>

\* DESCRIBE: the RtpConnection is created even when the suffix is unknown;
\* addClient refuses a descriptor that `clients' already has.
MutRtpCreatedForClient(c, found) ==
    IF found /\ fd[c] \notin DOMAIN clients THEN [rtp EXCEPT ![c].state = "alive"]
                                            ELSE rtp

RtpCreated(c, found) == [rtp EXCEPT ![c].state = "alive"]

Describe(c, found) ==
    /\ Event(c)
    /\ rtp' = RtpCreated(c, found)
    /\ described' = IF found THEN described \cup {c} ELSE described
    /\ clients' = IF found /\ fd[c] \notin DOMAIN clients
                  THEN [n \in DOMAIN clients \cup {fd[c]} |->
                           IF n = fd[c] THEN c ELSE clients[n]]
                  ELSE clients
    /\ UNCHANGED <<tcp, fd, owner, rtspConnMap, timers, pending, running, push,
                   crashed, history>>

\* The handlers of SETUP, PLAY and TEARDOWN dereference _rtpConnPtr, which is
\* null before the first DESCRIBE; SETUP first looks for the session.
NullDereference(c, cmd) ==
    /\ Event(c)
    /\ rtp[c].state = "null"
    /\ cmd = "SETUP" => c \in described
    /\ crashed' = cmd
    /\ UNCHANGED <<loopVars, pending, running, push, history>>

\* setupRtpOverTcp: the channel borrows the connection's own descriptor.
SetupRtpOverTcp(c, ch) ==
    /\ rtp' = [rtp EXCEPT ![c].rtpfd[ch] = fd[c],
                          ![c].rtcpfd[ch] = fd[c],
                          ![c].isSetup = @ \cup {ch},
                          ![c].mode = "tcp"]
    /\ UNCHANGED owner

\* setupRtpOverUdp: two sockets; those of an earlier SETUP are forgotten.
SetupRtpOverUdp(c, ch) ==
    /\ Cardinality(FreeFds(owner)) >= 2
    /\ LET n == LowestFree(owner)
           m == LowestFree([owner EXCEPT ![n] = Udp(c)])
       IN  /\ owner' = [owner EXCEPT ![n] = Udp(c), ![m] = Udp(c)]
           /\ rtp' = [rtp EXCEPT ![c].rtpfd[ch] = n,
                                 ![c].rtcpfd[ch] = m,
                                 ![c].isSetup = @ \cup {ch},
                                 ![c].mode = "udp"]

\* All ten attempts fail: the sockets are closed, their numbers are kept.
\* socket() without a free descriptor gives -1, which is never closed.
SetupRtpOverUdpFails(c, ch) ==
    /\ BindMayFail
    /\ LET n == IF FreeFds(owner) = {} THEN 0 ELSE LowestFree(owner)
           m == IF Cardinality(FreeFds(owner)) < 2 THEN 0
                ELSE LowestFree([owner EXCEPT ![n] = Udp(c)])
       IN  \/ rtp' = [rtp EXCEPT ![c].rtpfd[ch] = n]
           \/ /\ n # 0
              /\ rtp' = [rtp EXCEPT ![c].rtpfd[ch] = n, ![c].rtcpfd[ch] = m]
    /\ UNCHANGED owner

\* SETUP before a successful DESCRIBE is answered with an error.
Setup(c, ch) ==
    /\ Event(c)
    /\ c \in described
    /\ rtp[c].state # "null"
    /\ \/ "tcp" \in Transports /\ SetupRtpOverTcp(c, ch)
       \/ "udp" \in Transports /\ SetupRtpOverUdp(c, ch)
       \/ "udp" \in Transports /\ SetupRtpOverUdpFails(c, ch)
    /\ UNCHANGED <<tcp, fd, rtspConnMap, described, clients, timers, pending,
                   running, push, crashed, history>>

\* RtpConnection::play starts the channels that are set up.
MutPlayRtpAll(r) == [r EXCEPT !.isPlay = Channels]

PlayRtp(r) == [r EXCEPT !.isPlay = r.isSetup \cup @]

Play(c) ==
    /\ Event(c)
    /\ rtp[c].state # "null"
    /\ rtp' = [rtp EXCEPT ![c] = PlayRtp(@)]
    /\ replayed' = IF rtp[c].isClosed THEN replayed \cup {c} ELSE replayed
    /\ UNCHANGED <<tcp, fd, owner, rtspConnMap, described, clients, timers,
                   pending, running, push, crashed, sent, torn>>

\* RtpConnection::teardown acts once: after a later PLAY it does nothing.
MutTeardownRtpKeepsPlaying(r) ==
    IF r.isClosed THEN r ELSE [r EXCEPT !.isClosed = TRUE]

MutTeardownRtpStaysOpen(r) == [r EXCEPT !.isPlay = {}]

TeardownRtp(r) ==
    IF r.isClosed THEN r ELSE [r EXCEPT !.isClosed = TRUE, !.isPlay = {}]

MutForceCloseWithDelayNever(c) == UNCHANGED timers

ForceCloseWithDelay(c) == timers' = [timers EXCEPT ![c] = @ + 1]

\* The first packet that the push thread has not begun with.
Upcoming == IF push.pc = "idle" THEN push.count + 1 ELSE push.pkt.id + 1

\* TEARDOWN: shutdown() and forceCloseWithDelay() leave the connection
\* readable; requests may follow.
Teardown(c) ==
    /\ Event(c)
    /\ rtp[c].state # "null"
    /\ timers[c] < MaxTeardowns
    /\ rtp' = [rtp EXCEPT ![c] = TeardownRtp(@)]
    /\ torn' = [torn EXCEPT ![c] = IF @ = 0 THEN Upcoming ELSE @]
    /\ tcp' = [tcp EXCEPT ![c] = "disconnecting"]
    /\ ForceCloseWithDelay(c)
    /\ UNCHANGED <<fd, owner, rtspConnMap, described, clients, pending,
                   running, push, crashed, sent, replayed>>

\* TcpConnection::handleClose, onConnection (DOWN) and removeConnection.  The
\* RtspConnection is destroyed at once and the RtpConnection with it, unless
\* the push thread's list still holds it.
HandleClose(c, queue) ==
    /\ tcp' = [tcp EXCEPT ![c] = "disconnected"]
    /\ OnConnection(c, FALSE)
    /\ pending' = RemoveConnection(c, queue)
    /\ IF RtpAlive(c) /\ ~InPushList(c)
       THEN rtp' = Freed({c}) /\ owner' = Close(owner, ClosedWith({c}))
       ELSE UNCHANGED <<rtp, owner>>

\* The client closes, or the connection breaks: read() returns 0.
PeerClose(c) ==
    /\ Event(c)
    /\ HandleClose(c, pending)
    /\ UNCHANGED <<fd, described, clients, timers, running, push, crashed,
                   history>>

\* A forceCloseWithDelay timer fires: WeakCallback, then forceClose().
TimerFires(c) ==
    /\ Handling
    /\ timers[c] > 0
    /\ UNCHANGED handled
    /\ timers' = [timers EXCEPT ![c] = @ - 1]
    /\ IF Open(c)
       THEN /\ tcp' = [tcp EXCEPT ![c] = "disconnecting"]
            /\ pending' = Append(pending, [do |-> "forceClose", conn |-> c])
       ELSE UNCHANGED <<tcp, pending>>
    /\ UNCHANGED <<fd, owner, rtspConnMap, described, rtp, clients, running,
                   push, crashed, history>>

-----------------------------------------------------------------------------
(* The loop thread: doPendingFunctors.                                     *)

\* An iteration in which nothing happened is left out.
SwapFunctors ==
    /\ Handling
    /\ pending # <<>> \/ handled # {}
    /\ UNCHANGED handled
    /\ running' = Len(pending) + 1
    /\ UNCHANGED <<loopVars, pending, push, crashed, history>>

\* setFrameType and setRtpHeader of the functor sendRtpPacket queued.
MutStampSkipsSeq(r, pkt) ==
    [r EXCEPT !.hasIDR = @ \/ pkt.type \in {"none", "I"},
              !.packetSeq[pkt.ch] =
                 IF pkt.ch \in r.isPlay /\ r.hasIDR THEN (@ + 1) % SeqMod ELSE @]

Stamp(r, pkt) ==
    LET idr == r.hasIDR \/ pkt.type \in {"none", "I"} IN
    [r EXCEPT !.hasIDR = idr,
              !.packetSeq[pkt.ch] =
                 IF pkt.ch \in r.isPlay /\ idr THEN (@ + 1) % SeqMod ELSE @]

\* Whose socket a packet goes out on.
Via(c, r, ch) ==
    IF r.mode = "tcp" THEN Tcp(c)
    ELSE IF IsOpen(r.rtpfd[ch]) THEN owner[r.rtpfd[ch]] ELSE Free

\* The rest of the functor.  A sendto() that fails tears down; it must fail
\* when the number is no longer an open descriptor.
SendPacket(c, pkt) ==
    LET r == Stamp(rtp[c], pkt)
        packet == [ch |-> pkt.ch, id |-> pkt.id, seq |-> rtp[c].packetSeq[pkt.ch],
                   via |-> Via(c, r, pkt.ch), alive |-> RtpAlive(c)]
    IN  IF ~(pkt.ch \in r.isPlay /\ r.hasIDR)
        THEN rtp' = [rtp EXCEPT ![c] = r] /\ UNCHANGED sent
        ELSE /\ sent' = [sent EXCEPT ![c] = Append(@, packet)]
             /\ \/ /\ r.mode = "tcp" \/ IsOpen(r.rtpfd[pkt.ch])
                   /\ rtp' = [rtp EXCEPT ![c] = r]
                \/ /\ r.mode = "udp"
                   /\ rtp' = [rtp EXCEPT ![c] = TeardownRtp(r)]

\* The functor captured `this'.  Of a destroyed RtpConnection it finds what is
\* left in memory: the same fields, with the numbers of closed sockets, or
\* others, with which it does nothing or crashes.
RunRtp(c, pkt) ==
    /\ pending' = Tail(pending)
    /\ UNCHANGED <<tcp, owner, rtspConnMap>>
    /\ \/ SendPacket(c, pkt) /\ UNCHANGED crashed
       \/ ~RtpAlive(c) /\ crashed' \in {"no", "functor"} /\ UNCHANGED <<rtp, sent>>

RunConnectDestroyed(c) ==
    /\ tcp' = [tcp EXCEPT ![c] = "removed"]
    /\ pending' = Tail(pending)
    /\ UNCHANGED <<owner, rtspConnMap, rtp, crashed, sent>>

\* forceCloseInLoop
RunForceClose(c) ==
    /\ IF Open(c) THEN HandleClose(c, Tail(pending))
                  ELSE pending' = Tail(pending)
                       /\ UNCHANGED <<tcp, rtspConnMap, rtp, owner>>
    /\ UNCHANGED <<crashed, sent>>

RunFunctor ==
    /\ running > 1
    /\ crashed = "no"
    /\ LET f == Head(pending) IN
        \/ f.do = "sendRtpPacket" /\ RunRtp(f.conn, f.pkt)
        \/ f.do = "connectDestroyed" /\ RunConnectDestroyed(f.conn)
        \/ f.do = "forceClose" /\ RunForceClose(f.conn)
    /\ running' = running - 1
    /\ UNCHANGED handled
    /\ UNCHANGED <<fd, described, clients, timers, push, torn, replayed>>

\* The local vector of functors is destroyed, and with it the loop's last
\* references to the connections it removed: ~Socket closes the descriptor.
BatchDone ==
    /\ running = 1
    /\ crashed = "no"
    /\ running' = 0
    /\ handled' = {}
    /\ LET removed == {c \in Conns : tcp[c] = "removed"}
           gone == {c \in removed : ~HeldByPush(c)}
       IN  /\ tcp' = [c \in Conns |-> IF c \in gone THEN "destroyed"
                                      ELSE IF c \in removed THEN "orphan"
                                      ELSE tcp[c]]
           /\ owner' = Close(owner, {fd[c] : c \in gone})
    /\ UNCHANGED <<fd, rtspConnMap, described, rtp, clients, timers, pending,
                   push, crashed, history>>

-----------------------------------------------------------------------------
(* The push thread.                                                        *)

\* RtspServer::pushFrame: a frame is dropped while the session has no client.
PushFrame(ch, type, n) ==
    /\ crashed = "no"
    /\ push.pc = "idle"
    /\ DOMAIN clients # {}
    /\ push.count + n <= MaxPackets
    /\ push' = [push EXCEPT !.pc = "collect", !.left = n,
                            !.pkt = [ch |-> ch, type |-> type,
                                     id |-> push.count + 1]]
    /\ UNCHANGED <<loopVars, pending, running, handled, crashed, history>>

\* The callback's part under _clientMutex: expired clients are erased, the
\* others are locked.
Collect ==
    /\ crashed = "no"
    /\ push.pc = "collect"
    /\ LET live == {n \in DOMAIN clients : RtpAlive(clients[n])}
           listed == {n \in live : TcpAlive(clients[n])}
       IN  /\ clients' = [n \in live |-> clients[n]]
           /\ push' = [push EXCEPT !.pc = "check",
                                   !.list = [n \in listed |-> clients[n]],
                                   !.todo = listed]
    /\ UNCHANGED <<tcp, fd, owner, rtspConnMap, described, rtp, timers, pending,
                   running, handled, crashed, history>>

\* getId and the early returns of sendRtpPacket, which locks the TcpConnection.
CheckClient ==
    /\ crashed = "no"
    /\ push.pc = "check"
    /\ push.todo # {}
    /\ push' = IF TcpAlive(Current) /\ ~rtp[Current].isClosed
               THEN [push EXCEPT !.pc = "queue"]
               ELSE [push EXCEPT !.todo = Visited]
    /\ UNCHANGED <<loopVars, pending, running, handled, crashed, history>>

\* runInLoop queues the functor; then the TcpConnection is released, which
\* destroys it in this thread when the loop has already removed it.
QueuePacket ==
    /\ crashed = "no"
    /\ push.pc = "queue"
    /\ LET c == Current IN
        /\ pending' = Append(pending, [do |-> "sendRtpPacket", conn |-> c,
                                       pkt |-> push.pkt])
        /\ IF tcp[c] = "orphan"
           THEN /\ tcp' = [tcp EXCEPT ![c] = "destroyed"]
                /\ owner' = Close(owner, {fd[c]})
           ELSE UNCHANGED <<tcp, owner>>
    /\ push' = [push EXCEPT !.pc = "check", !.todo = Visited]
    /\ UNCHANGED <<fd, rtspConnMap, described, rtp, clients, timers, running,
                   handled, crashed, history>>

\* RtpConnections whose RtspConnection is gone die with rtpConnList.
MutDyingNever == {}

Dying == PushList \ rtspConnMap

\* The callback returns; the next packet of the frame follows.
ReleaseList ==
    /\ crashed = "no"
    /\ push.pc = "check"
    /\ push.todo = {}
    /\ rtp' = Freed(Dying)
    /\ owner' = Close(owner, ClosedWith(Dying))
    /\ push' = [push EXCEPT !.pc = IF push.left > 1 THEN "collect" ELSE "idle",
                            !.list = NoClients,
                            !.left = @ - 1,
                            !.count = @ + 1,
                            !.pkt = IF push.left > 1 THEN [push.pkt EXCEPT !.id = @ + 1]
                                                     ELSE None]
    /\ UNCHANGED <<tcp, fd, rtspConnMap, described, clients, timers, pending,
                   running, handled, crashed, history>>

-----------------------------------------------------------------------------
Request(c) ==
    \/ \E found \in BOOLEAN : Describe(c, found)
    \/ \E ch \in Channels : Setup(c, ch)
    \/ Play(c)
    \/ Teardown(c)
    \/ \E cmd \in {"SETUP", "PLAY", "TEARDOWN"} : NullDereference(c, cmd)

Loop == SwapFunctors \/ RunFunctor \/ BatchDone

Pushing == Collect \/ CheckClient \/ QueuePacket \/ ReleaseList

Next ==
    \/ \E c \in Conns : \/ Accept(c) \/ Request(c) \/ PeerClose(c)
                        \/ TimerFires(c)
    \/ Loop
    \/ \E ch \in Channels, type \in FrameTypes, n \in 1 .. MaxFragments :
          PushFrame(ch, type, n)
    \/ Pushing

\* The loop runs what is queued, timers fire, and a packet once begun is
\* handed to every client.  Nothing is assumed of clients.
Fairness ==
    /\ WF_vars(Loop)
    /\ WF_vars(Pushing)
    /\ \A c \in Conns : SF_vars(TimerFires(c))

Spec == Init /\ [][Next]_vars /\ Fairness

-----------------------------------------------------------------------------
(* Properties.                                                             *)

Owners == {Free} \cup {Tcp(c) : c \in Conns} \cup {Udp(c) : c \in Conns}

RtpConnections ==
    [state : {"null", "alive", "freed"}, isSetup : SUBSET Channels,
     isPlay : SUBSET Channels, mode : {"unset", "tcp", "udp"},
     isClosed : BOOLEAN, hasIDR : BOOLEAN,
     packetSeq : [Channels -> 0 .. SeqMod - 1],
     rtpfd : [Channels -> 0 .. MaxFd], rtcpfd : [Channels -> 0 .. MaxFd]]
Packets == [ch : Channels, type : FrameTypes, id : Nat]
Functors == [do : {"connectDestroyed", "forceClose"}, conn : Conns]
              \cup [do : {"sendRtpPacket"}, conn : Conns, pkt : Packets]
SentPackets == [ch : Channels, id : Nat, seq : 0 .. SeqMod - 1, via : Owners,
                alive : BOOLEAN]
IsClientMap(f) == DOMAIN f \subseteq Fds /\ f \in [DOMAIN f -> Conns]

OtherTypes ==
    /\ tcp \in [Conns -> {"none", "connected", "disconnecting", "disconnected",
                          "removed", "orphan", "destroyed"}]
    /\ fd \in [Conns -> 0 .. MaxFd]
    /\ owner \in [Fds -> Owners]
    /\ rtspConnMap \subseteq Conns
    /\ described \subseteq Conns
    /\ IsClientMap(clients)
    /\ pending \in Seq(Functors)
    /\ running \in 0 .. Len(pending) + 1
    /\ timers \in [Conns -> 0 .. MaxTeardowns]
    /\ crashed \in {"no", "SETUP", "PLAY", "TEARDOWN", "functor"}
    /\ sent \in [Conns -> Seq(SentPackets)]
    /\ torn \in [Conns -> Nat]
    /\ replayed \subseteq Conns

\* A channel plays only if it is set up.
RtpTypes ==
    /\ rtp \in [Conns -> RtpConnections]
    /\ \A c \in Conns : rtp[c].isPlay \subseteq rtp[c].isSetup

\* The push thread visits clients of its list, and numbers its packets.
PushTypes ==
    /\ push = [pc |-> push.pc, list |-> push.list, todo |-> push.todo,
               left |-> push.left, pkt |-> push.pkt, count |-> push.count]
    /\ push.pc \in {"idle", "collect", "check", "queue"}
    /\ IsClientMap(push.list) /\ push.todo \subseteq DOMAIN push.list
    /\ push.left \in Nat /\ push.count \in Nat
    /\ push.pkt \in Packets \cup {None}

\* The types of the variables.
TypeOK == OtherTypes /\ RtpTypes /\ PushTypes

\* onMessage dereferences _rtspConnMap[name] without a check: whenever a
\* connection can deliver a message, its entry is there, and no entry is left
\* behind for a connection that has gone down.
MapMatchesConnections == rtspConnMap = {c \in Conns : Open(c)}

\* handleCmdSetup dereferences _rtpConnPtr after checking only the session:
\* the check is enough.
SetupFindsRtpConnection == crashed # "SETUP"

\* A live RtpConnection is held by its RtspConnection or by the push thread's
\* list; it dies with the last of the two, whichever thread drops it.
RtpConnectionOwned ==
    \A c \in Conns :
        RtpAlive(c) => c \in rtspConnMap \/ InPushList(c)

\* The push thread never uses an RtpConnection that has been destroyed.
PushUsesLiveConnections ==
    \A c \in PushList : RtpAlive(c)

\* Per channel, what a connection sends keeps the order of the source and
\* carries consecutive RTP sequence numbers, whatever was withheld before
\* PLAY, before the first key frame or after TEARDOWN.
SequenceNumbersConsecutive ==
    \A c \in Conns : \A i \in 1 .. Len(sent[c]), j \in 1 .. Len(sent[c]) :
        LET p == sent[c][i]
            q == sent[c][j]
        IN  i < j /\ p.ch = q.ch =>
              /\ p.id < q.id
              /\ (\A k \in i + 1 .. j - 1 : sent[c][k].ch # p.ch)
                    => q.seq = (p.seq + 1) % SeqMod

\* From its first TEARDOWN on nothing is sent to a client, although packets
\* queued before it are still in the loop's queue and the push thread may be
\* between its check and its queueing.  A client that asks for PLAY after
\* teardown() has acted (in a TEARDOWN or a send that failed) is excluded: it
\* sets isPlay again, and no TEARDOWN clears it, because teardown() acts once.
NothingSentAfterTeardown ==
    [][\A c \in Conns : torn[c] # 0 /\ c \notin replayed => sent'[c] = sent[c]]_vars

\* What the push thread begins with after the first TEARDOWN is never sent,
\* whatever the client asks for afterwards: a PLAY and what it sets again get
\* no more than the packets that had passed the check of _isClosed before.
NothingNewAfterTeardown ==
    \A c \in Conns : \A i \in 1 .. Len(sent[c]) :
        torn[c] # 0 => sent[c][i].id < torn[c]

\* The descriptor of an open connection is open and its own: muduo leaves
\* closing it to the connection's Socket.
DescriptorIsOwn ==
    \A c \in Conns : Open(c) => owner[fd[c]] = Tcp(c)

\* sendto() is given a number only: while the RtpConnection exists, the socket
\* that number means is the one SETUP made for this client, never another's
\* that has got the same number since.  A functor that runs on a destroyed
\* RtpConnection (FunctorTargetExists) may well use another client's socket.
SentOnOwnSocket ==
    \A c \in Conns : \A i \in 1 .. Len(sent[c]) :
        sent[c][i].alive => sent[c][i].via \in {Tcp(c), Udp(c)}

\* After a successful DESCRIBE the session has this connection as a client,
\* so that it will be sent the frames once it plays.
DescribedIsClient ==
    \A c \in described \cap rtspConnMap :
        fd[c] \in DOMAIN clients /\ clients[fd[c]] = c

\* A functor queued by sendRtpPacket runs on an RtpConnection that exists.
FunctorTargetExists ==
    (running > 1 /\ Head(pending).do = "sendRtpPacket")
        => RtpAlive(Head(pending).conn)

\* After TEARDOWN the server closes the connection by itself, even if the
\* client never does, and gives back its objects and its socket.
TeardownReclaims ==
    \A c \in Conns :
        (torn[c] # 0 /\ Open(c))
            ~> \/ tcp[c] = "destroyed" /\ ~RtpAlive(c)
               \/ crashed # "no"

\* A closed connection is destroyed, whichever thread holds it.
ClosedIsDestroyed ==
    \A c \in Conns :
        tcp[c] = "disconnected"
            ~> \/ tcp[c] = "destroyed" /\ ~RtpAlive(c)
               \/ crashed # "no"
=============================================================================
