# A TLA+ verification of RtspServer

RtspServer (`src/`) serves an H.264 file over RTSP/RTP. It is a small media
layer (`src/src/media`) on a vendored copy of the muduo network library
(`src/3rdparty/muduo`). This directory models the parts that carry its logic,
model-checks them with TLC and proves the main results with TLAPS. Paths below
are relative to the repository's root, line numbers to the modelled commit.

## 1. The system

Two threads matter. The **loop thread** runs `EventLoop::loop()`: it polls,
calls the handlers of ready channels (accepting, reading requests, closing) and
then runs the functors that were queued. The **push thread**
(`sendFrameThread`) reads a frame, has `H264Source::handleFrame` cut it into
packets, and for every packet runs the callback of `MediaSession`, which locks
the session's clients and queues one functor per client on the loop.

| Component | State | Operations | Interacts through |
|---|---|---|---|
| EventLoop | `pendingFunctors_`, `callingPendingFunctors_`, `quit_`, `wakeupFd_` | `loop`, `runInLoop`, `queueInLoop`, `quit`, `wakeup`, `doPendingFunctors` | functors from any thread, eventfd |
| TcpConnection / TcpServer | `state_`, socket, input and output buffer, connection map | `newConnection`, `connectEstablished`, `handleRead`, `handleClose`, `forceClose(WithDelay)`, `connectDestroyed` | shared pointers in functors, weak pointers in timers |
| RtspServer | `_rtspConnMap`, `_mediaSessions`, `_rtspSuffixMap` | `onConnection`, `onMessage`, `pushFrame`, lookups, add/remove session | called by both threads and by the application, `_sessionMutex` |
| RtspConnection | `_rtpConnPtr`, `_sessionId`, the parser | `handleRtspMessage`, `handleCmd*`, `handleRtcp` | owns the RtpConnection |
| RtspRequest | parse state, method, parameter maps | `parseRequest`, `reset`, `build*Res` | the input buffer |
| MediaSession | `_clients` (weak pointers by descriptor), sources | `addClient`, `removeClient`, the send callback | both threads, `_clientMutex` |
| RtpConnection | per channel: descriptors, sequence number, setup/play flags; `_isClosed`, `_hasIDRFrame`, `_transportMode` | `setupRtpOver*`, `play`, `teardown`, `sendRtpPacket` | used by both threads without a lock |
| H264Source | locals of `handleFrame` | `handleFrame` | the send callback |
| H264File | file position, `_count`, `_bytesUsed` | `open`, `readFrame`, `close` | push thread only |
| RingBuffer | `_buffer`, `_putPos`, `_getPos`, atomic `_numDatas` | `push_back`, `front`, `pop_front`, `full`, `empty` | one producer, one consumer |
| TimerQueue, Poller, Channel, Acceptor, Buffer | see `PROJECT.json` | | the loop |

What is hard here: a packet is decided upon in one thread and sent in another,
after the client may have torn down or gone; objects are kept alive by shared
pointers in some places and referred to by raw pointers, weak pointers or
descriptor *numbers* in others; numbers are reused by the kernel at once; TCP
cuts the request stream anywhere; a session can be removed while a handler or
a push uses it; the file reader works on a window of the file with unsigned
arithmetic; and the wakeup of a polling thread must not be lost. `PROJECT.json` lists these hazards with their lines and with the
properties that cover them.

## 2. The modules

| Module | Models |
|---|---|
| `FunctorQueue` | abstract: functors are executed once each, in the order submitted |
| `EventLoop` | muduo's loop and its cross-thread queue; implements `FunctorQueue` |
| `EventLoopProofs` | TLAPS proofs about `EventLoop` |
| `MediaDelivery` (`MCMediaDelivery`: symmetry) | connections, RTP setup, the push thread, lifetimes, descriptors |
| `MediaDeliveryProofs` | TLAPS proofs about it |
| `SessionDirectory` | abstract: sessions are found by suffix and by the handle a DESCRIBE left |
| `SessionRegistry` | `RtspServer`'s maps and the sessions' lifetimes; implements `SessionDirectory` |
| `SessionRegistryProofs` | TLAPS proofs about it |
| `RtspRequest` (`MCRtspRequest`: dialogues) | input stream, parser, answers, RTCP skipping |
| `RtspRequestProofs` | TLAPS proofs about it |
| `H264File` (`MCH264File`: files) | `H264File::readFrame` and the sender thread's loop |
| `H264FileProofs` | TLAPS proofs about it |
| `H264Packetizer` | `H264Source::handleFrame` |
| `H264PacketizerProofs` | TLAPS proofs about it |
| `BoundedQueue` | abstract: a bounded first-in first-out queue |
| `RingBuffer` | the ring buffer between two threads; implements `BoundedQueue` |
| `RingBufferProofs` | TLAPS proofs about it |

`MediaDelivery` composes what the others model one by one: its functor queue
behaves as `FunctorQueue` says, which `EventLoop` is shown to implement; its
packets are numbered in the order in which `H264Packetizer` hands them over;
and it uses one session, which `SessionRegistry` keeps alive.

Every definition that stands for code is in the `map` of `PROJECT.json` with
its lines. Definitions whose names begin with `Mut` are deliberately wrong
variants of the definition that follows them; replacing one by the other must
break the property named with it in `PROJECT.json`. They are used by no
specification.

**EventLoop.** `pc` is the place in `loop()`; the other variables have the
names of the fields. `queueInLoop` and `quit` called by another thread are two
steps, because the push and the `wakeup()` are not atomic: `caller[t]` is
`"wakeup"` in between. `LoopQueues` is the same function called by the loop
thread, which writes the eventfd only while `callingPendingFunctors_`. The
callback of a channel (`HandleEvent`) may do nothing, queue, run a functor in
place (`runInLoop`) or quit, and so may a functor: `TcpServer` runs
`removeConnectionInLoop` in place from a queued `forceCloseInLoop`. Swapping the vector and
running its elements are separate steps, so that pushes fall in between.
Not covered: `queueInLoop` by the loop thread before `loop()` (this program
does not do it; the functor would wait for the first poll), and a `quit()`
before `loop()`, which is forgotten as the code's own FIXME says
(`QuitStops` is stated for a running loop).

**MediaDelivery.** A connection `c` goes through `tcp[c]`; `"removed"` is after
`connectDestroyed`, `"orphan"` a TcpConnection that only the push thread still
holds. `owner` is the kernel's descriptor table; `accept` and `socket` take the
lowest free number and `close` frees a number whoever uses it. `pending` is the
loop's functor queue as `FunctorQueue` has it; the first `running - 1` elements
are the batch that was swapped out. `handled` keeps a channel from being handled
twice in one iteration. An RtpConnection is freed when the RtspConnection drops
it (`HandleClose`) or, if the push thread's list holds it, when that list is
destroyed (`ReleaseList`). The push thread's work on one packet is split where
the other thread can intervene: under `_clientMutex` (`Collect`), the checks of
`sendRtpPacket` (`CheckClient`), queueing (`QueuePacket`), the end of the
callback (`ReleaseList`). A functor that runs on a freed RtpConnection finds the
fields as they were left (`Freed` keeps them) and then stamps and sends like any
other, with the numbers of closed sockets, which may be another client's by
then; or it finds something else, and then does nothing or crashes (`RunRtp`).
PLAY or TEARDOWN before DESCRIBE dereferences a null pointer. A crash ends the
behaviour (`crashed`). `sent`, `torn` and `replayed` are history variables:
what was handed to `sendRtpOverTcp` or `sendRtpOverUdp`, with the owner of the
descriptor at that moment (`via`) and whether the RtpConnection existed
(`alive`); the first packet that the push thread had not begun with when the
first TEARDOWN was handled, whatever that TEARDOWN found; and the connections
that asked for PLAY after `teardown()` had acted. `teardown()` acts once: a
PLAY after it sets `isPlay` again and a second TEARDOWN leaves it set, so that
packets still queued, or past the check of `_isClosed`, are sent in spite of
it. `NothingSentAfterTeardown` is therefore stated for clients that do not ask
for PLAY again, and `NothingNewAfterTeardown` says of all clients that no more
than those packets is sent. Data is left out: a packet is its channel, frame type and number.

**SessionRegistry.** Three threads: the application creates, names,
registers and removes sessions, the loop looks one up for DESCRIBE (by suffix)
and SETUP (by id), the push thread looks one up by id. Each lookup is one step
under `_sessionMutex`; the shared pointer it returned is kept in `held` until
the handler or `pushFrame` ends (`Done`). `life` follows the object: a raw
pointer until `addMediaSession` takes it, then shared pointers, freed by
whichever goes last. As in `main()`, a session gets its suffix before it is
registered; a suffix changed later is not covered, and `removeMediaSession` would
then leave the old entry behind. The media sources, and the SDP text that
`getSdpMessage` builds from them once and returns for ever, are left out: the code
sets no rule for when sources may change, so that whether the text is current
depends on the application alone.

**H264File.** A file is its size and the positions at which the two scans of
`readFrame` match; a four-byte start code matches twice, one byte apart.
`ReadFrame` is the whole function: the read of `_bufSize` bytes at
`_bytesUsed`, its repetition from the beginning when nothing is left, the two
scans up to `bytesRead - 5` (unsigned), the copy, and one of the four outcomes:
a frame, the last frame and a restart, `close()` and -1, or undefined behaviour
when the subtraction wraps. `Push` is the rest of the thread's loop.

**RingBuffer.** Every statement of `push_back` and `pop_front` is a step. The
caller's duty (the asserts) is part of the steps `CheckFull` and `CheckEmpty`.
`MediaSession` constructs its buffers but nothing uses them yet: the module is
about the class, between one producer and one consumer, which is what its atomic
counter is for.

**H264Packetizer.** One step per packet, because the callback runs in between
and can abort the call. A packet is the range of the frame's bytes it carries,
its flags, `last`, `size` and timestamp.

**RtspRequest.** A read and the whole of `handleRtspMessage` are one action
(`HandleRead`), as in the loop thread. The stream is a sequence of tokens: the
text of a line, CRLF, and the three parts of an RTCP frame. The parser looks
only for CRLF and `$`, so a cut inside a text is invisible until its CRLF
arrives and needs no token. A client may send ahead: `Window` is how many
requests may be unanswered (1 is a client that waits for each answer). A read
returns any non-empty part of what was sent; the history variable `whole`
remembers whether every read so far was exactly one message, and none a frame whose length
wraps. A
line that is made of two requests, because the header scan takes everything up
to the last CRLF of the buffer, is `MisparsedLine`. In the default build
(`Release`, `NDEBUG`) the assertion in `Buffer::retrieve` is compiled out, so
retrieving more than is there empties the buffer; `Retrieve` does that. The
length of an RTCP frame is computed from signed chars: `Declared` has the three
cases, a small length, a low byte over 127, which makes the length huge, and a low
byte of 252 to 255, for which `pktSize + 4` wraps and the frame is never skipped.
`ParseTransport` takes a header with `RTP/AVP/TCP` anywhere in the text before
any other, as `parseTransport` does; `Left` is what the headers leave in the
buffer, on which `handleRtcp` is called when the method RTCP is still set. The
effect of the requests on the session is in `MediaDelivery`; here a request
is answered with the CSeq and the Transport header that were found.

## 3. The runs

| Run | Properties | Shows |
|---|---|---|
| `event_loop` | `TypeOK`, `NoLostWakeup`, `NoLostQuit`, `FifoExecution`, `QueuedIsExecuted`, `QuitStops` | the cross-thread queue is a FIFO, no wakeup is lost, nothing waits for the poll's timeout |
| `delivery_pair` | `TypeOK`, `MapMatchesConnections`, `SetupFindsRtpConnection`, `RtpConnectionOwned`, `PushUsesLiveConnections`, `SentOnOwnSocket` | two clients over UDP: lifetimes, and an RtpConnection that exists sends on its own sockets only, although numbers are reused |
| `delivery_client` | `SequenceNumbersConsecutive`, `NothingNewAfterTeardown`, `NothingSentAfterTeardown`, `TeardownReclaims`, `ClosedIsDestroyed` | what a client sees, before and after its TEARDOWNs, and that nothing is leaked for ever |
| `packetizer` | `TypeOK`, `PacketsFit`, `FragmentsTile`, `FlagsDelimit`, `HandleFrameReturns` | fragmentation at every boundary |
| `request_stream` | `TypeOK`, `AnswersMatch`, `WholeRequestAnswered` | answers belong to their requests however TCP cuts the stream, and what a SETUP may take from a later one; a session is answered completely while reads return whole messages one by one and no RTCP length wraps |
| `h264_file` | `TypeOK`, `ScanStaysInside`, `OneFramePerChunk`, `KeepsPlaying`, `ChunksFollow`, `ReachesTheEnd` | every playable file is sent frame by frame, without gap or overlap, again and again; the scans leave the buffer only for files shorter than five bytes |
| `session_registry` | `TypeOK`, `MapsAgree`, `HeldIsAlive`, `RemovedIsFreed`, `DirectoryImplemented` | the two maps never disagree, a removed session lives as long as a thread uses it and no longer, an id never stands for another session |
| `ring_buffer` | `TypeOK`, `NoSlotShared`, `QueueImplemented`, `EverythingTaken` | the ring is a bounded queue and its unprotected slots are never used by both threads |

Four runs state what the repository says and are expected to fail; each is a
finding in `PROJECT.json`.

| Run | Property | What TLC finds |
|---|---|---|
| `dangling_functor` | `FunctorTargetExists` | a client that disconnects after a packet was queued leaves a functor with a dead `this`, which may send on another client's socket |
| `stale_client` | `DescribedIsClient` | `removeClient` has no caller; a reused descriptor number is refused by `addClient`, and the client gets 200 but no media |
| `borrowed_descriptor` | `DescriptorIsOwn` | `~RtpConnection` closes the TcpConnection's descriptor, which can be reused before the Socket closes it again |
| `split_request` | `EveryRequestAnswered` | an OPTIONS cut after its CSeq line is answered early, and the rest of it blocks the next request |

An RTCP frame that is read together with the request behind it is not skipped
either (`src/src/media/rtsp_connection.cc:103`); the model has it, and it is
why `WholeRequestAnswered` is stated for reads of one message each. A frame
whose length wraps is not skipped even alone, and holds up every request behind
it until the purge drops them together; the property excepts it. And a SETUP may
be answered for the transport of a later one, in two ways: its Transport header
is read before its CSeq has arrived and forgotten, or the later one asks for TCP
and is read together with it. `OwnTransport` says which SETUPs cannot be affected,
and `AnswersMatch` which requests' headers the others can get: only those sent
before the response. A client that waits for each answer (`Window = 1`) always gets its own.

**Bounds.** `EventLoop`: two threads, one channel and three functors, enough
for a push during the swap, during the run and by a running functor.
`MediaDelivery`: two connections (one to go away and one to reuse its
descriptor), five descriptors in `delivery_pair`: both connections and one pair of
UDP sockets, whose numbers the other client gets when the first has gone, one to three
packets and one or two fragments, sequence numbers modulo a small number starting just below the
wrap; `MaxTeardowns` bounds the timers that are pending at a time, so that a
second TEARDOWN comes after the first one's timer. The connections are
interchangeable, hence the symmetry of the two-connection runs. `delivery_pair`
identifies states that differ only in the histories `torn` and `replayed` (its VIEW):
no action reads them and its properties do not depend on them, except `TypeOK`,
which says of them only what the theorem proves;
`delivery_client`, which has the temporal properties, has one connection, one
channel and three packets, enough for the sequence number to wrap. `H264Packetizer`: a payload of 5 and frames of 0 to 12 bytes cover a
single packet, a rest of exactly one packet, one byte less and one more, and
up to four fragments; the proofs cover all other values. `RtspRequest`: a
session of ten requests, among them a SETUP over UDP, one over TCP and two with
the Transport header before the CSeq, as `buildSetupTcpReq` writes them, and two
RTCP frames of any of the three kinds of length; `MaxMessage` is small enough for the
purge to happen in `request_stream` and too large for it in `split_request`;
`Window` is 3 in the first, so that up to three requests share a buffer, and 1
in the second. `H264File`: all files of up to five NAL units of seven kinds,
with short and long start codes, and files of 0 to 6 bytes without any; 24 bytes
of buffer hold some of the files and two or three frames of the others.
`SessionRegistry`: three sessions for two suffixes, so that a suffix is
registered again while a removed session is still in use. `RingBuffer`: three
slots and eight elements, so that both positions wrap twice.

**Deadlock** is not checked where the system may stop: a loop told to quit, a
delivery whose clients have all gone and whose packets are used up, a finished
dialogue, a file that was given up, a registry whose sessions are all gone, a
producer that has pushed `MaxPuts` elements.

**Fairness.** `EventLoop`: the loop thread runs, and a thread that has pushed a
functor reaches its `wakeup()`. A poll is only required to return when the
eventfd is readable: neither the ten-second timeout nor other I/O is assumed,
or `QueuedIsExecuted` would hold without any wakeup. `MediaDelivery`: weak
fairness of the loop's functors and of a packet in progress; strong fairness
of a timer, because an expired timerfd is reported by every poll until it is
handled, while the loop is also busy with other things. Nothing is assumed of
clients. `RtspRequest`: data that has arrived is read, and the client asks when
it may. `H264Packetizer`: the callback returns. `H264File`: the sender thread,
which nothing blocks, runs. `SessionRegistry`: handlers and `pushFrame` return;
nothing is assumed of the application. `RingBuffer`: the consumer keeps taking
what is there; nothing is assumed of the producer.

## 4. The proofs

`EventLoopProofs` holds for all sets of threads, channels and functors, under
the assumption that the wakeup channel is not one of the I/O channels.
`NoLostWakeup` speaks of the poll only and is not inductive: a functor may be
left in `pendingFunctors_` when the loop leaves `doPendingFunctors` or checks
`quit_`. `WakeupInv` says for every place of the loop from the swap to the
poll that a non-empty queue has its wakeup due; `BatchInv` that the swapped-out
vector is empty outside the run. `Inv` is `TypeOK`, `WakeupInv`, `NoLostQuit`
and `BatchInv`; `InvInductive` has one case per action. `LoopImplementsQueue`
uses it for the refinement to `FunctorQueue`, whose queue is
`functors \o pendingFunctors`: the swap is a stutter, running the head is
`ExecuteHead`, possibly together with a `Submit` or an `ExecuteNow`.

`H264PacketizerProofs` holds for every frame size, every payload limit of at
least 3 and every header size that fits the buffer
(`PacketizerAssumption`). The properties speak of the packets sent; the
invariant adds `SentSoFar`, which says where the next fragment begins and that
the first round of the loop always leaves something for the last fragment,
which is why the last fragment never carries the start bit and is never empty.
`CallbackKeeps` is the lemma on appending a packet that all three sending
actions use. Sizes are natural numbers: the 32-bit `frameSize + 2` wraps only
for frames of 4 GiB, which the reader's 500000-byte buffer excludes.

`H264FileProofs` holds for every set of files and all buffer sizes that satisfy
`FileAssumption` (the caller's buffer is at least as large as the reader's, as
both are 500000 bytes). `ScanStaysInside` needs to know where `_bytesUsed` can
be: 0, or a position some earlier scan found, which lies at least five bytes
before the end of its buffer (`IInv`). `ScanEnd` turns this into "a read never
returns one to four bytes of a longer file". `FrameFoundStep` and
`LastFrameStep` treat the two outcomes that return a chunk. For
`KeepsPlaying`, `PlayableSees` shows from `Playable` that the scans see a
frame, and its end unless the file's rest is in the buffer and `_count` is
positive; `PlayableStep` that the outcomes for such a file are the right ones.

`RingBufferProofs` holds for every capacity of at least 1. `RingInv` locates
the producer: `_putPos` is the slot behind the contents (one further after
`add`), the element is in that slot before the counter is raised, and a thread
past its check has room or something to take. `RingNumbers` does the modular
arithmetic once; in particular fewer than `_capacity` consecutive elements are
in different slots, which gives `NoSlotShared`. For the refinement, `Contents`
are the elements `front()` has not returned: raising the counter is `Put`,
`front()` is `Take`, all else stutters.

`SessionRegistryProofs` holds for every finite set of sessions and any sets of
suffixes and connections. The number of sessions must be finite because an id
is one more than the ids given out so far (`_lastMediaSessionId`), and the
number of sessions is their bound. `MapsAgree` is inductive only with `IdInv`
(the counter is one ahead of the sessions created, no id and no id that a
connection remembers is beyond it, no two sessions share one) and `OwnedInv`
(what the map holds is registered under its own id and owned); `HeldIsAlive`
with them, since an object goes when the maps and the last holder have dropped
it. `RegistryImplementsDirectory` is
the refinement: registering and removing a session and each lookup are the
directory's operations, creating, naming, freeing and letting go are
stutters.

`MediaDeliveryProofs` holds for any set of connections, any set of channels, any
finite number of descriptors and all bounds. The argument is in layers, each an
invariant of its own that may use the ones below:

1. `TypeInv`: `TypeOK`; `PushInv`, the shape of the push thread's list at each
   of its steps; `FdInv`, which numbers belong to whom. No state of a step is
   read without it.
2. `TcpInv`: `MapMatchesConnections`, for which the functor that destroys a
   connection must be queued at most once and for a disconnected one only
   (`RemovalsOf`), whichever of the peer, the timer and the functor queue comes
   first.
3. `RtpInv`: an RtpConnection exists as long as its RtspConnection or the list
   of the push thread holds it. It gives `SetupFindsRtpConnection`,
   `RtpConnectionOwned` and `PushUsesLiveConnections`.
4. `TornInv`: a TEARDOWN leaves the RtpConnection closed for good, and a closed one
   has no active channel unless the client asked for PLAY again; the loop then sends
   nothing queued earlier. `TeardownSilences` is the action property
   `NothingSentAfterTeardown`.
5. `OrderInv`: packets are handed to a client in the order of their numbers
   (`Handed`), they are queued in the order in which they are handed over and
   sent in the order in which they are queued. With `TornInv` it gives
   `BegunBefore`: what is queued, held past the check of `_isClosed` or sent for a
   connection after its first TEARDOWN had been begun with before it, because the
   check stops every later packet (`HeldPastCheck`); `TeardownEndsDelivery` is
   `NothingNewAfterTeardown`, whatever requests follow. `SeqInv`: `packetSeq` of a
   channel is the number behind the last packet sent, and
   `SequenceNumbersConsecutive` follows for any modulus and starting number.
6. `SocketInv`: a UDP socket that is recorded in an RtpConnection that exists is
   its own in the kernel's table. Of a destroyed one nothing is claimed:
   `SentOnOwnSocket` speaks of what was sent while the RtpConnection existed.
   `LeastNumber` is the fact about natural numbers that makes the lowest free
   descriptor exist; that it was free is what keeps two owners apart.

The last layer is stated under `OnlyUdp`: no client asks for TCP, and `bind`
does not fail. Both hypotheses are needed and both are about the code.
`borrowed_descriptor` shows what a TCP client does to `DescriptorIsOwn`; and
after a failed `bind` the numbers of sockets already closed stay in the
RtpConnection.

`RtspRequestProofs` holds for every dialogue, every window, any number of RTCP
frames and every limit of the buffer of at least one token. The invariant is
about the stream, `buf \o wire`: whatever the reads cut, it only loses prefixes
(`ReadCase`, `LeavesStream`) and gains whole messages (`SendTypes`).

* `TypeInv` gives `TypeOK`, for any dialogue.
* `StreamOK`: request numbers do not decrease along the stream, there is at most
  one line of each request, and behind each request line comes its CSeq and,
  behind that, what its answer is taken from (`CSeqAhead`): for a SETUP that
  `OwnTransport` protects, a Transport header that `parseTransport` prefers to
  those of later requests (`Wins`).
* `Waiting`: a parser that has read a request line has in front of it what it is
  still looking for, before anything of a later request.
* `Answered`: the answers given are for requests before those in the stream.

The critical step is what the parser throws away: everything up to the last CRLF
in the buffer, and the whole buffer in the purge. `Survives` shows that this never
takes a header of the current request that the parser has not looked at, because
each text is followed by its CRLF: if the purge finds more than one token
behind the last CRLF, they are not that request's. `HeadersStep` has the two
outcomes, an answer that is the right one or a parser that waits for the rest.

`AnswersAlwaysMatch` assumes no more of the dialogue than that each request has a
CSeq (`RequestAssumption`), which RFC 2326 demands and every request the
repository builds has. The order of the headers is free, and so is the mixture of
transports: what that can do to a SETUP is part of the property (`OwnTransport`,
and the bound on `from`), not a hypothesis.

Only model-checked: all liveness (fairness and ENABLED are out of the prover's
reach, as is induction over data). Every safety property of the passing runs is
stated by a theorem.

## 5. Not modelled

* `RtspResponse` and the pusher mode: empty functions, a parser marked TODO.
* Authentication: described in the repository's README, absent from the code.
* `EventLoopThreadPool`: `setThreadNum` is never called.
* The output side of `TcpConnection` (`sendInLoop`, `handleWrite`, the output
  buffer's growth), cancellation and repetition in `TimerQueue`: vendored muduo
  code that this server uses in one way only (`send`, one `runAfter`).
* TcpClient, Connector, logging and the base utilities of muduo.
* Files of 2^31 bytes or more, for which the `int` `_bytesUsed` overflows.
* A session whose suffix is changed after it was registered, media sources that
  change, and with them the cached SDP text.
* The memory of a destroyed RtpConnection once it belongs to another object: a
  functor that runs on it is followed as long as the old fields are there, and
  otherwise does nothing or crashes.
* Text: SDP, wording of responses, addresses and ports.

## 6. Plan

All invariants, action properties and refinements of the passing runs are proved.
What could follow: the output side of `TcpConnection`, with the property that the
buffer is sent in the order of `send`; and a statement of `SentOnOwnSocket` that
allows failing binds, once `RtpConnection` forgets the sockets it has closed; and
sources that change while a session is in use, once the code says who may change
them and when.
