--------------------------- MODULE H264Packetizer ---------------------------
(***************************************************************************)
(* H264Source::handleFrame (src/src/media/h264_source.cc): one frame is    *)
(* cut into RTP packets, each handed to _sendFrameCallback before the next *)
(* one is built.  A frame of at most MAX_RTP_PAYLOAD_SIZE bytes is one     *)
(* packet; a longer one becomes FU-A fragments, whose two header bytes     *)
(* replace the first byte of the frame.                                    *)
(*                                                                         *)
(* A packet is described by the bytes of the frame that it carries         *)
(* (off, off + 1, ..., off + len - 1), by whether it is a fragment, by its *)
(* two FU flags and by the fields the sender reads: last, size and         *)
(* timestamp.  The bytes themselves are never looked at, except the first  *)
(* one, which handleFrame splits over the FU indicator and header.         *)
(***************************************************************************)
EXTENDS Integers, Sequences

CONSTANTS FrameSizes,   \* the values of AVFrame.size
          MaxPayload,   \* MAX_RTP_PAYLOAD_SIZE
          HeadSize,     \* 4 + RTP_HEADER_SIZE, reserved in front of a payload
          BufferSize,   \* bytes allocated by the constructor of RtpPacket
          MaxClock      \* bound on the clock of getTimestamp()

\* handleFrame subtracts MAX_RTP_PAYLOAD_SIZE - 2 until the rest fits: with a
\* maximum of 2 or less the loop would not end.  1420 + 16 <= 1600 in rtp.h.
ASSUME PacketizerAssumption ==
  /\ FrameSizes \subseteq Nat
  /\ MaxPayload \in Nat /\ MaxPayload >= 3
  /\ HeadSize \in Nat
  /\ BufferSize \in Nat /\ HeadSize + MaxPayload <= BufferSize
  /\ MaxClock \in Nat

VARIABLES
  pc,         \* "idle", or the branch handleFrame is in: "single", "loop"
  size,       \* frame.size, of the current or of the last call
  timestamp,  \* frame.timestamp after its defaulting
  frameBuf,   \* offset of the pointer frameBuf in the frame
  frameSize,  \* the local frameSize: bytes still to send
  startFlag,  \* bit 0x80 of FU_A[1]
  sent,       \* the packets the callback has received in this call
  result,     \* what the last call returned
  clock       \* what getTimestamp() would return

vars == <<pc, size, timestamp, frameBuf, frameSize, startFlag, sent, result, clock>>

FuSize == 2   \* FU indicator and FU header

(* What the packet occupies in the buffer of RtpPacket after the RTP header.*)
Payload(p) == IF p.kind = "fu" THEN FuSize + p.len ELSE p.len

-----------------------------------------------------------------------------
SinglePacket ==
  [kind |-> "single", off |-> 0, len |-> size, start |-> 0, end |-> 0,
   last |-> 1, size |-> size + HeadSize, ts |-> timestamp]

Fragment ==
  [kind |-> "fu", off |-> frameBuf, len |-> MaxPayload - FuSize,
   start |-> startFlag, end |-> 0,
   last |-> 0, size |-> HeadSize + MaxPayload, ts |-> timestamp]

LastFragment ==
  [kind |-> "fu", off |-> frameBuf, len |-> frameSize,
   start |-> startFlag, end |-> 1,
   last |-> 1, size |-> HeadSize + FuSize + frameSize, ts |-> timestamp]

(* while(frameSize + 2 > MAX_RTP_PAYLOAD_SIZE) *)
MutMoreThanOneFragmentNoFu == frameSize > MaxPayload
MutMoreThanOneFragmentGe == frameSize + FuSize >= MaxPayload
MoreThanOneFragment == frameSize + FuSize > MaxPayload

-----------------------------------------------------------------------------
Init ==
  /\ pc = "idle" /\ size = 0 /\ timestamp = 0
  /\ frameBuf = 0 /\ frameSize = 0 /\ startFlag = 0
  /\ sent = << >> /\ result = TRUE /\ clock = 1

(* The call, up to the first packet; ts = 0 asks for the current time.      *)
HandleFrame(s, ts) ==
  /\ pc = "idle"
  /\ size' = s
  /\ timestamp' = IF ts = 0 THEN clock ELSE ts
  /\ sent' = << >>
  /\ IF s <= MaxPayload
       THEN /\ pc' = "single"
            /\ frameBuf' = 0 /\ frameSize' = s /\ startFlag' = 0
       ELSE /\ pc' = "loop"
            /\ frameBuf' = 1 /\ frameSize' = s - 1 /\ startFlag' = 1
  /\ UNCHANGED <<result, clock>>

(* _sendFrameCallback receives pkt; handleFrame returns false if it does.   *)
Callback(pkt) ==
  /\ sent' = Append(sent, pkt)
  /\ UNCHANGED <<size, timestamp, clock>>

Return(ok) == pc' = "idle" /\ result' = ok

SendSingle(ok) ==
  /\ pc = "single"
  /\ Callback(SinglePacket) /\ Return(ok)
  /\ UNCHANGED <<frameBuf, frameSize, startFlag>>

\* the start bit is not cleared
MutSendFragmentKeepsStart(ok) ==
  /\ pc = "loop" /\ MoreThanOneFragment
  /\ Callback(Fragment)
  /\ IF ok
       THEN /\ frameBuf' = frameBuf + (MaxPayload - FuSize)
            /\ frameSize' = frameSize - (MaxPayload - FuSize)
            /\ UNCHANGED <<pc, result, startFlag>>
       ELSE Return(FALSE) /\ UNCHANGED <<frameBuf, frameSize, startFlag>>

\* the step in the frame forgets the FU bytes
MutSendFragmentSkips(ok) ==
  /\ pc = "loop" /\ MoreThanOneFragment
  /\ Callback(Fragment)
  /\ IF ok
       THEN /\ frameBuf' = frameBuf + MaxPayload
            /\ frameSize' = frameSize - MaxPayload
            /\ startFlag' = 0
            /\ UNCHANGED <<pc, result>>
       ELSE Return(FALSE) /\ UNCHANGED <<frameBuf, frameSize, startFlag>>

(* One round of the loop.                                                   *)
SendFragment(ok) ==
  /\ pc = "loop" /\ MoreThanOneFragment
  /\ Callback(Fragment)
  /\ IF ok
       THEN /\ frameBuf' = frameBuf + (MaxPayload - FuSize)
            /\ frameSize' = frameSize - (MaxPayload - FuSize)
            /\ startFlag' = 0
            /\ UNCHANGED <<pc, result>>
       ELSE Return(FALSE) /\ UNCHANGED <<frameBuf, frameSize, startFlag>>

\* a rest that exactly fills a packet is taken by neither branch
MutSendLastFragmentStrict(ok) ==
  /\ pc = "loop" /\ frameSize + FuSize < MaxPayload
  /\ Callback(LastFragment) /\ Return(ok)
  /\ UNCHANGED <<frameBuf, frameSize, startFlag>>

SendLastFragment(ok) ==
  /\ pc = "loop" /\ ~MoreThanOneFragment
  /\ Callback(LastFragment) /\ Return(ok)
  /\ UNCHANGED <<frameBuf, frameSize, startFlag>>

(* The steady clock moves on while the callbacks run.                       *)
Tick ==
  /\ clock < MaxClock
  /\ clock' = clock + 1
  /\ UNCHANGED <<pc, size, timestamp, frameBuf, frameSize, startFlag, sent, result>>

Send == \E ok \in BOOLEAN : SendSingle(ok) \/ SendFragment(ok) \/ SendLastFragment(ok)

Next ==
  \/ \E s \in FrameSizes, ts \in {0, 1} : HandleFrame(s, ts)
  \/ Send
  \/ Tick

Spec == Init /\ [][Next]_vars /\ WF_vars(Send)

-----------------------------------------------------------------------------
Packet ==
  [kind : {"single", "fu"}, off : Nat, len : Nat,
   start : {0, 1}, end : {0, 1}, last : {0, 1}, size : Nat, ts : Nat]

(* The fields of handleFrame and of the packets keep their C++ types; in    *)
(* particular the unsigned frameSize never drops below zero.                *)
TypeOK ==
  /\ pc \in {"idle", "single", "loop"}
  /\ size \in Nat /\ timestamp \in Nat /\ clock \in Nat
  /\ frameBuf \in Nat /\ frameSize \in Nat
  /\ startFlag \in {0, 1} /\ result \in BOOLEAN
  /\ sent \in Seq(Packet)

(* No memcpy of handleFrame writes beyond the buffer of RtpPacket, no        *)
(* payload is longer than MAX_RTP_PAYLOAD_SIZE, and the size that            *)
(* RtpConnection puts on the wire is what was written.                       *)
PacketsFit ==
  \A i \in 1..Len(sent) :
    /\ Payload(sent[i]) <= MaxPayload
    /\ sent[i].size = HeadSize + Payload(sent[i])
    /\ sent[i].size <= BufferSize

(* A receiver that concatenates the payloads gets the frame back: the        *)
(* fragments are non-empty, start after the byte that went into the FU       *)
(* header, leave no gap and do not overlap, and when handleFrame has         *)
(* returned true they reach the last byte of the frame.                      *)
FragmentsTile ==
  /\ \A i \in 1..(Len(sent) - 1) : sent[i + 1].off = sent[i].off + sent[i].len
  /\ \A i \in 1..Len(sent) : sent[i].kind = "fu" => sent[i].len > 0
  /\ sent # << >> => sent[1].off = (IF sent[1].kind = "fu" THEN 1 ELSE 0)
  /\ pc = "idle" /\ result /\ sent # << >>
       => sent[Len(sent)].off + sent[Len(sent)].len = size

(* The flags tell a receiver where a frame begins and ends: the start bit is *)
(* on the first fragment only, and the end bit and the RTP marker (last) are *)
(* on the packet that carries the last byte of the frame and on no other.    *)
(* All carry one timestamp, however long the callbacks take: getTimestamp()  *)
(* is called once per frame.                                                 *)
FlagsDelimit ==
  \A i \in 1..Len(sent) :
    /\ sent[i].start = 1 <=> i = 1 /\ sent[i].kind = "fu"
    /\ sent[i].last = 1 <=> sent[i].off + sent[i].len = size
    /\ sent[i].end = 1 <=> sent[i].kind = "fu" /\ sent[i].last = 1
    /\ sent[i].ts = sent[1].ts

(* handleFrame returns, if its callback does: the loop over the fragments    *)
(* ends whatever the frame size.                                             *)
HandleFrameReturns == pc # "idle" ~> pc = "idle"

=============================================================================
