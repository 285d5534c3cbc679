------------------------ MODULE H264PacketizerProofs ------------------------
(***************************************************************************)
(* The safety properties of H264Packetizer for every frame size, every     *)
(* maximal payload of at least 3 bytes and every header size that leaves   *)
(* room in the buffer.  The inductive invariant says of a call that is     *)
(* still in the loop what the properties say of the packets it has already *)
(* sent, together with where the next fragment begins (SentSoFar).         *)
(***************************************************************************)
EXTENDS H264Packetizer, SequenceTheorems, TLAPS

(* A packet that handleFrame has sent, whatever its place in the frame.    *)
GoodPacket(p, sz, ts) ==
  /\ Payload(p) <= MaxPayload
  /\ p.size = HeadSize + Payload(p)
  /\ p.ts = ts
  /\ p.kind = "fu" => p.len > 0
  /\ p.end = 1 <=> p.kind = "fu" /\ p.last = 1
  /\ p.last = 1 <=> p.off + p.len = sz

GoodPackets == \A i \in 1..Len(sent) : GoodPacket(sent[i], size, timestamp)

Starts ==
  /\ \A i \in 1..Len(sent) : sent[i].start = 1 <=> i = 1 /\ sent[i].kind = "fu"
  /\ sent # << >> => sent[1].off = (IF sent[1].kind = "fu" THEN 1 ELSE 0)

Contiguous ==
  \A i \in 1..(Len(sent) - 1) : sent[i + 1].off = sent[i].off + sent[i].len

(* While handleFrame is in one of its branches.                            *)
SentSoFar ==
  /\ pc = "single" => sent = << >> /\ size <= MaxPayload
  /\ pc = "loop" =>
       /\ frameSize > 0
       /\ frameBuf + frameSize = size
       /\ sent = << >> => frameBuf = 1 /\ startFlag = 1 /\ frameSize >= MaxPayload
       /\ sent # << >> =>
            /\ startFlag = 0
            /\ frameBuf = sent[Len(sent)].off + sent[Len(sent)].len

(* After a successful call.                                                *)
Complete ==
  pc = "idle" /\ result = TRUE /\ sent # << >>
    => sent[Len(sent)].off + sent[Len(sent)].len = size

Inv == TypeOK /\ GoodPackets /\ Starts /\ Contiguous /\ SentSoFar /\ Complete

-----------------------------------------------------------------------------
(* What appending a packet to the packets of a call preserves.             *)
LEMMA AppendPacket ==
  ASSUME NEW s \in Seq(Packet), NEW p \in Packet
  PROVE  /\ Append(s, p) \in Seq(Packet)
         /\ Append(s, p) # << >>
         /\ Len(Append(s, p)) = Len(s) + 1
         /\ Append(s, p)[Len(s) + 1] = p
         /\ \A i \in 1..Len(s) : Append(s, p)[i] = s[i]
  BY AppendProperties

(* The packets of a call stay well formed when the callback is handed a     *)
(* well-formed packet that begins where the previous one ended.             *)
LEMMA CallbackKeeps ==
  ASSUME TypeOK, GoodPackets, Starts, Contiguous,
         NEW p \in Packet, GoodPacket(p, size, timestamp), Callback(p),
         p.start = 1 <=> sent = << >> /\ p.kind = "fu",
         sent = << >> => p.off = (IF p.kind = "fu" THEN 1 ELSE 0),
         sent # << >> => p.off = sent[Len(sent)].off + sent[Len(sent)].len
  PROVE  /\ GoodPackets' /\ Starts' /\ Contiguous'
         /\ sent' \in Seq(Packet) /\ sent' # << >>
         /\ sent'[Len(sent')] = p
<1>1. /\ sent \in Seq(Packet) /\ Len(sent) \in Nat
      /\ sent' = Append(sent, p)
  BY DEF TypeOK, Callback
<1>2. /\ sent' \in Seq(Packet) /\ sent' # << >>
      /\ Len(sent') = Len(sent) + 1
      /\ sent'[Len(sent) + 1] = p
      /\ \A i \in 1..Len(sent) : sent'[i] = sent[i]
  BY <1>1, AppendPacket
<1>3. \A i \in 1..Len(sent') : i \in 1..Len(sent) \/ i = Len(sent) + 1
  BY <1>1, <1>2
<1>4. sent = << >> <=> Len(sent) = 0
  BY <1>1, EmptySeq
<1>5. GoodPackets'
  <2> SUFFICES ASSUME NEW i \in 1..Len(sent')
               PROVE  GoodPacket(sent'[i], size, timestamp)
    BY DEF GoodPackets, Callback
  <2> QED BY <1>2, <1>3 DEF GoodPackets
<1>6. Starts'
  <2>1. ASSUME NEW i \in 1..Len(sent')
        PROVE  sent'[i].start = 1 <=> i = 1 /\ sent'[i].kind = "fu"
    BY <1>1, <1>2, <1>3, <1>4 DEF Starts
  <2>2. sent'[1].off = (IF sent'[1].kind = "fu" THEN 1 ELSE 0)
    BY <1>1, <1>2, <1>4 DEF Starts
  <2> QED BY <2>1, <2>2 DEF Starts
<1>7. Contiguous'
  <2> SUFFICES ASSUME NEW i \in 1..(Len(sent') - 1)
               PROVE  sent'[i + 1].off = sent'[i].off + sent'[i].len
    BY DEF Contiguous
  <2>1. CASE i = Len(sent)
    BY <1>1, <1>2, <1>4, <2>1
  <2>2. CASE i # Len(sent)
    BY <1>1, <1>2, <2>2 DEF Contiguous
  <2> QED BY <2>1, <2>2
<1> QED BY <1>2, <1>5, <1>6, <1>7

(* The inductive step, one case per action.                                 *)
LEMMA InvInductive ==
  ASSUME Inv, [Next]_vars
  PROVE  Inv'
<1> USE PacketizerAssumption
<1>1. ASSUME NEW s \in FrameSizes, NEW ts \in {0, 1}, HandleFrame(s, ts)
      PROVE  Inv'
  <2>1. TypeOK'
    BY <1>1 DEF Inv, TypeOK, HandleFrame
  <2>2. GoodPackets' /\ Starts' /\ Contiguous'
    BY <1>1 DEF HandleFrame, GoodPackets, Starts, Contiguous
  <2>3. SentSoFar'
    BY <1>1 DEF HandleFrame, SentSoFar
  <2>4. Complete'
    BY <1>1 DEF HandleFrame, Complete
  <2> QED BY <2>1, <2>2, <2>3, <2>4 DEF Inv
<1>2. ASSUME NEW ok \in BOOLEAN, SendSingle(ok)
      PROVE  Inv'
  <2>1. SinglePacket \in Packet /\ GoodPacket(SinglePacket, size, timestamp)
    BY <1>2 DEF Inv, TypeOK, SentSoFar, SendSingle, SinglePacket, Packet,
                GoodPacket, Payload
  <2>2. /\ SinglePacket.start # 1 /\ SinglePacket.off = 0
        /\ SinglePacket.kind # "fu" /\ sent = << >>
    BY <1>2 DEF Inv, SentSoFar, SendSingle, SinglePacket
  <2>3. /\ GoodPackets' /\ Starts' /\ Contiguous'
        /\ sent' \in Seq(Packet) /\ sent'[Len(sent')] = SinglePacket
    BY <1>2, <2>1, <2>2, CallbackKeeps DEF Inv, SendSingle
  <2>4. TypeOK'
    BY <1>2, <2>3 DEF Inv, TypeOK, SendSingle, Callback, Return
  <2>5. SentSoFar'
    BY <1>2 DEF SendSingle, Return, SentSoFar
  <2>6. Complete'
    BY <1>2, <2>3 DEF Inv, TypeOK, Complete, SendSingle, SinglePacket, Callback
  <2> QED BY <2>3, <2>4, <2>5, <2>6 DEF Inv
<1>3. ASSUME NEW ok \in BOOLEAN, SendFragment(ok)
      PROVE  Inv'
  <2>1. Fragment \in Packet /\ GoodPacket(Fragment, size, timestamp)
    BY <1>3 DEF Inv, TypeOK, SentSoFar, SendFragment, Fragment, Packet,
                GoodPacket, Payload, MoreThanOneFragment, FuSize
  <2>2. /\ Fragment.start = 1 <=> sent = << >> /\ Fragment.kind = "fu"
        /\ sent = << >> => Fragment.off = 1
        /\ sent # << >> => Fragment.off = sent[Len(sent)].off + sent[Len(sent)].len
        /\ Fragment.kind = "fu"
    BY <1>3 DEF Inv, SentSoFar, SendFragment, Fragment
  <2>3. /\ GoodPackets' /\ Starts' /\ Contiguous'
        /\ sent' \in Seq(Packet) /\ sent' # << >>
        /\ sent'[Len(sent')] = Fragment
    BY <1>3, <2>1, <2>2, CallbackKeeps DEF Inv, SendFragment
  <2>a. frameSize - (MaxPayload - FuSize) \in Nat \ {0}
    BY <1>3 DEF Inv, TypeOK, SendFragment, MoreThanOneFragment, FuSize
  <2>b. frameBuf + (MaxPayload - FuSize) \in Nat
    BY DEF Inv, TypeOK, FuSize
  <2>4. TypeOK'
    BY <1>3, <2>3, <2>a, <2>b DEF Inv, TypeOK, SendFragment, Callback, Return
  <2>5. SentSoFar'
    <3>1. CASE ok
      <4>1. /\ frameBuf' = frameBuf + (MaxPayload - FuSize)
            /\ frameSize' = frameSize - (MaxPayload - FuSize)
            /\ startFlag' = 0 /\ size' = size /\ pc' = "loop"
        BY <1>3, <3>1 DEF SendFragment, Callback
      <4>2. /\ frameBuf \in Nat /\ frameSize \in Nat /\ size \in Nat
            /\ frameBuf + frameSize = size
        BY <1>3 DEF Inv, TypeOK, SentSoFar, SendFragment
      <4>3. Fragment.off = frameBuf /\ Fragment.len = MaxPayload - FuSize
        BY DEF Fragment
      <4> QED BY <2>3, <2>a, <4>1, <4>2, <4>3 DEF SentSoFar, FuSize
    <3>2. CASE ~ok
      BY <1>3, <3>2 DEF SendFragment, Return, SentSoFar
    <3> QED BY <3>1, <3>2
  <2>6. Complete'
    BY <1>3 DEF SendFragment, Return, Complete
  <2> QED BY <2>3, <2>4, <2>5, <2>6 DEF Inv
<1>4. ASSUME NEW ok \in BOOLEAN, SendLastFragment(ok)
      PROVE  Inv'
  <2>1. LastFragment \in Packet /\ GoodPacket(LastFragment, size, timestamp)
    BY <1>4 DEF Inv, TypeOK, SentSoFar, SendLastFragment, LastFragment, Packet,
                GoodPacket, Payload, MoreThanOneFragment, FuSize
  <2>2. /\ sent # << >>
        /\ LastFragment.start # 1 /\ LastFragment.kind = "fu"
        /\ LastFragment.off = sent[Len(sent)].off + sent[Len(sent)].len
    BY <1>4 DEF Inv, TypeOK, SentSoFar, SendLastFragment, LastFragment,
                MoreThanOneFragment, FuSize
  <2>3. /\ GoodPackets' /\ Starts' /\ Contiguous'
        /\ sent' \in Seq(Packet) /\ sent'[Len(sent')] = LastFragment
    BY <1>4, <2>1, <2>2, CallbackKeeps DEF Inv, SendLastFragment
  <2>4. TypeOK'
    BY <1>4, <2>3 DEF Inv, TypeOK, SendLastFragment, Callback, Return
  <2>5. SentSoFar'
    BY <1>4 DEF SendLastFragment, Return, SentSoFar
  <2>6. Complete'
    BY <1>4, <2>3 DEF Inv, TypeOK, SentSoFar, Complete, SendLastFragment,
                      LastFragment, Callback
  <2> QED BY <2>3, <2>4, <2>5, <2>6 DEF Inv
<1>5. CASE Tick
  BY <1>5 DEF Tick, Inv, TypeOK, GoodPackets, GoodPacket, Payload, Starts,
              Contiguous, SentSoFar, Complete
<1>6. CASE UNCHANGED vars
  BY <1>6 DEF vars, Inv, TypeOK, GoodPackets, GoodPacket, Payload, Starts,
              Contiguous, SentSoFar, Complete
<1> QED BY <1>1, <1>2, <1>3, <1>4, <1>5, <1>6 DEF Next, Send

(* Every behaviour of handleFrame keeps the invariant.                      *)
LEMMA InvHolds == Spec => []Inv
<1>1. Init => Inv
  BY PacketizerAssumption DEF Init, Inv, TypeOK, GoodPackets, Starts, Contiguous,
                              SentSoFar, Complete
<1> QED BY <1>1, InvInductive, PTL DEF Spec

-----------------------------------------------------------------------------
(* The unsigned locals of handleFrame never run below zero.                 *)
THEOREM TypeCorrect == Spec => []TypeOK
<1>1. Inv => TypeOK
  BY DEF Inv
<1> QED BY <1>1, InvHolds, PTL

(* No packet of handleFrame overruns its buffer or the maximal payload.     *)
THEOREM PacketsAlwaysFit == Spec => []PacketsFit
<1>1. Inv => PacketsFit
  <2> SUFFICES ASSUME Inv, NEW i \in 1..Len(sent)
               PROVE  /\ Payload(sent[i]) <= MaxPayload
                      /\ sent[i].size = HeadSize + Payload(sent[i])
                      /\ sent[i].size <= BufferSize
    BY DEF PacketsFit
  <2>1. sent[i] \in Packet
    BY DEF Inv, TypeOK
  <2>2. Payload(sent[i]) \in Nat
    BY <2>1 DEF Packet, Payload, FuSize
  <2>3. GoodPacket(sent[i], size, timestamp)
    BY DEF Inv, GoodPackets
  <2> QED BY <2>2, <2>3, PacketizerAssumption DEF GoodPacket
<1> QED BY <1>1, InvHolds, PTL

(* The payloads of a call are consecutive pieces of the frame, and all of   *)
(* it when handleFrame returns true.                                        *)
THEOREM FragmentsAlwaysTile == Spec => []FragmentsTile
<1>1. Inv => FragmentsTile
  BY DEF Inv, TypeOK, GoodPackets, GoodPacket, Starts, Contiguous, Complete,
         FragmentsTile
<1> QED BY <1>1, InvHolds, PTL

(* The FU flags, the marker and the timestamp delimit the frame.            *)
THEOREM FlagsAlwaysDelimit == Spec => []FlagsDelimit
<1>1. Inv => FlagsDelimit
  BY DEF Inv, GoodPackets, GoodPacket, Starts, FlagsDelimit
<1> QED BY <1>1, InvHolds, PTL

(* The fields keep their C++ types: frameSize is never less than zero.      *)
THEOREM PacketizerTypeCorrect == Spec => []TypeOK
BY InvHolds, PTL DEF Inv

=============================================================================
