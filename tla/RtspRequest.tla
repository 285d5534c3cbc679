----------------------------- MODULE RtspRequest -----------------------------
(***************************************************************************)
(* The request side of one RTSP connection: bytes arrive from the client   *)
(* in whatever pieces TCP delivers, TcpConnection::handleRead appends them *)
(* to inputBuffer_ and calls handleRtspMessage once, which parses what is  *)
(* there (RtspRequest::parseRequest), answers a complete request and keeps *)
(* the rest for the next read.                                             *)
(*                                                                         *)
(* The stream is a sequence of tokens.  A line of a request is its text    *)
(* followed by a "crlf" token, because the parser only ever looks for      *)
(* CRLF: a cut inside a text is not visible before its CRLF is there.  An  *)
(* interleaved RTCP frame is its four-byte head ("$", channel and length)  *)
(* followed by two pieces of body.                                         *)
(***************************************************************************)
EXTENDS Naturals, Sequences, SequencesExt

CONSTANTS
    Dialogue,      \* the client's requests: [method, headers], in order
    Window,        \* requests the client may have unanswered at a time
    RtcpLengths,   \* lengths of the client's RTCP frames: see Declared
    MaxRtcp,       \* bound on the RTCP frames the client sends
    MaxMessage     \* MAX_RTSP_MESSAGE_SIZE, in tokens

Methods == {"OPTIONS", "DESCRIBE", "SETUP", "PLAY", "TEARDOWN", "GET_PARAMETER"}
Transports == {"TransportTcp", "TransportUdp"}
Headers == {"CSeq", "Accept", "Session", "other"} \cup Transports

\* RFC 2326 wants a CSeq in every request, and every request that the
\* repository builds itself has one.

ASSUME RequestAssumption ==
    /\ Dialogue \in Seq([method : Methods, headers : Seq(Headers)])
    /\ \A k \in 1 .. Len(Dialogue) : \E h \in 1 .. Len(Dialogue[k].headers) :
          Dialogue[k].headers[h] = "CSeq"
    /\ RtcpLengths \subseteq {"short", "long", "wrapped"}
    /\ Window \in Nat \ {0} /\ MaxRtcp \in Nat
    /\ MaxMessage \in Nat \ {0}

VARIABLES
    wire,      \* tokens on their way to the server
    buf,       \* inputBuffer_ of the TcpConnection
    parser,    \* the RtspRequest
    answers,   \* responses sent, oldest first
    asked,     \* how many requests the client has sent
    rtcp,      \* how many RTCP frames the client has sent
    whole      \* history: every read has returned exactly one message, and
               \* no frame of a length that wraps

vars == <<wire, buf, parser, answers, asked, rtcp, whole>>

-----------------------------------------------------------------------------
(* Messages of the client (external).                                      *)
(* `end' marks the last token of a message, for the history `whole' only.  *)
Token(kind, k) == [kind |-> kind, req |-> k, end |-> FALSE]
LastToken(kind, k) == [kind |-> kind, req |-> k, end |-> TRUE]

\* the texts of the request line and the headers, each with its CRLF, and the
\* CRLF of the empty line
Texts(k) == <<"line">> \o Dialogue[k].headers

Request(k) ==
    [i \in 1 .. 2 * Len(Texts(k)) + 1 |->
        IF i = 2 * Len(Texts(k)) + 1 THEN LastToken("crlf", k)
        ELSE Token(IF i % 2 = 1 THEN Texts(k)[(i + 1) \div 2] ELSE "crlf", k)]

RtcpFrame(length) == <<Token(length, 0), Token("body", 0), LastToken("body", 0)>>
IsRtcp(token) == token.kind \in {"short", "long", "wrapped"}

-----------------------------------------------------------------------------
(* Buffer *)
Retrieve(b, n) == IF n < Len(b) THEN SubSeq(b, n + 1, Len(b)) ELSE << >>
FindCRLF(b) == SelectInSeq(b, LAMBDA t : t.kind = "crlf")
FindLastCRLF(b) == SelectLastInSeq(b, LAMBDA t : t.kind = "crlf")

(* pktSize + 4 of handleRtcp.  The two length bytes are read as signed       *)
(* chars, so that a low byte over 127 makes a huge number; with a low byte  *)
(* of 252 to 255 the sum wraps to less than the four bytes of the head.     *)
Declared(token) ==
    CASE token.kind = "short" -> 3
      [] token.kind = "long" -> 1000
      [] token.kind = "wrapped" -> 0

\* a frame is skipped only when it is known to be followed by something
MutAfterRtcpNever(b) ==
    IF Len(b) > 1 /\ IsRtcp(b[1]) /\ Declared(b[1]) < Len(b)
    THEN Retrieve(b, Declared(b[1])) ELSE b

AfterRtcp(b) ==
    IF Len(b) > 1 /\ IsRtcp(b[1]) /\ Declared(b[1]) >= Len(b)
    THEN Retrieve(b, Declared(b[1])) ELSE b

(* End of handleRtspMessage.                                                *)
MutPurgeNever(b) == b
Purge(b) == IF Len(b) > MaxMessage THEN << >> ELSE b

-----------------------------------------------------------------------------
(* RtspRequest.  `line' is what _requestLineParam holds and cseq what       *)
(* _headerLineParam holds: the number of the request they came from, or 0.  *)
Fresh == [state |-> "kParseRequestLine", method |-> "NONE", line |-> 0, cseq |-> 0]

MutResetKeepsHeaders(p) == [p EXCEPT !.state = "kParseRequestLine", !.line = 0]
Reset(p) == [p EXCEPT !.state = "kParseRequestLine", !.line = 0, !.cseq = 0]

(* parseRequestLine accepts a line that is the text of a request line and   *)
(* nothing else.  On any other it fails in the same state; three words of   *)
(* which the first is no method are taken for an unknown method.            *)
IsRequestLine(text) == Len(text) = 1 /\ text[1].kind = "line"

ParsedLine(p, text) ==
    [p EXCEPT !.state = "kParseHeadersLine", !.line = text[1].req,
              !.method = Dialogue[text[1].req].method]

MisparsedLine(p, text) ==
    IF Len(text) = 1 /\ text[1].kind = "other" THEN [p EXCEPT !.method = "NONE"] ELSE p

(* parseHeadersLine gets everything up to the last CRLF as one string.      *)
Find(text, header) == SelectInSeq(text, LAMBDA t : t.kind = header)

ParseCSeq(p, text) ==   \* the first one found; emplace() keeps an older one
    IF p.cseq # 0 THEN p.cseq
    ELSE LET i == Find(text, "CSeq") IN IF i = 0 THEN 0 ELSE text[i].req

(* parseTransport takes the first Transport header with RTP/AVP/TCP, if     *)
(* there is one anywhere in the text, and else the first of the others.     *)
ParseTransport(text) ==
    LET tcp == Find(text, "TransportTcp")
    IN  IF tcp # 0 THEN tcp ELSE Find(text, "TransportUdp")

(* What completes a request, once its CSeq is known.                        *)
GotAll(method, text) ==
    CASE method \in {"OPTIONS", "TEARDOWN", "GET_PARAMETER"} -> TRUE
      [] method = "DESCRIBE" -> Find(text, "Accept") # 0
      [] method = "SETUP" -> ParseTransport(text) # 0
      [] method = "PLAY" -> Find(text, "Session") # 0
      [] method \in {"RTCP", "NONE"} -> FALSE

(* The response of the handleCmd functions; `from' is the request whose     *)
(* Transport header a SETUP was answered for.                                *)
Answer(p, cseq, text) ==
    [method |-> p.method, line |-> p.line, cseq |-> cseq,
     from |-> IF p.method = "SETUP" THEN text[ParseTransport(text)].req ELSE p.line]

-----------------------------------------------------------------------------
(* handleRtspMessage, by what parseRequest finds in the buffer b.           *)
OnRtcp(b) ==
    /\ IsRtcp(b[1])
    /\ parser' = [parser EXCEPT !.method = "RTCP"]
    /\ buf' = Purge(AfterRtcp(b))
    /\ UNCHANGED answers

\* what the headers leave in the buffer; a method RTCP that is still set from
\* an earlier read calls handleRtcp on it
Left(p, b, last, cseq) ==
    LET rest == IF last = 0 THEN b ELSE Retrieve(b, last)
    IN  IF p.method = "RTCP" /\ last # 0 /\ cseq # 0 THEN AfterRtcp(rest) ELSE rest

OnHeaders(p, b) ==
    \E last \in {FindLastCRLF(b)} :
    \E text \in {SubSeq(b, 1, last - 1)} :
    \E cseq \in {ParseCSeq(p, text)} :
       /\ buf' = Purge(Left(p, b, last, cseq))
       /\ \/ /\ last = 0 \/ cseq = 0
             /\ parser' = p /\ UNCHANGED answers
          \/ /\ last # 0 /\ cseq # 0 /\ ~GotAll(p.method, text)
             /\ parser' = [p EXCEPT !.cseq = cseq] /\ UNCHANGED answers
          \/ /\ last # 0 /\ cseq # 0 /\ GotAll(p.method, text)
             /\ parser' = Reset(p)
             /\ answers' = Append(answers, Answer(p, cseq, text))

OnRequestLine(b) ==
    \E first \in {FindCRLF(b)} :
    \E text \in {SubSeq(b, 1, first - 1)} :
       \/ /\ first = 0
          /\ buf' = Purge(b) /\ UNCHANGED <<parser, answers>>
       \/ /\ first # 0 /\ ~IsRequestLine(text)
          /\ parser' = MisparsedLine(parser, text)
          /\ buf' = Purge(Retrieve(b, first)) /\ UNCHANGED answers
       \/ /\ first # 0 /\ IsRequestLine(text)
          /\ \E p \in {ParsedLine(parser, text)} : OnHeaders(p, Retrieve(b, first))

HandleRtspMessage(b) ==
    \/ OnRtcp(b)
    \/ ~IsRtcp(b[1]) /\ parser.state = "kParseRequestLine" /\ OnRequestLine(b)
    \/ ~IsRtcp(b[1]) /\ parser.state = "kParseHeadersLine" /\ OnHeaders(parser, b)

(* TcpConnection::handleRead with data, and RtspServer::onMessage.          *)
FirstEnd == SelectInSeq(wire, LAMBDA t : t.end)

HandleRead(n) ==
    /\ wire' = Retrieve(wire, n)
    /\ \E b \in {buf \o SubSeq(wire, 1, n)} : HandleRtspMessage(b)
    /\ whole' = (whole /\ n = FirstEnd /\ wire[1].kind # "wrapped")
    /\ UNCHANGED <<asked, rtcp>>

\* one read returns any number of bytes of what has arrived
Read == \E n \in DOMAIN wire : HandleRead(n)

-----------------------------------------------------------------------------
(* The client (external): it has at most Window requests unanswered, and    *)
(* sends RTCP reports between requests once the stream plays.               *)
Ask ==
    /\ asked < Len(Dialogue) /\ asked < Len(answers) + Window
    /\ wire' = wire \o Request(asked + 1)
    /\ asked' = asked + 1
    /\ UNCHANGED <<buf, parser, answers, rtcp, whole>>

Report(length) ==
    /\ rtcp < MaxRtcp /\ \E i \in DOMAIN answers : answers[i].method = "PLAY"
    /\ wire' = wire \o RtcpFrame(length)
    /\ rtcp' = rtcp + 1
    /\ UNCHANGED <<buf, parser, answers, asked, whole>>

Init ==
    /\ wire = << >> /\ buf = << >> /\ answers = << >>
    /\ parser = Fresh
    /\ asked = 0 /\ rtcp = 0
    /\ whole = TRUE

Next == Read \/ Ask \/ \E length \in RtcpLengths : Report(length)

(* Data that has arrived makes the socket readable until it is read, and    *)
(* the client goes on when it may.                                          *)
Spec == Init /\ [][Next]_vars /\ WF_vars(Read) /\ WF_vars(Ask)

-----------------------------------------------------------------------------
(* A SETUP is answered for its own Transport header unless a later request  *)
(* has one that the parser may take instead: because it forgets a header    *)
(* that it reads before the CSeq has arrived, or because it takes TCP first *)
(* in whatever text it gets.                                                *)
NoneLater(k, headers) ==
    \A j \in k + 1 .. Len(Dialogue) : \A h \in 1 .. Len(Dialogue[j].headers) :
        Dialogue[j].headers[h] \notin headers

Wins(k, header) ==
    \/ header = "TransportTcp"
    \/ header = "TransportUdp" /\ NoneLater(k, {"TransportTcp"})

OwnTransport(k) ==
    \/ NoneLater(k, Transports)
    \/ \E c, t \in 1 .. Len(Dialogue[k].headers) :
          /\ c < t /\ Dialogue[k].headers[c] = "CSeq"
          /\ Wins(k, Dialogue[k].headers[t])

(* Every response answers one request, in the order of the requests: it has *)
(* the method and the CSeq of its request line, and the Transport header a  *)
(* SETUP is answered for is its own or, where OwnTransport does not exclude *)
(* it, that of a request sent behind it before this response (with a Window *)
(* of 1: its own).  Nothing else that other requests left in the buffer or  *)
(* in the RtspRequest shows, however the stream is cut up and although a    *)
(* pipelined request may be swallowed with the headers before it.           *)
AnswersMatch ==
    \A i \in DOMAIN answers :
        \E k, from \in 1 .. asked :
            /\ answers[i] = [method |-> Dialogue[k].method, line |-> k,
                             cseq |-> k, from |-> from]
            /\ k <= from /\ from < i + Window
            /\ OwnTransport(k) \/ Dialogue[k].method # "SETUP" => from = k
            /\ i > 1 => answers[i - 1].line < k

(* The parser is never left in kGotAll between two messages, it knows of no *)
(* request that was not sent, and what handleRtspMessage leaves behind in   *)
(* inputBuffer_ is within its limit, so that the buffer cannot grow with    *)
(* the RTCP frames that handleRtcp does not remove.                         *)
TypeOK ==
    /\ Len(buf) <= MaxMessage
    /\ parser.state \in {"kParseRequestLine", "kParseHeadersLine"}
    /\ parser.method \in Methods \cup {"RTCP", "NONE"}
    /\ {parser.line, parser.cseq} \subseteq 0 .. asked

(* Every request is answered: a client that waits for a response gets it.   *)
EveryRequestAnswered == Len(answers) < asked ~> Len(answers) = asked

(* As long as TCP delivers the messages one by one, every request is        *)
(* answered, whatever RTCP frames came before it and although handleRtcp    *)
(* misreads their lengths: all but those whose low byte is 252 or more,     *)
(* which are never skipped and block what follows until the purge.          *)
WholeRequestAnswered ==
    Len(answers) < asked ~> Len(answers) = asked \/ ~whole

=============================================================================
