-------------------------- MODULE RtspRequestProofs --------------------------
(***************************************************************************)
(* Proofs about RtspRequest, for every dialogue, window, number of RTCP    *)
(* frames and limit of the buffer.  They are about the stream: what is in  *)
(* the input buffer, followed by what is on its way.  It loses prefixes    *)
(* and gains whole messages, however the reads cut it up.                  *)
(***************************************************************************)
EXTENDS RtspRequest, TLAPS, NaturalsInduction, WellFoundedInduction,
        SequenceTheorems

Stream == buf \o wire

\* s without its first d tokens.
Drop(s, d) == SubSeq(s, d + 1, Len(s))

RtcpKinds == {"short", "long", "wrapped", "body"}
Kinds == {"line", "crlf"} \cup RtcpKinds \cup Headers

\* The request has the header.
Has(k, header) ==
    \E h \in 1 .. Len(Dialogue[k].headers) : Dialogue[k].headers[h] = header

\* What the client sends: RTCP frames belong to no request, and a Transport
\* header to a request that has one.
Tokens ==
    {t \in [kind : Kinds, req : 0 .. Len(Dialogue), end : BOOLEAN] :
        /\ t.req = 0 <=> t.kind \in RtcpKinds
        /\ t.kind \in Transports => Has(t.req, t.kind)}

-----------------------------------------------------------------------------
(* The invariant.                                                          *)

\* From i to m the stream is request k's, and each of its texts has its CRLF.
Run(s, i, m, k) ==
    \A j \in i .. m :
        /\ s[j].req = k
        /\ s[j].kind # "crlf" => j + 1 <= Len(s) /\ s[j + 1].kind = "crlf"

\* A Transport header of request k that parseTransport prefers to those of later
\* requests is still to come, before anything else.
TransportAhead(s, i, k) ==
    \E t \in i .. Len(s) : Wins(k, s[t].kind) /\ Run(s, i, t, k)

\* So is its CSeq, and behind it what else the answer is taken from.
CSeqAhead(s, i, k) ==
    \E c \in i .. Len(s) :
        /\ s[c].kind = "CSeq" /\ Run(s, i, c, k)
        /\ Dialogue[k].method = "SETUP" /\ OwnTransport(k) =>
              \/ NoneLater(k, Transports)
              \/ \E t \in c + 1 .. Len(s) : Wins(k, s[t].kind) /\ Run(s, i, t, k)

\* Requests follow one another and a request line comes with its request.
StreamOK(s) ==
    /\ \A i \in 1 .. Len(s), j \in 1 .. Len(s) :
          i < j /\ s[i].req # 0 /\ s[j].req # 0 => s[i].req <= s[j].req
    /\ \A i \in 1 .. Len(s), j \in 1 .. Len(s) :
          i < j /\ s[i].kind = "line" /\ s[j].kind = "line" => s[i].req < s[j].req
    /\ \A i \in 1 .. Len(s) : s[i].kind = "line" => CSeqAhead(s, i, s[i].req)

\* A parser that has read a request line finds the rest of that request in
\* front of it, unless it has found all that the answer is taken from.
Waiting(p, s) ==
    /\ p.method \in {Dialogue[p.line].method, "RTCP"}
    /\ \A i \in 1 .. Len(s) : /\ s[i].req # 0 => p.line <= s[i].req
                              /\ s[i].kind = "line" => p.line < s[i].req
    /\ \/ p.cseq = 0 /\ CSeqAhead(s, 1, p.line)
       \/ /\ p.cseq = p.line
          /\ p.method = "SETUP" /\ OwnTransport(p.line) =>
                TransportAhead(s, 1, p.line) \/ NoneLater(p.line, Transports)

Parsers ==
    [state : {"kParseRequestLine", "kParseHeadersLine"},
     method : Methods \cup {"RTCP", "NONE"},
     line : 0 .. Len(Dialogue), cseq : 0 .. Len(Dialogue)]

\* Types: what TypeOK says, and that the stream has the requests asked for.
TypeInv ==
    /\ TypeOK
    /\ buf \in Seq(Tokens) /\ wire \in Seq(Tokens)
    /\ asked \in 0 .. Len(Dialogue)
    /\ \A i \in 1 .. Len(Stream) : Stream[i].req <= asked
    /\ parser \in Parsers

\* The parser knows a request exactly when it has read its request line.
ParserInv ==
    /\ parser.state = "kParseRequestLine" => parser.line = 0 /\ parser.cseq = 0
    /\ parser.state = "kParseHeadersLine" => parser.line # 0 /\ Waiting(parser, Stream)

\* What was answered lies behind the parser.
Answered(s) ==
    \A i \in 1 .. Len(answers) :
        /\ \A j \in 1 .. Len(s) : s[j].kind = "line" => answers[i].line < s[j].req
        /\ parser.state = "kParseHeadersLine" => answers[i].line < parser.line

Answers ==
    [method : Methods, line : 1 .. Len(Dialogue), cseq : 1 .. Len(Dialogue),
     from : 1 .. Len(Dialogue)]

AnswersInv ==
    answers \in Seq(Answers) /\ AnswersMatch /\ asked <= Len(answers) + Window

IInv ==
    TypeInv /\ StreamOK(Stream) /\ ParserInv /\ AnswersInv /\ Answered(Stream)

-----------------------------------------------------------------------------
(* Tokens and requests.                                                    *)

\* The dialogue is a sequence.
LEMMA DialogueFacts ==
    /\ Len(Dialogue) \in Nat
    /\ \A k \in 1 .. Len(Dialogue) :
          /\ Dialogue[k].method \in Methods
          /\ Dialogue[k].headers \in Seq(Headers)
          /\ Len(Dialogue[k].headers) \in Nat
          /\ \A h \in 1 .. Len(Dialogue[k].headers) : Dialogue[k].headers[h] \in Headers
  <1>1. /\ Len(Dialogue) \in Nat
        /\ \A k \in 1 .. Len(Dialogue) :
              Dialogue[k] \in [method : Methods, headers : Seq(Headers)]
    <2> DEFINE R == [method : Methods, headers : Seq(Headers)]
    <2>1. Dialogue \in Seq(R)
      BY RequestAssumption
    <2> HIDE DEF R
    <2>2. Len(Dialogue) \in Nat /\ \A k \in 1 .. Len(Dialogue) : Dialogue[k] \in R
      BY <2>1, LenProperties, ElementOfSeq
    <2> QED BY <2>2 DEF R
  <1>2. ASSUME NEW k \in 1 .. Len(Dialogue)
        PROVE  /\ Dialogue[k].method \in Methods
               /\ Dialogue[k].headers \in Seq(Headers)
               /\ Len(Dialogue[k].headers) \in Nat
               /\ \A h \in 1 .. Len(Dialogue[k].headers) : Dialogue[k].headers[h] \in Headers
    <2>1. Dialogue[k].method \in Methods /\ Dialogue[k].headers \in Seq(Headers)
      BY <1>1
    <2> DEFINE hs == Dialogue[k].headers
    <2>2. hs \in Seq(Headers) BY <2>1
    <2> HIDE DEF hs
    <2>3. Len(hs) \in Nat /\ \A h \in 1 .. Len(hs) : hs[h] \in Headers
      BY <2>2
    <2> QED BY <2>1, <2>3 DEF hs
  <1> QED BY <1>1, <1>2

\* What a token of the stream belongs to.
LEMMA TokenFacts ==
    ASSUME NEW t \in Tokens
    PROVE  /\ t.req \in Nat /\ t.req <= Len(Dialogue)
           /\ t.kind \in Kinds
           /\ t.kind \in {"line", "crlf"} \cup Headers => t.req # 0
           /\ t.kind \in RtcpKinds => t.req = 0
           /\ t.kind \in Transports => Has(t.req, t.kind)
  <1>1. t.req \in 0 .. Len(Dialogue) /\ Len(Dialogue) \in Nat /\ t.kind \in Kinds
    BY DialogueFacts DEF Tokens
  <1>2. t.req = 0 <=> t.kind \in RtcpKinds
    BY DEF Tokens
  <1>3. t.kind \in Transports => Has(t.req, t.kind)
    BY DEF Tokens
  <1> QED BY <1>1, <1>2, <1>3 DEF RtcpKinds, Headers, Transports

-----------------------------------------------------------------------------
(* Finding a token.                                                        *)

\* A set of natural numbers has a least element.
LEMMA LeastNumber ==
    ASSUME NEW S \in SUBSET Nat, S # {}
    PROVE  \E n \in S : \A m \in S : n <= m
  <1>1. PICK n \in S : \A m \in S : ~(<<m, n>> \in OpToRel(<, Nat))
    BY NatLessThanWellFounded, WFMin
  <1>2. \A m \in S : ~(m < n)
    BY <1>1 DEF OpToRel
  <1> QED BY <1>2

\* Min and Max of the positions up to n that a search finds.
LEMMA MinIsLeast ==
    ASSUME NEW n \in Nat, NEW I \in SUBSET (1 .. n), I # {}
    PROVE  Min(I) \in I /\ \A i \in I : Min(I) <= i
  <1>1. I \in SUBSET Nat OBVIOUS
  <1>2. \E x \in I : \A y \in I : x <= y
    BY <1>1, LeastNumber
  <1> QED BY <1>2 DEF Min

\* Max likewise.
LEMMA MaxIsGreatest ==
    ASSUME NEW n \in Nat, NEW I \in SUBSET (1 .. n), I # {}
    PROVE  Max(I) \in I /\ \A i \in I : i <= Max(I)
  <1> DEFINE D == {n - i : i \in I}
  <1>0. \A i \in I : n - i \in Nat /\ i \in Nat
    OBVIOUS
  <1>1. D \in SUBSET Nat /\ D # {}
    BY <1>0
  <1>2. PICK d \in D : \A e \in D : d <= e
    BY <1>1, LeastNumber
  <1>3. PICK x \in I : d = n - x
    BY <1>2
  <1>4. \A y \in I : x >= y
    <2> SUFFICES ASSUME NEW y \in I PROVE x >= y
      OBVIOUS
    <2>1. n - y \in D OBVIOUS
    <2> QED BY <1>2, <1>3, <2>1
  <1>5. \E z \in I : \A y \in I : z >= y
    BY <1>4
  <1>6. Max(I) \in I /\ \A y \in I : Max(I) >= y
    BY <1>5 DEF Max
  <1> QED BY <1>6

\* FindCRLF returns the first CRLF, or 0.
LEMMA FirstCRLF ==
    ASSUME NEW b \in Seq(Tokens)
    PROVE  /\ FindCRLF(b) \in 0 .. Len(b)
           /\ FindCRLF(b) = 0 => \A i \in 1 .. Len(b) : b[i].kind # "crlf"
           /\ FindCRLF(b) # 0 => b[FindCRLF(b)].kind = "crlf"
  <1> DEFINE I == {i \in 1 .. Len(b) : b[i].kind = "crlf"}
  <1>1. FindCRLF(b) = IF I # {} THEN Min(I) ELSE 0
    BY DEF FindCRLF, SelectInSeq
  <1>2. Len(b) \in Nat /\ I \in SUBSET (1 .. Len(b))
    OBVIOUS
  <1>3. I # {} => Min(I) \in I
    BY <1>2, MinIsLeast
  <1> QED BY <1>1, <1>2, <1>3

\* FindLastCRLF returns the last one, or 0.
LEMMA LastCRLF ==
    ASSUME NEW b \in Seq(Tokens)
    PROVE  /\ FindLastCRLF(b) \in 0 .. Len(b)
           /\ \A i \in FindLastCRLF(b) + 1 .. Len(b) : b[i].kind # "crlf"
           /\ FindLastCRLF(b) # 0 => b[FindLastCRLF(b)].kind = "crlf"
  <1> DEFINE I == {i \in 1 .. Len(b) : b[i].kind = "crlf"}
  <1>1. FindLastCRLF(b) = IF I # {} THEN Max(I) ELSE 0
    BY DEF FindLastCRLF, SelectLastInSeq
  <1>2. Len(b) \in Nat /\ I \in SUBSET (1 .. Len(b))
    OBVIOUS
  <1>3. I # {} => Max(I) \in I /\ \A i \in I : i <= Max(I)
    BY <1>2, MaxIsGreatest
  <1>4. CASE I = {}
    BY <1>1, <1>2, <1>4
  <1>5. CASE I # {}
    <2>1. FindLastCRLF(b) \in I /\ \A i \in I : i <= FindLastCRLF(b)
      BY <1>1, <1>3, <1>5
    <2>2. FindLastCRLF(b) \in 1 .. Len(b) /\ b[FindLastCRLF(b)].kind = "crlf"
      BY <2>1
    <2>3. \A i \in FindLastCRLF(b) + 1 .. Len(b) : b[i].kind # "crlf"
      <3> SUFFICES ASSUME NEW i \in FindLastCRLF(b) + 1 .. Len(b) PROVE b[i].kind # "crlf"
        OBVIOUS
      <3>1. i \in 1 .. Len(b) /\ ~(i <= FindLastCRLF(b))
        BY <2>2
      <3>2. i \notin I
        BY <2>1, <3>1
      <3> QED BY <3>1, <3>2
    <2> QED BY <2>2, <2>3
  <1> QED BY <1>4, <1>5

\* Find returns the first header of a name, or 0.
LEMMA FirstHeader ==
    ASSUME NEW text \in Seq(Tokens), NEW header
    PROVE  /\ Find(text, header) \in 0 .. Len(text)
           /\ Find(text, header) = 0 => \A i \in 1 .. Len(text) : text[i].kind # header
           /\ Find(text, header) # 0 =>
                 /\ text[Find(text, header)].kind = header
                 /\ \A i \in 1 .. Len(text) : text[i].kind = header => Find(text, header) <= i
  <1> DEFINE I == {i \in 1 .. Len(text) : text[i].kind = header}
  <1>1. Find(text, header) = IF I # {} THEN Min(I) ELSE 0
    BY DEF Find, SelectInSeq
  <1>2. Len(text) \in Nat /\ I \in SUBSET (1 .. Len(text))
    OBVIOUS
  <1>3. I # {} => Min(I) \in I /\ \A i \in I : Min(I) <= i
    BY <1>2, MinIsLeast
  <1> QED BY <1>1, <1>2, <1>3

-----------------------------------------------------------------------------
(* Prefixes and suffixes.                                                  *)

\* What is left when d tokens are gone.
LEMMA DropFacts ==
    ASSUME NEW s \in Seq(Tokens), NEW d \in 0 .. Len(s)
    PROVE  /\ Drop(s, d) \in Seq(Tokens)
           /\ Len(Drop(s, d)) = Len(s) - d
           /\ \A i \in 1 .. Len(s) - d : Drop(s, d)[i] = s[d + i]
  <1>1. Len(s) \in Nat /\ d + 1 \in Int /\ Len(s) \in Int
    OBVIOUS
  <1>2. \A i \in d + 1 .. Len(s) : s[i] \in Tokens
    BY <1>1, ElementOfSeq
  <1>3. /\ Drop(s, d) \in Seq(Tokens)
        /\ Len(Drop(s, d)) = IF d + 1 <= Len(s) THEN Len(s) - (d + 1) + 1 ELSE 0
        /\ \A i \in 1 .. Len(s) - (d + 1) + 1 : Drop(s, d)[i] = s[(d + 1) + i - 1]
    BY <1>1, <1>2, SubSeqProperties DEF Drop
  <1> QED BY <1>1, <1>3

\* Dropping nothing and everything.
LEMMA DropEnds ==
    ASSUME NEW s \in Seq(Tokens)
    PROVE  Drop(s, 0) = s /\ Drop(s, Len(s)) = << >>
  <1>1. Len(s) \in Nat /\ << >> \in Seq(Tokens) /\ Len(<< >>) = 0
    BY EmptySeq
  <1>2. Drop(s, 0) = s
    BY <1>1, DropFacts, SeqEqual
  <1>3. Drop(s, Len(s)) = << >>
    <2>1. Drop(s, Len(s)) \in Seq(Tokens) /\ Len(Drop(s, Len(s))) = 0
      BY <1>1, DropFacts
    <2> QED BY <2>1, <1>1, SeqEqual
  <1> QED BY <1>2, <1>3

\* Dropping twice.
LEMMA DropDrop ==
    ASSUME NEW s \in Seq(Tokens), NEW d \in 0 .. Len(s), NEW e \in 0 .. Len(s) - d
    PROVE  Drop(Drop(s, d), e) = Drop(s, d + e)
  <1>1. Len(s) \in Nat /\ d + e \in 0 .. Len(s)
    OBVIOUS
  <1>2. /\ Drop(s, d) \in Seq(Tokens) /\ Len(Drop(s, d)) = Len(s) - d
        /\ \A i \in 1 .. Len(s) - d : Drop(s, d)[i] = s[d + i]
    BY DropFacts
  <1>3. /\ Drop(Drop(s, d), e) \in Seq(Tokens)
        /\ Len(Drop(Drop(s, d), e)) = Len(s) - d - e
        /\ \A i \in 1 .. Len(s) - d - e : Drop(Drop(s, d), e)[i] = Drop(s, d)[e + i]
    <2> DEFINE r == Drop(s, d)
    <2>1. e \in 0 .. Len(r) BY <1>2
    <2> HIDE DEF r
    <2>2. r \in Seq(Tokens) BY <1>2 DEF r
    <2>3. /\ Drop(r, e) \in Seq(Tokens) /\ Len(Drop(r, e)) = Len(r) - e
          /\ \A i \in 1 .. Len(r) - e : Drop(r, e)[i] = r[e + i]
      BY <2>1, <2>2, DropFacts
    <2> QED BY <1>2, <2>3 DEF r
  <1>4. /\ Drop(s, d + e) \in Seq(Tokens) /\ Len(Drop(s, d + e)) = Len(s) - (d + e)
        /\ \A i \in 1 .. Len(s) - (d + e) : Drop(s, d + e)[i] = s[(d + e) + i]
    BY <1>1, DropFacts
  <1>5. \A i \in 1 .. Len(s) - d - e : Drop(Drop(s, d), e)[i] = Drop(s, d + e)[i]
    <2> SUFFICES ASSUME NEW i \in 1 .. Len(s) - d - e
                 PROVE  Drop(Drop(s, d), e)[i] = Drop(s, d + e)[i]
      OBVIOUS
    <2>1. e + i \in 1 .. Len(s) - d /\ i \in 1 .. Len(s) - (d + e)
          /\ d + (e + i) = (d + e) + i
      BY <1>1
    <2> QED BY <2>1, <1>2, <1>3, <1>4
  <1>6. Len(Drop(Drop(s, d), e)) = Len(Drop(s, d + e))
    <2>1. Len(s) - d - e = Len(s) - (d + e)
      BY <1>1
    <2> QED BY <1>3, <1>4, <2>1
  <1> QED BY <1>3, <1>4, <1>5, <1>6, SeqEqual

\* Dropping from the front part.
LEMMA DropJoin ==
    ASSUME NEW s \in Seq(Tokens), NEW r \in Seq(Tokens), NEW d \in 0 .. Len(s)
    PROVE  Drop(s, d) \o r = Drop(s \o r, d)
  <1>1. Len(s) \in Nat /\ Len(r) \in Nat
    OBVIOUS
  <1>2. /\ Drop(s, d) \in Seq(Tokens) /\ Len(Drop(s, d)) = Len(s) - d
        /\ \A i \in 1 .. Len(s) - d : Drop(s, d)[i] = s[d + i]
    BY DropFacts
  <1>3. /\ s \o r \in Seq(Tokens) /\ Len(s \o r) = Len(s) + Len(r)
        /\ \A i \in 1 .. Len(s) + Len(r) : (s \o r)[i] =
              IF i <= Len(s) THEN s[i] ELSE r[i - Len(s)]
    BY ConcatProperties
  <1>4. /\ Drop(s, d) \o r \in Seq(Tokens) /\ Len(Drop(s, d) \o r) = (Len(s) - d) + Len(r)
        /\ \A i \in 1 .. (Len(s) - d) + Len(r) : (Drop(s, d) \o r)[i] =
              IF i <= Len(s) - d THEN Drop(s, d)[i] ELSE r[i - (Len(s) - d)]
    <2> DEFINE q == Drop(s, d)
    <2>1. q \in Seq(Tokens) /\ Len(q) = Len(s) - d
      BY <1>2
    <2> HIDE DEF q
    <2>2. /\ q \o r \in Seq(Tokens) /\ Len(q \o r) = Len(q) + Len(r)
          /\ \A i \in 1 .. Len(q) + Len(r) : (q \o r)[i] =
                IF i <= Len(q) THEN q[i] ELSE r[i - Len(q)]
      BY <2>1, ConcatProperties
    <2> QED BY <2>1, <2>2 DEF q
  <1>5. d \in 0 .. Len(s \o r)
    BY <1>1, <1>3
  <1>6. /\ Drop(s \o r, d) \in Seq(Tokens)
        /\ Len(Drop(s \o r, d)) = Len(s \o r) - d
        /\ \A i \in 1 .. Len(s \o r) - d : Drop(s \o r, d)[i] = (s \o r)[d + i]
    BY <1>3, <1>5, DropFacts
  <1>7. Len(Drop(s, d) \o r) = Len(Drop(s \o r, d))
    BY <1>1, <1>3, <1>4, <1>6
  <1>8. \A i \in 1 .. Len(Drop(s, d) \o r) : (Drop(s, d) \o r)[i] = Drop(s \o r, d)[i]
    <2> SUFFICES ASSUME NEW i \in 1 .. (Len(s) - d) + Len(r)
                 PROVE  (Drop(s, d) \o r)[i] = Drop(s \o r, d)[i]
      BY <1>4
    <2>1. Drop(s \o r, d)[i] = (s \o r)[d + i]
      BY <1>1, <1>3, <1>6
    <2>2. d + i \in 1 .. Len(s) + Len(r)
      BY <1>1
    <2>3. CASE i <= Len(s) - d
      <3>1. i \in 1 .. Len(s) - d /\ d + i <= Len(s)
        BY <1>1, <2>3
      <3> QED BY <1>2, <1>3, <1>4, <2>1, <2>2, <3>1
    <2>4. CASE ~(i <= Len(s) - d)
      <3>1. ~(d + i <= Len(s)) /\ (d + i) - Len(s) = i - (Len(s) - d)
        BY <1>1, <2>4
      <3> QED BY <1>3, <1>4, <2>1, <2>2, <2>4, <3>1
    <2> QED BY <2>3, <2>4
  <1> QED BY <1>4, <1>6, <1>7, <1>8, SeqEqual

\* A read takes the first n tokens of the wire and leaves the others.
LEMMA SplitJoin ==
    ASSUME NEW s \in Seq(Tokens), NEW r \in Seq(Tokens), NEW n \in 0 .. Len(r)
    PROVE  /\ s \o SubSeq(r, 1, n) \in Seq(Tokens)
           /\ Len(s \o SubSeq(r, 1, n)) = Len(s) + n
           /\ (s \o SubSeq(r, 1, n)) \o Drop(r, n) = s \o r
  <1> DEFINE f == SubSeq(r, 1, n)
             g == Drop(r, n)
  <1>1. Len(s) \in Nat /\ Len(r) \in Nat
    OBVIOUS
  <1>2. \A i \in 1 .. n : r[i] \in Tokens
    BY <1>1, ElementOfSeq
  <1>3. f \in Seq(Tokens) /\ Len(f) = n /\ \A i \in 1 .. n : f[i] = r[i]
    <2>1. /\ f \in Seq(Tokens)
          /\ Len(f) = IF 1 <= n THEN n - 1 + 1 ELSE 0
          /\ \A i \in 1 .. n - 1 + 1 : f[i] = r[1 + i - 1]
      BY <1>1, <1>2, SubSeqProperties
    <2> QED BY <1>1, <2>1
  <1>4. /\ g \in Seq(Tokens) /\ Len(g) = Len(r) - n
        /\ \A i \in 1 .. Len(r) - n : g[i] = r[n + i]
    BY DropFacts
  <1> HIDE DEF f, g
  <1>5. f \o g = r
    <2>1. /\ f \o g \in Seq(Tokens) /\ Len(f \o g) = n + (Len(r) - n)
          /\ \A i \in 1 .. n + (Len(r) - n) : (f \o g)[i] = IF i <= n THEN f[i] ELSE g[i - n]
      BY <1>3, <1>4, ConcatProperties
    <2>2. Len(f \o g) = Len(r)
      BY <1>1, <2>1
    <2>3. \A i \in 1 .. Len(r) : (f \o g)[i] = r[i]
      <3> SUFFICES ASSUME NEW i \in 1 .. Len(r) PROVE (f \o g)[i] = r[i]
        OBVIOUS
      <3>1. (f \o g)[i] = IF i <= n THEN f[i] ELSE g[i - n]
        BY <1>1, <2>1
      <3>2. CASE i <= n
        BY <1>3, <3>1, <3>2
      <3>3. CASE ~(i <= n)
        <4>1. i - n \in 1 .. Len(r) - n /\ n + (i - n) = i
          BY <1>1, <3>3
        <4> QED BY <1>4, <3>1, <3>3, <4>1
      <3> QED BY <3>2, <3>3
    <2> QED BY <2>1, <2>2, <2>3, SeqEqual
  <1>6. (s \o f) \o g = s \o (f \o g)
    BY <1>3, <1>4, ConcatAssociative, SMTT(20)
  <1>7. s \o f \in Seq(Tokens) /\ Len(s \o f) = Len(s) + n
    BY <1>3, ConcatProperties
  <1> QED BY <1>5, <1>6, <1>7 DEF f, g

\* Retrieve drops what is asked for, or all there is.
LEMMA RetrieveDrops ==
    ASSUME NEW b \in Seq(Tokens), NEW n \in Nat
    PROVE  \E d \in 0 .. Len(b) : Retrieve(b, n) = Drop(b, d) /\ (n <= Len(b) => d = n)
  <1>1. Len(b) \in Nat /\ Len(b) \in 0 .. Len(b)
    OBVIOUS
  <1>2. CASE n < Len(b)
    <2>1. n \in 0 .. Len(b) /\ Retrieve(b, n) = Drop(b, n)
      BY <1>1, <1>2 DEF Retrieve, Drop
    <2> QED BY <2>1
  <1>3. CASE ~(n < Len(b))
    <2>1. Retrieve(b, n) = Drop(b, Len(b))
      BY <1>3, DropEnds DEF Retrieve
    <2>2. n <= Len(b) => Len(b) = n
      BY <1>1, <1>3
    <2> QED BY <1>1, <2>1, <2>2
  <1> QED BY <1>2, <1>3

\* Purge drops nothing, or a buffer of two tokens or more.
LEMMA PurgeDrops ==
    ASSUME NEW b \in Seq(Tokens)
    PROVE  /\ \E d \in {0, Len(b)} : Purge(b) = Drop(b, d) /\ (d # 0 => Len(b) > 1)
           /\ Len(Purge(b)) <= MaxMessage
  <1>1. Len(b) \in Nat /\ MaxMessage \in Nat \ {0} /\ Len(<< >>) = 0
    BY RequestAssumption, EmptySeq
  <1>2. CASE Len(b) > MaxMessage
    BY <1>1, <1>2, DropEnds DEF Purge
  <1>3. CASE ~(Len(b) > MaxMessage)
    BY <1>1, <1>3, DropEnds DEF Purge
  <1> QED BY <1>2, <1>3

-----------------------------------------------------------------------------
(* The stream loses a prefix.                                              *)

\* What is left of a request is still that request's.
LEMMA RunDrop ==
    ASSUME NEW s \in Seq(Tokens), NEW d \in 0 .. Len(s), NEW k,
           NEW i \in d + 1 .. Len(s), NEW m \in i .. Len(s), Run(s, i, m, k)
    PROVE  Run(Drop(s, d), i - d, m - d, k)
  <1>1. /\ Len(s) \in Nat /\ Len(Drop(s, d)) = Len(s) - d
        /\ \A j \in 1 .. Len(s) - d : Drop(s, d)[j] = s[d + j]
    BY DropFacts
  <1> SUFFICES ASSUME NEW j \in i - d .. m - d
               PROVE  /\ Drop(s, d)[j].req = k
                      /\ Drop(s, d)[j].kind # "crlf" =>
                            j + 1 <= Len(Drop(s, d)) /\ Drop(s, d)[j + 1].kind = "crlf"
    BY DEF Run
  <1>2. j \in 1 .. Len(s) - d /\ d + j \in i .. m
    BY <1>1
  <1>3. /\ s[d + j].req = k
        /\ s[d + j].kind # "crlf" =>
              (d + j) + 1 <= Len(s) /\ s[(d + j) + 1].kind = "crlf"
    BY <1>2 DEF Run
  <1>4. Drop(s, d)[j] = s[d + j]
    BY <1>1, <1>2
  <1>5. ASSUME (d + j) + 1 <= Len(s)
        PROVE  j + 1 <= Len(Drop(s, d)) /\ Drop(s, d)[j + 1] = s[(d + j) + 1]
    <2>1. j + 1 \in 1 .. Len(s) - d /\ d + (j + 1) = (d + j) + 1
      BY <1>1, <1>2, <1>5
    <2> QED BY <1>1, <2>1
  <1> QED BY <1>3, <1>4, <1>5

\* So is the header that the parser waits for.
LEMMA TransportDrop ==
    ASSUME NEW s \in Seq(Tokens), NEW d \in 0 .. Len(s), NEW k,
           NEW i \in d + 1 .. Len(s), TransportAhead(s, i, k)
    PROVE  TransportAhead(Drop(s, d), i - d, k)
  <1>1. PICK t \in i .. Len(s) : Wins(k, s[t].kind) /\ Run(s, i, t, k)
    BY DEF TransportAhead
  <1>2. Run(Drop(s, d), i - d, t - d, k)
    BY <1>1, RunDrop
  <1>3. /\ Len(s) \in Nat /\ Len(Drop(s, d)) = Len(s) - d
        /\ \A j \in 1 .. Len(s) - d : Drop(s, d)[j] = s[d + j]
    BY DropFacts
  <1>4. t - d \in 1 .. Len(s) - d /\ d + (t - d) = t /\ t - d \in i - d .. Len(Drop(s, d))
    BY <1>3
  <1>5. Drop(s, d)[t - d] = s[t]
    BY <1>3, <1>4
  <1> QED BY <1>1, <1>2, <1>4, <1>5 DEF TransportAhead

\* So are the CSeq and what else the answer needs.
LEMMA CSeqDrop ==
    ASSUME NEW s \in Seq(Tokens), NEW d \in 0 .. Len(s), NEW k,
           NEW i \in d + 1 .. Len(s), CSeqAhead(s, i, k)
    PROVE  CSeqAhead(Drop(s, d), i - d, k)
  <1>1. PICK c \in i .. Len(s) :
           /\ s[c].kind = "CSeq" /\ Run(s, i, c, k)
           /\ Dialogue[k].method = "SETUP" /\ OwnTransport(k) =>
                 \/ NoneLater(k, Transports)
                 \/ \E t \in c + 1 .. Len(s) : Wins(k, s[t].kind) /\ Run(s, i, t, k)
    BY DEF CSeqAhead
  <1>2. /\ Len(s) \in Nat /\ Len(Drop(s, d)) = Len(s) - d
        /\ \A j \in 1 .. Len(s) - d : Drop(s, d)[j] = s[d + j]
    BY DropFacts
  <1>3. c - d \in i - d .. Len(Drop(s, d)) /\ Drop(s, d)[c - d] = s[c]
    <2>1. c - d \in 1 .. Len(s) - d /\ d + (c - d) = c /\ c - d \in i - d .. Len(s) - d
      BY <1>2
    <2> QED BY <1>2, <2>1
  <1>4. Run(Drop(s, d), i - d, c - d, k)
    BY <1>1, RunDrop
  <1>5. ASSUME NEW t \in c + 1 .. Len(s), Wins(k, s[t].kind), Run(s, i, t, k)
        PROVE  \E u \in (c - d) + 1 .. Len(Drop(s, d)) :
                  Wins(k, Drop(s, d)[u].kind) /\ Run(Drop(s, d), i - d, u, k)
    <2>1. /\ t \in i .. Len(s) /\ t - d \in 1 .. Len(s) - d /\ d + (t - d) = t
          /\ t - d \in (c - d) + 1 .. Len(s) - d
      BY <1>2
    <2>2. Run(Drop(s, d), i - d, t - d, k)
      BY <1>5, <2>1, RunDrop
    <2>3. Drop(s, d)[t - d] = s[t] /\ t - d \in (c - d) + 1 .. Len(Drop(s, d))
      BY <1>2, <2>1
    <2> QED BY <1>5, <2>2, <2>3
  <1>6. Dialogue[k].method = "SETUP" /\ OwnTransport(k) =>
           \/ NoneLater(k, Transports)
           \/ \E u \in (c - d) + 1 .. Len(Drop(s, d)) :
                 Wins(k, Drop(s, d)[u].kind) /\ Run(Drop(s, d), i - d, u, k)
    BY <1>1, <1>5
  <1> QED BY <1>1, <1>3, <1>4, <1>6 DEF CSeqAhead

\* The order of the requests is kept.
LEMMA StreamDrop ==
    ASSUME NEW s \in Seq(Tokens), NEW d \in 0 .. Len(s), StreamOK(s)
    PROVE  StreamOK(Drop(s, d))
  <1> DEFINE r == Drop(s, d)
  <1>1. /\ Len(s) \in Nat /\ Len(r) = Len(s) - d
        /\ \A j \in 1 .. Len(s) - d : r[j] = s[d + j]
    BY DropFacts
  <1>2. \A j \in 1 .. Len(r) : d + j \in d + 1 .. Len(s) /\ d + j \in 1 .. Len(s)
                               /\ r[j] = s[d + j] /\ (d + j) - d = j
    BY <1>1
  <1>3. ASSUME NEW i \in 1 .. Len(r), r[i].kind = "line"
        PROVE  CSeqAhead(r, i, r[i].req)
    <2>1. CSeqAhead(s, d + i, s[d + i].req)
      BY <1>2, <1>3 DEF StreamOK
    <2>2. CSeqAhead(r, (d + i) - d, s[d + i].req)
      BY <1>2, <2>1, CSeqDrop
    <2> QED BY <1>2, <2>2
  <1>4. ASSUME NEW i \in 1 .. Len(r), NEW j \in 1 .. Len(r), i < j
        PROVE  /\ r[i].req # 0 /\ r[j].req # 0 => r[i].req <= r[j].req
               /\ r[i].kind = "line" /\ r[j].kind = "line" => r[i].req < r[j].req
    <2>1. d + i < d + j
      BY <1>1, <1>4
    <2> QED BY <1>2, <2>1 DEF StreamOK
  <1> HIDE DEF r
  <1>5. StreamOK(r)
    BY <1>3, <1>4 DEF StreamOK
  <1> QED BY <1>5 DEF r

-----------------------------------------------------------------------------
(* The stream gains a message.                                             *)

\* The tokens of a joined stream.
LEMMA JoinFacts ==
    ASSUME NEW s \in Seq(Tokens), NEW r \in Seq(Tokens)
    PROVE  /\ s \o r \in Seq(Tokens)
           /\ Len(s) \in Nat /\ Len(r) \in Nat /\ Len(s \o r) = Len(s) + Len(r)
           /\ \A i \in 1 .. Len(s) : (s \o r)[i] = s[i]
           /\ \A j \in 1 .. Len(r) : (s \o r)[Len(s) + j] = r[j]
           /\ \A i \in 1 .. Len(s) + Len(r) : i \in 1 .. Len(s) \/ i - Len(s) \in 1 .. Len(r)
  <1>1. Len(s) \in Nat /\ Len(r) \in Nat
    OBVIOUS
  <1>2. /\ s \o r \in Seq(Tokens) /\ Len(s \o r) = Len(s) + Len(r)
        /\ \A i \in 1 .. Len(s) + Len(r) : (s \o r)[i] =
              IF i <= Len(s) THEN s[i] ELSE r[i - Len(s)]
    BY ConcatProperties
  <1>3. \A i \in 1 .. Len(s) : (s \o r)[i] = s[i]
    BY <1>1, <1>2
  <1>4. \A j \in 1 .. Len(r) : (s \o r)[Len(s) + j] = r[j]
    <2> SUFFICES ASSUME NEW j \in 1 .. Len(r) PROVE (s \o r)[Len(s) + j] = r[j]
      OBVIOUS
    <2>1. /\ Len(s) + j \in 1 .. Len(s) + Len(r) /\ ~(Len(s) + j <= Len(s))
          /\ (Len(s) + j) - Len(s) = j
      BY <1>1
    <2> QED BY <1>2, <2>1
  <1> QED BY <1>1, <1>2, <1>3, <1>4

\* What the stream begins with stays.
LEMMA RunJoin ==
    ASSUME NEW s \in Seq(Tokens), NEW r \in Seq(Tokens), NEW k,
           NEW i \in 1 .. Len(s), NEW m \in i .. Len(s), Run(s, i, m, k)
    PROVE  Run(s \o r, i, m, k)
  <1>1. /\ Len(s) \in Nat /\ Len(r) \in Nat /\ Len(s \o r) = Len(s) + Len(r)
        /\ \A j \in 1 .. Len(s) : (s \o r)[j] = s[j]
    BY JoinFacts
  <1> SUFFICES ASSUME NEW j \in i .. m
               PROVE  /\ (s \o r)[j].req = k
                      /\ (s \o r)[j].kind # "crlf" =>
                            j + 1 <= Len(s \o r) /\ (s \o r)[j + 1].kind = "crlf"
    BY DEF Run
  <1>2. /\ s[j].req = k
        /\ s[j].kind # "crlf" => j + 1 <= Len(s) /\ s[j + 1].kind = "crlf"
    BY DEF Run
  <1>3. j \in 1 .. Len(s) /\ (j + 1 <= Len(s) => j + 1 \in 1 .. Len(s) /\ j + 1 <= Len(s \o r))
    BY <1>1
  <1> QED BY <1>1, <1>2, <1>3

\* So does the Transport header that is waited for.
LEMMA TransportJoin ==
    ASSUME NEW s \in Seq(Tokens), NEW r \in Seq(Tokens), NEW k,
           NEW i \in 1 .. Len(s), TransportAhead(s, i, k)
    PROVE  TransportAhead(s \o r, i, k)
  <1>1. PICK t \in i .. Len(s) : Wins(k, s[t].kind) /\ Run(s, i, t, k)
    BY DEF TransportAhead
  <1>2. Run(s \o r, i, t, k)
    BY <1>1, RunJoin
  <1>3. t \in 1 .. Len(s) /\ t \in i .. Len(s \o r)
    BY JoinFacts
  <1>4. (s \o r)[t] = s[t]
    BY <1>3, JoinFacts
  <1> QED BY <1>1, <1>2, <1>3, <1>4 DEF TransportAhead

\* And the CSeq.
LEMMA CSeqJoin ==
    ASSUME NEW s \in Seq(Tokens), NEW r \in Seq(Tokens), NEW k,
           NEW i \in 1 .. Len(s), CSeqAhead(s, i, k)
    PROVE  CSeqAhead(s \o r, i, k)
  <1>1. PICK c \in i .. Len(s) :
           /\ s[c].kind = "CSeq" /\ Run(s, i, c, k)
           /\ Dialogue[k].method = "SETUP" /\ OwnTransport(k) =>
                 \/ NoneLater(k, Transports)
                 \/ \E t \in c + 1 .. Len(s) : Wins(k, s[t].kind) /\ Run(s, i, t, k)
    BY DEF CSeqAhead
  <1>2. Run(s \o r, i, c, k)
    BY <1>1, RunJoin
  <1>3. c \in 1 .. Len(s) /\ c \in i .. Len(s \o r)
    BY JoinFacts
  <1>4. (s \o r)[c] = s[c]
    BY <1>3, JoinFacts
  <1>5. ASSUME NEW t \in c + 1 .. Len(s), Wins(k, s[t].kind), Run(s, i, t, k)
        PROVE  \E u \in c + 1 .. Len(s \o r) :
                  Wins(k, (s \o r)[u].kind) /\ Run(s \o r, i, u, k)
    <2>1. t \in 1 .. Len(s) /\ t \in i .. Len(s) /\ t \in c + 1 .. Len(s \o r)
      BY <1>3, JoinFacts
    <2>2. Run(s \o r, i, t, k)
      BY <1>5, <2>1, RunJoin
    <2>3. (s \o r)[t] = s[t]
      BY <2>1, JoinFacts
    <2> QED BY <1>5, <2>1, <2>2, <2>3
  <1>6. Dialogue[k].method = "SETUP" /\ OwnTransport(k) =>
           \/ NoneLater(k, Transports)
           \/ \E u \in c + 1 .. Len(s \o r) :
                 Wins(k, (s \o r)[u].kind) /\ Run(s \o r, i, u, k)
    BY <1>1, <1>5
  <1> QED BY <1>1, <1>2, <1>3, <1>4, <1>6 DEF CSeqAhead

\* And the message behind it is the one that was sent.
LEMMA RunBehind ==
    ASSUME NEW s \in Seq(Tokens), NEW r \in Seq(Tokens), NEW k,
           NEW i \in 1 .. Len(r), NEW m \in i .. Len(r), Run(r, i, m, k)
    PROVE  Run(s \o r, Len(s) + i, Len(s) + m, k)
  <1>1. /\ Len(s) \in Nat /\ Len(r) \in Nat /\ Len(s \o r) = Len(s) + Len(r)
        /\ \A j \in 1 .. Len(r) : (s \o r)[Len(s) + j] = r[j]
    BY JoinFacts
  <1> SUFFICES ASSUME NEW q \in Len(s) + i .. Len(s) + m
               PROVE  /\ (s \o r)[q].req = k
                      /\ (s \o r)[q].kind # "crlf" =>
                            q + 1 <= Len(s \o r) /\ (s \o r)[q + 1].kind = "crlf"
    BY DEF Run
  <1> DEFINE j == q - Len(s)
  <1>2. j \in i .. m /\ j \in 1 .. Len(r) /\ q = Len(s) + j
        /\ (j + 1 <= Len(r) => j + 1 \in 1 .. Len(r) /\ q + 1 = Len(s) + (j + 1)
                               /\ q + 1 <= Len(s \o r))
    BY <1>1
  <1> HIDE DEF j
  <1>3. /\ r[j].req = k
        /\ r[j].kind # "crlf" => j + 1 <= Len(r) /\ r[j + 1].kind = "crlf"
    BY <1>2 DEF Run
  <1>4. (s \o r)[q] = r[j]
    BY <1>1, <1>2
  <1>5. j + 1 <= Len(r) => (s \o r)[q + 1] = r[j + 1]
    BY <1>1, <1>2
  <1> QED BY <1>2, <1>3, <1>4, <1>5

\* A request line of the message has its request behind it.
LEMMA CSeqBehind ==
    ASSUME NEW s \in Seq(Tokens), NEW r \in Seq(Tokens), NEW k,
           NEW i \in 1 .. Len(r), CSeqAhead(r, i, k)
    PROVE  CSeqAhead(s \o r, Len(s) + i, k)
  <1>1. PICK c \in i .. Len(r) :
           /\ r[c].kind = "CSeq" /\ Run(r, i, c, k)
           /\ Dialogue[k].method = "SETUP" /\ OwnTransport(k) =>
                 \/ NoneLater(k, Transports)
                 \/ \E t \in c + 1 .. Len(r) : Wins(k, r[t].kind) /\ Run(r, i, t, k)
    BY DEF CSeqAhead
  <1>2. Run(s \o r, Len(s) + i, Len(s) + c, k)
    BY <1>1, RunBehind
  <1>3. c \in 1 .. Len(r) /\ Len(s) + c \in Len(s) + i .. Len(s \o r)
    BY JoinFacts
  <1>4. (s \o r)[Len(s) + c] = r[c]
    BY <1>3, JoinFacts
  <1>5. ASSUME NEW t \in c + 1 .. Len(r), Wins(k, r[t].kind), Run(r, i, t, k)
        PROVE  \E u \in (Len(s) + c) + 1 .. Len(s \o r) :
                  Wins(k, (s \o r)[u].kind) /\ Run(s \o r, Len(s) + i, u, k)
    <2>1. t \in 1 .. Len(r) /\ t \in i .. Len(r) /\ Len(s) + t \in (Len(s) + c) + 1 .. Len(s \o r)
      BY <1>3, JoinFacts
    <2>2. Run(s \o r, Len(s) + i, Len(s) + t, k)
      BY <1>5, <2>1, RunBehind
    <2>3. (s \o r)[Len(s) + t] = r[t]
      BY <2>1, JoinFacts
    <2> QED BY <1>5, <2>1, <2>2, <2>3
  <1>6. Dialogue[k].method = "SETUP" /\ OwnTransport(k) =>
           \/ NoneLater(k, Transports)
           \/ \E u \in (Len(s) + c) + 1 .. Len(s \o r) :
                 Wins(k, (s \o r)[u].kind) /\ Run(s \o r, Len(s) + i, u, k)
    BY <1>1, <1>5
  <1> QED BY <1>1, <1>2, <1>3, <1>4, <1>6 DEF CSeqAhead

\* A message of a later request, or of none, keeps the order.
LEMMA StreamJoin ==
    ASSUME NEW s \in Seq(Tokens), NEW r \in Seq(Tokens), StreamOK(s), StreamOK(r),
           \A i \in 1 .. Len(s), j \in 1 .. Len(r) : r[j].req = 0 \/ s[i].req < r[j].req
    PROVE  StreamOK(s \o r)
  <1> DEFINE q == s \o r
  <1>1. /\ q \in Seq(Tokens)
        /\ Len(s) \in Nat /\ Len(r) \in Nat /\ Len(q) = Len(s) + Len(r)
        /\ \A i \in 1 .. Len(s) : q[i] = s[i]
        /\ \A j \in 1 .. Len(r) : q[Len(s) + j] = r[j]
    BY JoinFacts
  <1>2. \A i \in 1 .. Len(s) : s[i] \in Tokens
    BY ElementOfSeq
  <1>3. \A i \in 1 .. Len(r) : r[i] \in Tokens
    BY ElementOfSeq
  <1>4. \A i \in 1 .. Len(q) :
           \/ i \in 1 .. Len(s) /\ q[i] = s[i]
           \/ /\ i - Len(s) \in 1 .. Len(r) /\ q[i] = r[i - Len(s)]
              /\ Len(s) + (i - Len(s)) = i /\ ~(i \in 1 .. Len(s))
    <2> SUFFICES ASSUME NEW i \in 1 .. Len(q), ~(i \in 1 .. Len(s))
                 PROVE  /\ i - Len(s) \in 1 .. Len(r) /\ q[i] = r[i - Len(s)]
                        /\ Len(s) + (i - Len(s)) = i
      BY <1>1
    <2>1. i - Len(s) \in 1 .. Len(r) /\ Len(s) + (i - Len(s)) = i
      BY <1>1
    <2> QED BY <1>1, <2>1
  <1>5. ASSUME NEW i \in 1 .. Len(q), NEW j \in 1 .. Len(q), i < j
        PROVE  /\ q[i].req # 0 /\ q[j].req # 0 => q[i].req <= q[j].req
               /\ q[i].kind = "line" /\ q[j].kind = "line" => q[i].req < q[j].req
    <2>1. CASE i \in 1 .. Len(s) /\ j \in 1 .. Len(s)
      BY <1>1, <1>5, <2>1 DEF StreamOK
    <2>2. CASE i \in 1 .. Len(s) /\ ~(j \in 1 .. Len(s))
      <3>1. j - Len(s) \in 1 .. Len(r) /\ q[j] = r[j - Len(s)] /\ q[i] = s[i]
        BY <1>4, <2>2
      <3>2. q[j].req = 0 \/ q[i].req < q[j].req
        BY <2>2, <3>1
      <3>3. q[i].req \in Nat /\ q[j].req \in Nat /\ (q[j].kind = "line" => q[j].req # 0)
        <4>1. q[i] \in Tokens /\ q[j] \in Tokens
          BY <1>2, <1>3, <2>2, <3>1
        <4> QED BY <4>1, TokenFacts
      <3> QED BY <3>2, <3>3
    <2>3. CASE ~(i \in 1 .. Len(s)) /\ ~(j \in 1 .. Len(s))
      <3>1. /\ i - Len(s) \in 1 .. Len(r) /\ q[i] = r[i - Len(s)]
            /\ j - Len(s) \in 1 .. Len(r) /\ q[j] = r[j - Len(s)]
            /\ i - Len(s) < j - Len(s)
        BY <1>1, <1>4, <1>5, <2>3
      <3> QED BY <3>1 DEF StreamOK
    <2>4. CASE ~(i \in 1 .. Len(s)) /\ j \in 1 .. Len(s)
      BY <1>1, <1>5, <2>4
    <2> QED BY <2>1, <2>2, <2>3, <2>4
  <1>6. ASSUME NEW i \in 1 .. Len(q), q[i].kind = "line"
        PROVE  CSeqAhead(q, i, q[i].req)
    <2>1. CASE i \in 1 .. Len(s)
      <3>1. CSeqAhead(s, i, s[i].req)
        BY <1>1, <1>6, <2>1 DEF StreamOK
      <3>2. CSeqAhead(q, i, s[i].req)
        BY <2>1, <3>1, CSeqJoin
      <3> QED BY <1>1, <2>1, <3>2
    <2>2. CASE ~(i \in 1 .. Len(s))
      <3>1. i - Len(s) \in 1 .. Len(r) /\ q[i] = r[i - Len(s)] /\ Len(s) + (i - Len(s)) = i
        BY <1>4, <2>2
      <3>2. CSeqAhead(r, i - Len(s), q[i].req)
        BY <1>6, <3>1 DEF StreamOK
      <3>3. CSeqAhead(q, Len(s) + (i - Len(s)), q[i].req)
        BY <3>1, <3>2, CSeqBehind
      <3> QED BY <3>1, <3>3
    <2> QED BY <2>1, <2>2
  <1> HIDE DEF q
  <1>7. StreamOK(q)
    BY <1>5, <1>6 DEF StreamOK
  <1> QED BY <1>7 DEF q

-----------------------------------------------------------------------------
(* The client's messages.                                                  *)

\* The texts of a request.
LEMMA TextsFacts ==
    ASSUME NEW k \in 1 .. Len(Dialogue)
    PROVE  /\ Len(Texts(k)) \in Nat /\ Len(Texts(k)) = Len(Dialogue[k].headers) + 1
           /\ Texts(k)[1] = "line"
           /\ \A h \in 1 .. Len(Dialogue[k].headers) : Texts(k)[h + 1] = Dialogue[k].headers[h]
  <1> DEFINE hs == Dialogue[k].headers
             texts == <<"line">> \o hs
  <1>1. hs \in Seq(Headers) /\ Len(hs) \in Nat
    BY DialogueFacts
  <1> HIDE DEF hs
  <1>2. /\ Len(texts) = Len(hs) + 1 /\ texts[1] = "line"
        /\ \A h \in 1 .. Len(hs) : texts[h + 1] = hs[h]
    BY <1>1
  <1> QED BY <1>1, <1>2 DEF hs, Texts

\* Its tokens one by one.
LEMMA RequestTokens ==
    ASSUME NEW k \in 1 .. Len(Dialogue)
    PROVE  LET n == Len(Dialogue[k].headers) + 1
           IN  /\ n \in Nat /\ n >= 1
               /\ Request(k) \in Seq(Tokens) /\ Len(Request(k)) = 2 * n + 1
               /\ \A i \in 1 .. 2 * n + 1 : Request(k)[i].req = k
               /\ \A i \in 1 .. 2 * n + 1 :
                     IF i % 2 = 1 /\ i # 2 * n + 1
                     THEN Request(k)[i].kind = Texts(k)[(i + 1) \div 2]
                     ELSE Request(k)[i].kind = "crlf"
               /\ \A i \in 1 .. 2 * n + 1 : Request(k)[i].kind = "line" => i = 1
  <1> DEFINE n == Len(Dialogue[k].headers) + 1
  <1>1. /\ n \in Nat /\ n >= 1 /\ n = Len(Texts(k))
        /\ Request(k) = [i \in 1 .. 2 * n + 1 |->
                     IF i = 2 * n + 1 THEN LastToken("crlf", k)
                     ELSE Token(IF i % 2 = 1 THEN Texts(k)[(i + 1) \div 2] ELSE "crlf", k)]
    <2>1. n \in Nat /\ n >= 1 /\ n = Len(Texts(k))
      BY DialogueFacts, TextsFacts
    <2> HIDE DEF n
    <2> QED BY <2>1 DEF Request
  <1>2. \A i \in 1 .. n : /\ Texts(k)[i] \in {"line"} \cup Headers
                          /\ Texts(k)[i] = "line" => i = 1
                          /\ Texts(k)[i] \in Transports => Has(k, Texts(k)[i])
    <2> SUFFICES ASSUME NEW i \in 1 .. n
                 PROVE  /\ Texts(k)[i] \in {"line"} \cup Headers
                        /\ Texts(k)[i] = "line" => i = 1
                        /\ Texts(k)[i] \in Transports => Has(k, Texts(k)[i])
      OBVIOUS
    <2>1. CASE i = 1
      BY <2>1, TextsFacts DEF Transports
    <2>2. CASE i # 1
      <3>1. i - 1 \in 1 .. Len(Dialogue[k].headers) /\ (i - 1) + 1 = i
        BY <1>1, <2>2, DialogueFacts
      <3>2. Texts(k)[i] = Dialogue[k].headers[i - 1]
        BY <3>1, TextsFacts
      <3>3. Dialogue[k].headers[i - 1] \in Headers
        BY <3>1, DialogueFacts
      <3>4. Has(k, Texts(k)[i])
        BY <3>1, <3>2 DEF Has
      <3> QED BY <3>2, <3>3, <3>4 DEF Headers, Transports
    <2> QED BY <2>1, <2>2
  <1> HIDE DEF n
  <1>3. /\ LastToken("crlf", k) = [kind |-> "crlf", req |-> k, end |-> TRUE]
        /\ \A x : Token(x, k) = [kind |-> x, req |-> k, end |-> FALSE]
    BY DEF LastToken, Token
  <1>4. ASSUME NEW i \in 1 .. 2 * n + 1
        PROVE  /\ Request(k)[i] \in Tokens /\ Request(k)[i].req = k
               /\ IF i % 2 = 1 /\ i # 2 * n + 1
                  THEN Request(k)[i].kind = Texts(k)[(i + 1) \div 2]
                  ELSE Request(k)[i].kind = "crlf"
               /\ Request(k)[i].kind = "line" => i = 1
    <2>0. k \in 0 .. Len(Dialogue) /\ k # 0
      BY DialogueFacts
    <2>1. CASE i % 2 = 1 /\ i # 2 * n + 1
      <3>1. Request(k)[i] = Token(Texts(k)[(i + 1) \div 2], k)
        BY <1>1, <2>1
      <3>2. (i + 1) \div 2 \in 1 .. n /\ ((i + 1) \div 2 = 1 => i = 1)
        BY <1>1, <2>1
      <3> DEFINE x == Texts(k)[(i + 1) \div 2]
      <3>3. /\ x \in {"line"} \cup Headers /\ (x = "line" => i = 1)
            /\ (x \in Transports => Has(k, x))
        BY <1>2, <3>2
      <3> HIDE DEF x
      <3>4. Request(k)[i] = [kind |-> x, req |-> k, end |-> FALSE]
        BY <1>3, <3>1 DEF x
      <3>5. [kind |-> x, req |-> k, end |-> FALSE] \in Tokens
        BY <2>0, <3>3 DEF Tokens, Kinds, RtcpKinds, Headers, Transports
      <3> QED BY <2>1, <3>3, <3>4, <3>5 DEF x
    <2>2. CASE ~(i % 2 = 1 /\ i # 2 * n + 1)
      <3>1. \/ Request(k)[i] = [kind |-> "crlf", req |-> k, end |-> TRUE]
            \/ Request(k)[i] = [kind |-> "crlf", req |-> k, end |-> FALSE]
        <4>1. i = 2 * n + 1 \/ (i # 2 * n + 1 /\ i % 2 = 0)
          BY <1>1, <2>2
        <4>2. CASE i = 2 * n + 1
          BY <1>1, <1>3, <4>2
        <4>3. CASE i # 2 * n + 1 /\ i % 2 = 0
          <5>1. Request(k)[i] = Token("crlf", k)
            BY <1>1, <4>3
          <5> QED BY <1>3, <5>1
        <4> QED BY <4>1, <4>2, <4>3
      <3>2. /\ [kind |-> "crlf", req |-> k, end |-> TRUE] \in Tokens
            /\ [kind |-> "crlf", req |-> k, end |-> FALSE] \in Tokens
        BY <2>0 DEF Tokens, Kinds, RtcpKinds, Transports
      <3> QED BY <2>2, <3>1, <3>2
    <2> QED BY <2>1, <2>2
  <1>5. Request(k) \in Seq(Tokens) /\ Len(Request(k)) = 2 * n + 1
    <2>1. 2 * n + 1 \in Nat
      BY <1>1
    <2>2. /\ DOMAIN Request(k) = 1 .. 2 * n + 1
          /\ Request(k) = [i \in 1 .. 2 * n + 1 |-> Request(k)[i]]
      BY <1>1
    <2>3. Request(k) \in [1 .. 2 * n + 1 -> Tokens]
      BY <1>4, <2>2
    <2> QED BY <2>1, <2>3
  <1>6. /\ n \in Nat /\ n >= 1
        /\ Request(k) \in Seq(Tokens) /\ Len(Request(k)) = 2 * n + 1
        /\ \A i \in 1 .. 2 * n + 1 : Request(k)[i].req = k
        /\ \A i \in 1 .. 2 * n + 1 :
              IF i % 2 = 1 /\ i # 2 * n + 1
              THEN Request(k)[i].kind = Texts(k)[(i + 1) \div 2]
              ELSE Request(k)[i].kind = "crlf"
        /\ \A i \in 1 .. 2 * n + 1 : Request(k)[i].kind = "line" => i = 1
    BY <1>1, <1>4, <1>5
  <1> QED BY <1>6 DEF n

\* It is the request that the parser expects behind the request line.
LEMMA RequestIsOK ==
    ASSUME NEW k \in 1 .. Len(Dialogue)
    PROVE  StreamOK(Request(k))
  <1> DEFINE n == Len(Dialogue[k].headers) + 1
             s == Request(k)
  <1>1. /\ n \in Nat /\ n >= 1 /\ s \in Seq(Tokens) /\ Len(s) = 2 * n + 1
        /\ \A i \in 1 .. 2 * n + 1 : s[i].req = k
        /\ \A i \in 1 .. 2 * n + 1 :
              IF i % 2 = 1 /\ i # 2 * n + 1
              THEN s[i].kind = Texts(k)[(i + 1) \div 2]
              ELSE s[i].kind = "crlf"
        /\ \A i \in 1 .. 2 * n + 1 : s[i].kind = "line" => i = 1
    BY RequestTokens
  <1>2. k \in Nat /\ Len(Dialogue[k].headers) = n - 1
    BY DialogueFacts
  <1> HIDE DEF n, s
  <1>3. \A m \in 1 .. 2 * n : Run(s, 1, m, k)
    <2> SUFFICES ASSUME NEW m \in 1 .. 2 * n, NEW j \in 1 .. m
                 PROVE  /\ s[j].req = k
                        /\ s[j].kind # "crlf" => j + 1 <= Len(s) /\ s[j + 1].kind = "crlf"
      BY DEF Run
    <2>1. j \in 1 .. 2 * n + 1 /\ j + 1 \in 1 .. 2 * n + 1
      BY <1>1
    <2>2. s[j].kind # "crlf" => j % 2 = 1
      BY <1>1, <2>1
    <2>3. j % 2 = 1 => ~((j + 1) % 2 = 1)
      BY <2>1
    <2> QED BY <1>1, <2>1, <2>2, <2>3
  <1>4. \A h \in 1 .. n - 1 : /\ 2 * h + 1 \in 1 .. 2 * n
                              /\ s[2 * h + 1].kind = Dialogue[k].headers[h]
    <2> SUFFICES ASSUME NEW h \in 1 .. n - 1
                 PROVE  2 * h + 1 \in 1 .. 2 * n /\ s[2 * h + 1].kind = Dialogue[k].headers[h]
      OBVIOUS
    <2> DEFINE i == 2 * h + 1
    <2>1. /\ i \in 1 .. 2 * n /\ i \in 1 .. 2 * n + 1 /\ i % 2 = 1 /\ i # 2 * n + 1
          /\ (i + 1) \div 2 = h + 1 /\ h + 1 # 1 /\ (h + 1) - 1 = h
      BY <1>1
    <2> HIDE DEF i
    <2>2. s[i].kind = Texts(k)[h + 1]
      BY <1>1, <2>1
    <2>3. Texts(k)[h + 1] = Dialogue[k].headers[h]
      BY <1>2, TextsFacts
    <2> QED BY <2>1, <2>2, <2>3 DEF i
  <1>5. CSeqAhead(s, 1, k)
    <2>1. ASSUME NEW c \in 1 .. n - 1, Dialogue[k].headers[c] = "CSeq"
          PROVE  /\ 2 * c + 1 \in 1 .. Len(s) /\ s[2 * c + 1].kind = "CSeq"
                 /\ Run(s, 1, 2 * c + 1, k)
      BY <1>1, <1>3, <1>4, <2>1
    <2>2. CASE NoneLater(k, Transports) \/ ~OwnTransport(k)
      <3>1. PICK c \in 1 .. n - 1 : Dialogue[k].headers[c] = "CSeq"
        BY <1>2, RequestAssumption
      <3> QED BY <2>1, <2>2, <3>1 DEF CSeqAhead
    <2>3. CASE ~NoneLater(k, Transports) /\ OwnTransport(k)
      <3>1. PICK c \in 1 .. n - 1, h \in 1 .. n - 1 :
               /\ c < h /\ Dialogue[k].headers[c] = "CSeq"
               /\ Wins(k, Dialogue[k].headers[h])
        BY <1>2, <2>3 DEF OwnTransport
      <3>2. 2 * h + 1 \in (2 * c + 1) + 1 .. Len(s)
        BY <1>1, <3>1
      <3>3. Wins(k, s[2 * h + 1].kind) /\ Run(s, 1, 2 * h + 1, k)
        BY <1>3, <1>4, <3>1
      <3> QED BY <2>1, <3>1, <3>2, <3>3 DEF CSeqAhead
    <2> QED BY <2>2, <2>3
  <1>6. StreamOK(s)
    BY <1>1, <1>2, <1>5 DEF StreamOK
  <1> QED BY <1>6 DEF s

\* RTCP frames belong to no request.
LEMMA RtcpTokens ==
    ASSUME NEW length \in RtcpLengths
    PROVE  /\ RtcpFrame(length) \in Seq(Tokens) /\ StreamOK(RtcpFrame(length))
           /\ \A i \in 1 .. Len(RtcpFrame(length)) :
                 RtcpFrame(length)[i].req = 0 /\ RtcpFrame(length)[i].kind # "line"
  <1> DEFINE s == RtcpFrame(length)
  <1>1. length \in {"short", "long", "wrapped"} /\ 0 \in 0 .. Len(Dialogue)
    BY RequestAssumption, DialogueFacts
  <1>2. s = <<[kind |-> length, req |-> 0, end |-> FALSE],
              [kind |-> "body", req |-> 0, end |-> FALSE],
              [kind |-> "body", req |-> 0, end |-> TRUE]>>
    BY DEF RtcpFrame, LastToken, Token
  <1>3. /\ [kind |-> length, req |-> 0, end |-> FALSE] \in Tokens
        /\ [kind |-> "body", req |-> 0, end |-> FALSE] \in Tokens
        /\ [kind |-> "body", req |-> 0, end |-> TRUE] \in Tokens
    BY <1>1 DEF Tokens, Kinds, RtcpKinds, Transports
  <1>4. /\ s \in Seq(Tokens) /\ Len(s) = 3
        /\ \A i \in 1 .. 3 : s[i].req = 0 /\ s[i].kind # "line"
    BY <1>1, <1>2, <1>3
  <1> HIDE DEF s
  <1>5. StreamOK(s)
    BY <1>4 DEF StreamOK
  <1> QED BY <1>4, <1>5 DEF s

-----------------------------------------------------------------------------
(* What handleRtspMessage does with the buffer.                            *)

\* It drops a part of it, and leaves no more than the limit.
Leaves(b, d) == buf' = Drop(b, d) /\ Len(buf') <= MaxMessage

\* The end of every case: what was retrieved, and then the purge.
LEMMA PurgeLeaves ==
    ASSUME NEW b \in Seq(Tokens), NEW e \in 0 .. Len(b), buf' = Purge(Drop(b, e))
    PROVE  \E d \in {e, Len(b)} : Leaves(b, d) /\ (d # e => Len(b) - e > 1)
  <1>1. /\ Len(b) \in Nat /\ Drop(b, e) \in Seq(Tokens) /\ Len(Drop(b, e)) = Len(b) - e
    BY DropFacts
  <1> DEFINE r == Drop(b, e)
  <1>2. PICK d \in {0, Len(r)} : Purge(r) = Drop(r, d) /\ (d # 0 => Len(r) > 1)
    BY <1>1, PurgeDrops
  <1>3. Len(Purge(r)) <= MaxMessage
    BY <1>1, PurgeDrops
  <1>4. d \in 0 .. Len(b) - e /\ e + d \in {e, Len(b)}
    BY <1>1, <1>2
  <1>5. Drop(r, d) = Drop(b, e + d)
    BY <1>4, DropDrop
  <1>6. e + d # e => Len(b) - e > 1
    BY <1>1, <1>2, <1>4
  <1>7. Leaves(b, e + d)
    BY <1>2, <1>3, <1>5 DEF Leaves
  <1> QED BY <1>4, <1>6, <1>7

\* handleRtcp drops a prefix of what it is called on.
LEMMA RtcpDrops ==
    ASSUME NEW b \in Seq(Tokens)
    PROVE  \E e \in 0 .. Len(b) : AfterRtcp(b) = Drop(b, e)
  <1>1. Len(b) \in Nat
    OBVIOUS
  <1>2. CASE Len(b) > 1 /\ IsRtcp(b[1]) /\ Declared(b[1]) >= Len(b)
    <2>1. Declared(b[1]) \in Nat
      BY <1>2 DEF Declared, IsRtcp
    <2>2. AfterRtcp(b) = Retrieve(b, Declared(b[1]))
      BY <1>2 DEF AfterRtcp
    <2> QED BY <2>1, <2>2, RetrieveDrops
  <1>3. CASE ~(Len(b) > 1 /\ IsRtcp(b[1]) /\ Declared(b[1]) >= Len(b))
    <2>1. AfterRtcp(b) = b
      BY <1>3 DEF AfterRtcp
    <2> QED BY <1>1, <2>1, DropEnds
  <1> QED BY <1>2, <1>3

\* An RTCP frame.
LEMMA RtcpCase ==
    ASSUME NEW b \in Seq(Tokens), OnRtcp(b)
    PROVE  \E d \in 0 .. Len(b) : Leaves(b, d)
  <1>1. Len(b) \in Nat
    OBVIOUS
  <1>2. PICK e \in 0 .. Len(b) : AfterRtcp(b) = Drop(b, e)
    BY RtcpDrops
  <1>3. buf' = Purge(Drop(b, e))
    BY <1>2 DEF OnRtcp
  <1>4. PICK d \in {e, Len(b)} : Leaves(b, d)
    BY <1>3, PurgeLeaves
  <1>5. d \in 0 .. Len(b)
    BY <1>1
  <1> QED BY <1>4, <1>5

\* The text that parseHeadersLine gets is the buffer up to the last CRLF.
LEMMA HeadersText ==
    ASSUME NEW b \in Seq(Tokens), NEW last \in 0 .. Len(b), NEW text,
           text = SubSeq(b, 1, last - 1)
    PROVE  /\ text \in Seq(Tokens)
           /\ Len(text) = IF last = 0 THEN 0 ELSE last - 1
           /\ \A i \in 1 .. Len(text) : i \in 1 .. Len(b) /\ text[i] = b[i]
  <1>1. Len(b) \in Nat /\ last - 1 \in Int
    OBVIOUS
  <1>2. \A i \in 1 .. last - 1 : b[i] \in Tokens
    BY <1>1, ElementOfSeq
  <1>3. /\ text \in Seq(Tokens)
        /\ Len(text) = IF 1 <= last - 1 THEN (last - 1) - 1 + 1 ELSE 0
        /\ \A i \in 1 .. (last - 1) - 1 + 1 : text[i] = b[1 + i - 1]
    BY <1>1, <1>2, SubSeqProperties
  <1> QED BY <1>1, <1>3

\* A method RTCP that is set from an earlier read, with a CSeq: handleRtcp is
\* called on what the headers leave.
Stale(p, last, text) == p.method = "RTCP" /\ last # 0 /\ ParseCSeq(p, text) # 0

\* The headers: what is dropped, and the three outcomes.
LEMMA HeadersCase ==
    ASSUME NEW b \in Seq(Tokens), NEW p, OnHeaders(p, b)
    PROVE  \E last \in 0 .. Len(b), text \in Seq(Tokens) :
              /\ last = FindLastCRLF(b) /\ text = SubSeq(b, 1, last - 1)
              /\ \E d \in 0 .. Len(b) :
                    /\ Leaves(b, d)
                    /\ \/ Stale(p, last, text)
                       \/ d \in {last, Len(b)} /\ (d # last => Len(b) - last > 1)
              /\ \/ /\ last = 0 \/ ParseCSeq(p, text) = 0
                    /\ parser' = p /\ answers' = answers
                 \/ /\ last # 0 /\ ParseCSeq(p, text) # 0 /\ ~GotAll(p.method, text)
                    /\ parser' = [p EXCEPT !.cseq = ParseCSeq(p, text)] /\ answers' = answers
                 \/ /\ last # 0 /\ ParseCSeq(p, text) # 0 /\ GotAll(p.method, text)
                    /\ parser' = Reset(p)
                    /\ answers' = Append(answers, Answer(p, ParseCSeq(p, text), text))
  <1> DEFINE last == FindLastCRLF(b)
             text == SubSeq(b, 1, last - 1)
  <1>1. Len(b) \in Nat /\ last \in 0 .. Len(b)
    BY LastCRLF
  <1>2. text \in Seq(Tokens)
    BY <1>1, HeadersText
  <1> DEFINE rest == IF last = 0 THEN b ELSE Retrieve(b, last)
  <1>3. buf' = Purge(IF Stale(p, last, text) THEN AfterRtcp(rest) ELSE rest)
    BY DEF OnHeaders, Left, Stale
  <1>4. rest = Drop(b, last)
    <2>1. CASE last = 0
      BY <2>1, DropEnds
    <2>2. CASE last # 0
      <3>1. PICK d \in 0 .. Len(b) : Retrieve(b, last) = Drop(b, d) /\ (last <= Len(b) => d = last)
        BY <1>1, RetrieveDrops
      <3> QED BY <1>1, <2>2, <3>1
    <2> QED BY <2>1, <2>2
  <1>5. \E d \in 0 .. Len(b) :
           /\ Leaves(b, d)
           /\ \/ Stale(p, last, text)
              \/ d \in {last, Len(b)} /\ (d # last => Len(b) - last > 1)
    <2> HIDE DEF last, text, rest
    <2>1. CASE Stale(p, last, text)
      <3>1. rest \in Seq(Tokens) /\ Len(rest) = Len(b) - last
        BY <1>1, <1>4, DropFacts
      <3>2. PICK e \in 0 .. Len(rest) : AfterRtcp(rest) = Drop(rest, e)
        BY <3>1, RtcpDrops
      <3>3. e \in 0 .. Len(b) - last /\ last + e \in 0 .. Len(b)
        BY <1>1, <3>1
      <3>4. Drop(rest, e) = Drop(b, last + e)
        BY <1>1, <1>4, <3>3, DropDrop
      <3>5. buf' = Purge(Drop(b, last + e))
        BY <1>3, <2>1, <3>2, <3>4
      <3>6. PICK d \in {last + e, Len(b)} : Leaves(b, d)
        BY <3>3, <3>5, PurgeLeaves
      <3>7. d \in 0 .. Len(b)
        BY <1>1, <3>3
      <3> QED BY <2>1, <3>6, <3>7
    <2>2. CASE ~Stale(p, last, text)
      <3>1. PICK d \in {last, Len(b)} : Leaves(b, d) /\ (d # last => Len(b) - last > 1)
        BY <1>1, <1>3, <1>4, <2>2, PurgeLeaves
      <3>2. d \in 0 .. Len(b)
        BY <1>1
      <3> QED BY <3>1, <3>2
    <2> QED BY <2>1, <2>2
  <1>6. \/ /\ last = 0 \/ ParseCSeq(p, text) = 0
           /\ parser' = p /\ answers' = answers
        \/ /\ last # 0 /\ ParseCSeq(p, text) # 0 /\ ~GotAll(p.method, text)
           /\ parser' = [p EXCEPT !.cseq = ParseCSeq(p, text)] /\ answers' = answers
        \/ /\ last # 0 /\ ParseCSeq(p, text) # 0 /\ GotAll(p.method, text)
           /\ parser' = Reset(p)
           /\ answers' = Append(answers, Answer(p, ParseCSeq(p, text), text))
    BY DEF OnHeaders
  <1> HIDE DEF last, text
  <1>7. last = FindLastCRLF(b) /\ text = SubSeq(b, 1, last - 1)
    BY DEF last, text
  <1> QED BY <1>1, <1>2, <1>5, <1>6, <1>7

\* The request line: something else is dropped, or the headers follow.
LEMMA LineCase ==
    ASSUME NEW b \in Seq(Tokens), OnRequestLine(b)
    PROVE  \/ /\ \E d \in 0 .. Len(b) : Leaves(b, d)
              /\ parser' \in {parser, [parser EXCEPT !.method = "NONE"]}
              /\ answers' = answers
           \/ /\ 2 \in 0 .. Len(b) /\ b[1].kind = "line" /\ b[2].kind = "crlf"
              /\ OnHeaders(ParsedLine(parser, SubSeq(b, 1, 1)), Drop(b, 2))
              /\ SubSeq(b, 1, 1)[1] = b[1]
  <1> DEFINE first == FindCRLF(b)
             text == SubSeq(b, 1, first - 1)
  <1>1. Len(b) \in Nat /\ first \in 0 .. Len(b) /\ (first # 0 => b[first].kind = "crlf")
    BY FirstCRLF
  <1>2. /\ text \in Seq(Tokens)
        /\ Len(text) = IF first = 0 THEN 0 ELSE first - 1
        /\ \A i \in 1 .. Len(text) : i \in 1 .. Len(b) /\ text[i] = b[i]
    BY <1>1, HeadersText
  <1>3. \/ first = 0 /\ buf' = Purge(b) /\ parser' = parser /\ answers' = answers
        \/ /\ first # 0 /\ ~IsRequestLine(text)
           /\ parser' = MisparsedLine(parser, text)
           /\ buf' = Purge(Retrieve(b, first)) /\ answers' = answers
        \/ /\ first # 0 /\ IsRequestLine(text)
           /\ OnHeaders(ParsedLine(parser, text), Retrieve(b, first))
    BY DEF OnRequestLine
  <1>4. Retrieve(b, first) = Drop(b, first)
    <2>1. PICK d \in 0 .. Len(b) : Retrieve(b, first) = Drop(b, d) /\ (first <= Len(b) => d = first)
      BY <1>1, RetrieveDrops
    <2> QED BY <1>1, <2>1
  <1>5. CASE first = 0 /\ buf' = Purge(b) /\ parser' = parser /\ answers' = answers
    <2>1. buf' = Purge(Drop(b, 0)) /\ 0 \in 0 .. Len(b)
      BY <1>1, <1>5, DropEnds
    <2>2. PICK d \in {0, Len(b)} : Leaves(b, d)
      BY <2>1, PurgeLeaves
    <2>3. d \in 0 .. Len(b)
      BY <1>1
    <2> QED BY <1>5, <2>2, <2>3
  <1>6. CASE /\ first # 0 /\ ~IsRequestLine(text)
             /\ parser' = MisparsedLine(parser, text)
             /\ buf' = Purge(Retrieve(b, first)) /\ answers' = answers
    <2>1. buf' = Purge(Drop(b, first))
      BY <1>4, <1>6
    <2>2. PICK d \in {first, Len(b)} : Leaves(b, d)
      BY <1>1, <2>1, PurgeLeaves
    <2>3. d \in 0 .. Len(b)
      BY <1>1
    <2>4. parser' \in {parser, [parser EXCEPT !.method = "NONE"]}
      BY <1>6 DEF MisparsedLine
    <2> QED BY <1>6, <2>2, <2>3, <2>4
  <1>7. CASE /\ first # 0 /\ IsRequestLine(text)
             /\ OnHeaders(ParsedLine(parser, text), Retrieve(b, first))
    <2>1. Len(text) = 1 /\ text[1].kind = "line"
      BY <1>7 DEF IsRequestLine
    <2>2. first = 2
      BY <1>1, <1>2, <1>7, <2>1
    <2>3. text = SubSeq(b, 1, 1) /\ text[1] = b[1]
      BY <1>2, <2>1, <2>2
    <2> HIDE DEF text, first
    <2> QED BY <1>1, <1>4, <1>7, <2>1, <2>2, <2>3
  <1> QED BY <1>3, <1>5, <1>6, <1>7

\* A read moves a part of the wire into the buffer, and the message handler
\* sees the buffer.
LEMMA ReadCase ==
    ASSUME buf \in Seq(Tokens), wire \in Seq(Tokens), NEW n \in 1 .. Len(wire), HandleRead(n)
    PROVE  \E b \in Seq(Tokens) :
              /\ Len(b) >= 1 /\ wire' \in Seq(Tokens) /\ b \o wire' = Stream
              /\ HandleRtspMessage(b)
  <1> DEFINE b == buf \o SubSeq(wire, 1, n)
  <1>1. Len(wire) \in Nat /\ Len(buf) \in Nat /\ n \in 0 .. Len(wire)
    OBVIOUS
  <1>2. wire' = Drop(wire, n)
    <2>1. PICK d \in 0 .. Len(wire) : Retrieve(wire, n) = Drop(wire, d) /\ (n <= Len(wire) => d = n)
      BY <1>1, RetrieveDrops
    <2> QED BY <1>1, <2>1 DEF HandleRead
  <1>3. b \in Seq(Tokens) /\ Len(b) = Len(buf) + n /\ b \o Drop(wire, n) = buf \o wire
    BY <1>1, SplitJoin
  <1>4. wire' \in Seq(Tokens)
    BY <1>1, <1>2, DropFacts
  <1>5. HandleRtspMessage(b)
    BY DEF HandleRead
  <1> HIDE DEF b
  <1>6. Len(b) >= 1 /\ b \o wire' = Stream
    BY <1>1, <1>2, <1>3 DEF Stream
  <1> QED BY <1>3, <1>4, <1>5, <1>6

-----------------------------------------------------------------------------
(* Types.                                                                  *)

\* The stream after a read.
LEMMA LeavesStream ==
    ASSUME NEW b \in Seq(Tokens), wire' \in Seq(Tokens), b \o wire' = Stream,
           NEW d \in 0 .. Len(b), Leaves(b, d)
    PROVE  /\ d \in 0 .. Len(Stream) /\ Stream' = Drop(Stream, d)
           /\ buf' \in Seq(Tokens) /\ Stream \in Seq(Tokens)
  <1>1. /\ Len(b) \in Nat /\ Len(wire') \in Nat /\ b \o wire' \in Seq(Tokens)
        /\ Len(b \o wire') = Len(b) + Len(wire')
    BY JoinFacts
  <1>2. Drop(b, d) \o wire' = Drop(b \o wire', d)
    BY DropJoin
  <1>3. buf' \in Seq(Tokens)
    BY DropFacts DEF Leaves
  <1>4. Stream' = buf' \o wire'
    BY DEF Stream
  <1>5. d \in 0 .. Len(Stream)
    BY <1>1
  <1> QED BY <1>1, <1>2, <1>3, <1>4, <1>5 DEF Leaves

\* A parser that knows of the first a requests only.
Knows(p, a) == p \in Parsers /\ p.line <= a /\ p.cseq <= a

\* The CSeq that is found is that of a request sent.
LEMMA CSeqType ==
    ASSUME NEW p \in Parsers, NEW a \in Nat, p.cseq <= a, a <= Len(Dialogue),
           NEW text \in Seq(Tokens), \A i \in 1 .. Len(text) : text[i].req <= a
    PROVE  ParseCSeq(p, text) \in 0 .. Len(Dialogue) /\ ParseCSeq(p, text) <= a
  <1>1. p.cseq \in 0 .. Len(Dialogue) /\ Len(Dialogue) \in Nat
    BY DialogueFacts DEF Parsers
  <1> DEFINE i == Find(text, "CSeq")
  <1>2. i \in 0 .. Len(text) /\ Len(text) \in Nat
    BY FirstHeader
  <1>3. i # 0 => i \in 1 .. Len(text)
    BY <1>2
  <1>4. i # 0 => text[i].req \in 0 .. Len(Dialogue) /\ text[i].req <= a
    <2> HAVE i # 0
    <2>1. text[i] \in Tokens
      BY <1>3, ElementOfSeq
    <2> QED BY <1>1, <1>3, <2>1, TokenFacts
  <1>5. ParseCSeq(p, text) = IF p.cseq # 0 THEN p.cseq ELSE IF i = 0 THEN 0 ELSE text[i].req
    BY DEF ParseCSeq
  <1> HIDE DEF i
  <1> QED BY <1>1, <1>4, <1>5

\* The headers leave a parser that knows of no other requests.
LEMMA HeadersTypes ==
    ASSUME NEW b \in Seq(Tokens), NEW a \in Nat, a <= Len(Dialogue),
           \A i \in 1 .. Len(b) : b[i].req <= a,
           NEW p, Knows(p, a), OnHeaders(p, b)
    PROVE  /\ \E d \in 0 .. Len(b) : Leaves(b, d)
           /\ Knows(parser', a)
  <1>1. PICK last \in 0 .. Len(b), text \in Seq(Tokens) :
              /\ last = FindLastCRLF(b) /\ text = SubSeq(b, 1, last - 1)
              /\ \E d \in 0 .. Len(b) :
                    /\ Leaves(b, d)
                    /\ \/ Stale(p, last, text)
                       \/ d \in {last, Len(b)} /\ (d # last => Len(b) - last > 1)
              /\ \/ /\ last = 0 \/ ParseCSeq(p, text) = 0
                    /\ parser' = p /\ answers' = answers
                 \/ /\ last # 0 /\ ParseCSeq(p, text) # 0 /\ ~GotAll(p.method, text)
                    /\ parser' = [p EXCEPT !.cseq = ParseCSeq(p, text)] /\ answers' = answers
                 \/ /\ last # 0 /\ ParseCSeq(p, text) # 0 /\ GotAll(p.method, text)
                    /\ parser' = Reset(p)
                    /\ answers' = Append(answers, Answer(p, ParseCSeq(p, text), text))
    BY HeadersCase
  <1>2. \E d \in 0 .. Len(b) : Leaves(b, d)
    BY <1>1
  <1>3. p \in Parsers /\ p.line <= a /\ p.cseq <= a
    BY DEF Knows
  <1>4. \A i \in 1 .. Len(text) : text[i].req <= a
    BY <1>1, HeadersText
  <1>5. ParseCSeq(p, text) \in 0 .. Len(Dialogue) /\ ParseCSeq(p, text) <= a
    BY <1>3, <1>4, CSeqType
  <1>6. Knows(Reset(p), a)
    <2>1. 0 \in 0 .. Len(Dialogue) /\ 0 <= a
      BY DialogueFacts
    <2>2. Reset(p) \in Parsers /\ Reset(p).line = 0 /\ Reset(p).cseq = 0
      BY <1>3, <2>1 DEF Reset, Parsers
    <2> QED BY <2>1, <2>2 DEF Knows
  <1>7. Knows([p EXCEPT !.cseq = ParseCSeq(p, text)], a)
    BY <1>3, <1>5 DEF Knows, Parsers
  <1>8. Knows(parser', a)
    BY <1>1, <1>6, <1>7
  <1> QED BY <1>2, <1>8

\* A read keeps the types.
LEMMA ReadTypes ==
    ASSUME TypeInv, NEW n \in 1 .. Len(wire), HandleRead(n)
    PROVE  TypeInv'
  <1>1. /\ buf \in Seq(Tokens) /\ wire \in Seq(Tokens) /\ asked \in 0 .. Len(Dialogue)
        /\ asked \in Nat /\ asked <= Len(Dialogue) /\ asked' = asked /\ Len(Dialogue) \in Nat
        /\ \A i \in 1 .. Len(Stream) : Stream[i].req <= asked
    BY DialogueFacts DEF TypeInv, HandleRead
  <1>2. Knows(parser, asked)
    BY <1>1 DEF TypeInv, TypeOK, Knows
  <1>3. PICK b \in Seq(Tokens) :
              /\ Len(b) >= 1 /\ wire' \in Seq(Tokens) /\ b \o wire' = Stream
              /\ HandleRtspMessage(b)
    BY <1>1, ReadCase
  <1>4. \A i \in 1 .. Len(b) : i \in 1 .. Len(Stream) /\ b[i] = Stream[i]
    BY <1>3, JoinFacts
  <1>5. \A i \in 1 .. Len(b) : b[i].req <= asked
    BY <1>1, <1>4
  <1>6. (\E d \in 0 .. Len(b) : Leaves(b, d)) /\ Knows(parser', asked)
    <2>1. CASE OnRtcp(b)
      <3>1. parser' = [parser EXCEPT !.method = "RTCP"]
        BY <2>1 DEF OnRtcp
      <3>2. Knows(parser', asked)
        BY <1>2, <3>1 DEF Knows, Parsers
      <3> QED BY <2>1, <3>2, RtcpCase
    <2>2. CASE OnRequestLine(b)
      <3>1. CASE /\ \E d \in 0 .. Len(b) : Leaves(b, d)
                 /\ parser' \in {parser, [parser EXCEPT !.method = "NONE"]}
                 /\ answers' = answers
        BY <1>2, <3>1 DEF Knows, Parsers
      <3>2. CASE /\ 2 \in 0 .. Len(b) /\ b[1].kind = "line" /\ b[2].kind = "crlf"
                 /\ OnHeaders(ParsedLine(parser, SubSeq(b, 1, 1)), Drop(b, 2))
                 /\ SubSeq(b, 1, 1)[1] = b[1]
        <4> DEFINE r == Drop(b, 2)
                   p == ParsedLine(parser, SubSeq(b, 1, 1))
        <4>1. /\ r \in Seq(Tokens) /\ Len(r) = Len(b) - 2 /\ Len(b) \in Nat
              /\ \A i \in 1 .. Len(b) - 2 : r[i] = b[2 + i]
          BY <3>2, DropFacts
        <4>2. \A i \in 1 .. Len(r) : r[i].req <= asked
          <5> SUFFICES ASSUME NEW i \in 1 .. Len(r) PROVE r[i].req <= asked
            OBVIOUS
          <5>1. r[i] = b[2 + i] /\ 2 + i \in 1 .. Len(b)
            BY <4>1
          <5> QED BY <1>5, <5>1
        <4>3. b[1].req \in 1 .. Len(Dialogue) /\ b[1].req <= asked
          <5>1. 1 \in 1 .. Len(b) /\ b[1] \in Tokens
            BY <1>3, ElementOfSeq
          <5> QED BY <1>1, <1>5, <3>2, <5>1, TokenFacts
        <4>4. p = [parser EXCEPT !.state = "kParseHeadersLine", !.line = b[1].req,
                                 !.method = Dialogue[b[1].req].method]
          BY <3>2 DEF ParsedLine
        <4>5. Knows(p, asked)
          <5>1. Dialogue[b[1].req].method \in Methods
            BY <4>3, DialogueFacts
          <5>2. p \in Parsers /\ p.line = b[1].req /\ p.cseq = parser.cseq
            <6>1. parser \in Parsers /\ b[1].req \in 0 .. Len(Dialogue)
              BY <1>1, <1>2, <4>3 DEF Knows
            <6> QED BY <4>4, <5>1, <6>1 DEF Parsers
          <5> HIDE DEF p
          <5> QED BY <1>2, <4>3, <5>2 DEF Knows
        <4> HIDE DEF r, p
        <4>6. OnHeaders(p, r)
          BY <3>2 DEF r, p
        <4>7. (\E d \in 0 .. Len(r) : Leaves(r, d)) /\ Knows(parser', asked)
          BY <1>1, <4>1, <4>2, <4>5, <4>6, HeadersTypes
        <4>8. PICK d \in 0 .. Len(r) : Leaves(r, d)
          BY <4>7
        <4>9. 2 + d \in 0 .. Len(b) /\ Leaves(b, 2 + d)
          <5>1. d \in 0 .. Len(b) - 2 /\ 2 + d \in 0 .. Len(b)
            BY <4>1
          <5>2. Drop(Drop(b, 2), d) = Drop(b, 2 + d)
            BY <3>2, <5>1, DropDrop
          <5> QED BY <4>8, <5>1, <5>2 DEF Leaves, r
        <4> QED BY <4>7, <4>9
      <3> QED BY <2>2, <3>1, <3>2, LineCase
    <2>3. CASE OnHeaders(parser, b)
      BY <1>1, <1>2, <1>5, <2>3, HeadersTypes
    <2> QED BY <1>3, <2>1, <2>2, <2>3 DEF HandleRtspMessage
  <1>7. PICK d \in 0 .. Len(b) : Leaves(b, d)
    BY <1>6
  <1>8. /\ d \in 0 .. Len(Stream) /\ Stream' = Drop(Stream, d)
        /\ buf' \in Seq(Tokens) /\ Stream \in Seq(Tokens)
    BY <1>3, <1>7, LeavesStream
  <1>9. \A i \in 1 .. Len(Stream') : Stream'[i].req <= asked'
    <2> SUFFICES ASSUME NEW i \in 1 .. Len(Stream') PROVE Stream'[i].req <= asked'
      OBVIOUS
    <2>0. /\ Len(Stream) \in Nat /\ Len(Drop(Stream, d)) = Len(Stream) - d
          /\ \A j \in 1 .. Len(Stream) - d : Drop(Stream, d)[j] = Stream[d + j]
      <3>1. Stream \in Seq(Tokens) /\ d \in 0 .. Len(Stream)
        BY <1>8
      <3> QED BY ONLY <3>1, DropFacts
    <2>1. d + i \in 1 .. Len(Stream) /\ Stream'[i] = Stream[d + i]
      BY <1>8, <2>0
    <2> QED BY <1>1, <2>1
  <1>10. parser' \in Parsers /\ {parser'.line, parser'.cseq} \subseteq 0 .. asked'
    BY <1>1, <1>6 DEF Knows, Parsers
  <1>11. TypeOK'
    BY <1>7, <1>10 DEF TypeOK, Leaves, Parsers
  <1> QED BY <1>1, <1>3, <1>8, <1>9, <1>10, <1>11 DEF TypeInv

\* A message of the client keeps them.
LEMMA SendTypes ==
    ASSUME TypeInv, NEW r \in Seq(Tokens), wire' = wire \o r, buf' = buf, parser' = parser,
           asked' \in asked .. Len(Dialogue), \A i \in 1 .. Len(r) : r[i].req <= asked'
    PROVE  TypeInv' /\ Stream' = Stream \o r /\ Stream \in Seq(Tokens)
  <1>1. /\ buf \in Seq(Tokens) /\ wire \in Seq(Tokens) /\ asked \in 0 .. Len(Dialogue)
        /\ Len(Dialogue) \in Nat /\ parser \in Parsers
        /\ \A i \in 1 .. Len(Stream) : Stream[i].req <= asked
    BY DialogueFacts DEF TypeInv
  <1>2. Stream' = Stream \o r
    <2>1. Stream' = buf \o (wire \o r)
      BY DEF Stream
    <2>2. (buf \o wire) \o r = buf \o (wire \o r)
      <3>1. buf \in Seq(Tokens) /\ wire \in Seq(Tokens) /\ r \in Seq(Tokens)
        BY <1>1
      <3> QED BY ONLY <3>1, ConcatAssociative
    <2> QED BY <2>1, <2>2 DEF Stream
  <1>3. wire' \in Seq(Tokens) /\ Stream \in Seq(Tokens)
    BY <1>1, ConcatProperties DEF Stream
  <1>4. \A i \in 1 .. Len(Stream') : Stream'[i].req <= asked'
    <2> SUFFICES ASSUME NEW i \in 1 .. Len(Stream') PROVE Stream'[i].req <= asked'
      OBVIOUS
    <2>1. CASE i \in 1 .. Len(Stream)
      <3>1. Stream'[i] = Stream[i]
        BY <1>2, <1>3, <2>1, JoinFacts
      <3>2. Stream[i].req \in Nat
        <4>1. Stream[i] \in Tokens
          BY <1>3, <2>1, ElementOfSeq
        <4> QED BY <4>1, TokenFacts
      <3> QED BY <1>1, <2>1, <3>1, <3>2
    <2>2. CASE ~(i \in 1 .. Len(Stream))
      <3>1. i \in 1 .. Len(Stream) + Len(r) /\ Len(Stream) \in Nat /\ Len(r) \in Nat
        BY <1>2, <1>3, JoinFacts
      <3>2. i - Len(Stream) \in 1 .. Len(r) /\ Len(Stream) + (i - Len(Stream)) = i
        BY <2>2, <3>1
      <3>3. Stream'[i] = r[i - Len(Stream)]
        BY <1>2, <1>3, <3>2, JoinFacts
      <3> QED BY <3>2, <3>3
    <2> QED BY <2>1, <2>2
  <1>5. TypeOK'
    BY <1>1 DEF TypeOK, TypeInv, Parsers
  <1>6. asked' \in 0 .. Len(Dialogue)
    BY <1>1
  <1> QED BY <1>1, <1>2, <1>3, <1>4, <1>5, <1>6 DEF TypeInv

\* The types at the start.
LEMMA InitTypes == Init => TypeInv
  <1> SUFFICES ASSUME Init PROVE TypeInv
    OBVIOUS
  <1>1. << >> \in Seq(Tokens) /\ Len(<< >>) = 0
    BY EmptySeq
  <1>2. Stream = << >>
    BY <1>1, ConcatEmptySeq DEF Init, Stream
  <1>3. parser \in Parsers /\ parser.line = 0 /\ parser.cseq = 0
    BY DialogueFacts DEF Init, Fresh, Parsers
  <1>4. Len(Dialogue) \in Nat /\ MaxMessage \in Nat
    BY DialogueFacts, RequestAssumption
  <1>5. TypeOK
    BY <1>1, <1>3, <1>4 DEF TypeOK, Init, Parsers
  <1> QED BY <1>1, <1>2, <1>3, <1>4, <1>5 DEF TypeInv, Init

\* The types after a step.
LEMMA TypeStep == TypeInv /\ [Next]_vars => TypeInv'
  <1> SUFFICES ASSUME TypeInv, [Next]_vars PROVE TypeInv'
    OBVIOUS
  <1>1. /\ buf \in Seq(Tokens) /\ wire \in Seq(Tokens) /\ asked \in 0 .. Len(Dialogue)
        /\ Len(Dialogue) \in Nat
    BY DialogueFacts DEF TypeInv
  <1>2. CASE Read
    <2>1. PICK n \in DOMAIN wire : HandleRead(n)
      BY <1>2 DEF Read
    <2>2. n \in 1 .. Len(wire)
      BY <1>1, LenProperties
    <2> QED BY <2>1, <2>2, ReadTypes
  <1>3. CASE Ask
    <2>1. /\ asked < Len(Dialogue) /\ asked' = asked + 1 /\ wire' = wire \o Request(asked + 1)
          /\ buf' = buf /\ parser' = parser
      BY <1>3 DEF Ask
    <2>2. asked + 1 \in 1 .. Len(Dialogue) /\ asked' \in asked .. Len(Dialogue)
      BY <1>1, <2>1
    <2>3. /\ Request(asked + 1) \in Seq(Tokens)
          /\ \A i \in 1 .. Len(Request(asked + 1)) : Request(asked + 1)[i].req = asked + 1
      BY <2>2, RequestTokens
    <2>4. \A i \in 1 .. Len(Request(asked + 1)) : Request(asked + 1)[i].req <= asked'
      BY <1>1, <2>1, <2>3
    <2> QED BY <2>1, <2>2, <2>3, <2>4, SendTypes
  <1>4. ASSUME NEW length \in RtcpLengths, Report(length) PROVE TypeInv'
    <2>1. /\ wire' = wire \o RtcpFrame(length) /\ asked' = asked /\ buf' = buf
          /\ parser' = parser
      BY <1>4 DEF Report
    <2>2. asked' \in asked .. Len(Dialogue) /\ 0 <= asked'
      BY <1>1, <2>1
    <2> QED BY <2>1, <2>2, RtcpTokens, SendTypes
  <1>5. CASE UNCHANGED vars
    BY <1>5 DEF vars, TypeInv, TypeOK, Stream
  <1> QED BY <1>2, <1>3, <1>4, <1>5 DEF Next

\* For every dialogue, whatever the client sends and however it is cut up, the
\* parser is in one of its two states between two reads, it knows of no request
\* that was not sent, and the input buffer is within its limit.
THEOREM RequestTypeCorrect == Spec => []TypeOK
  <1>1. TypeInv => TypeOK
    BY DEF TypeInv
  <1> QED BY <1>1, InitTypes, TypeStep, PTL DEF Spec

-----------------------------------------------------------------------------
(* What the parser waits for.                                              *)

\* A text whose request is still in front of the parser is not lost: it is not
\* dropped before its CRLF is there, and the purge does not drop it either.
LEMMA Survives ==
    ASSUME NEW b \in Seq(Tokens), NEW w \in Seq(Tokens), NEW k,
           NEW d \in {FindLastCRLF(b), Len(b)},
           d # FindLastCRLF(b) => Len(b) - FindLastCRLF(b) > 1,
           NEW x \in FindLastCRLF(b) + 1 .. Len(b \o w), Run(b \o w, 1, x, k)
    PROVE  d < x
  <1> DEFINE last == FindLastCRLF(b)
             s == b \o w
  <1>1. /\ last \in 0 .. Len(b)
        /\ \A i \in last + 1 .. Len(b) : b[i].kind # "crlf"
    BY LastCRLF
  <1>2. /\ Len(b) \in Nat /\ Len(w) \in Nat /\ Len(s) = Len(b) + Len(w)
        /\ \A i \in 1 .. Len(b) : s[i] = b[i]
    BY JoinFacts
  <1>3. \A j \in 1 .. x : s[j].kind # "crlf" => s[j + 1].kind = "crlf"
    BY DEF Run
  <1> HIDE DEF last, s
  <1>4. \A i \in last + 1 .. Len(b) : s[i].kind # "crlf"
    BY <1>1, <1>2
  <1>5. last \in Nat /\ x \in last + 1 .. Len(s) /\ d \in {last, Len(b)}
        /\ (d # last => Len(b) - last > 1)
    BY <1>1 DEF last, s
  <1>6. ASSUME x <= Len(b), d = Len(b), d # last PROVE FALSE
    <2>1. x \in last + 1 .. Len(b) /\ x \in 1 .. x
      BY <1>2, <1>5, <1>6
    <2>2. s[x].kind # "crlf" /\ s[x + 1].kind = "crlf"
      BY <1>3, <1>4, <2>1
    <2>3. ~(x + 1 \in last + 1 .. Len(b))
      BY <1>4, <2>2
    <2>4. x = Len(b)
      BY <1>2, <1>5, <2>1, <2>3
    <2>5. x - 1 \in last + 1 .. Len(b) /\ x - 1 \in 1 .. x /\ (x - 1) + 1 = x
      BY <1>2, <1>5, <1>6, <2>4
    <2>6. s[x - 1].kind # "crlf" /\ s[(x - 1) + 1].kind = "crlf"
      BY <1>3, <1>4, <2>5
    <2> QED BY <2>2, <2>5, <2>6
  <1> QED BY <1>2, <1>5, <1>6

\* Then the parser still waits for it when the front of the stream is gone.
LEMMA TransportLeft ==
    ASSUME NEW s \in Seq(Tokens), NEW d \in 0 .. Len(s), NEW k,
           NEW t \in d + 1 .. Len(s), Wins(k, s[t].kind), Run(s, 1, t, k)
    PROVE  TransportAhead(Drop(s, d), 1, k)
  <1>1. Len(s) \in Nat /\ d + 1 \in d + 1 .. Len(s) /\ t \in d + 1 .. Len(s) /\ (d + 1) - d = 1
    OBVIOUS
  <1>2. Run(s, d + 1, t, k)
    BY <1>1 DEF Run
  <1>3. TransportAhead(s, d + 1, k)
    BY <1>1, <1>2 DEF TransportAhead
  <1>4. TransportAhead(Drop(s, d), (d + 1) - d, k)
    BY <1>1, <1>3, TransportDrop
  <1> QED BY <1>1, <1>4

\* The same of the CSeq.
LEMMA CSeqLeft ==
    ASSUME NEW s \in Seq(Tokens), NEW d \in 0 .. Len(s), NEW k,
           NEW c \in d + 1 .. Len(s), s[c].kind = "CSeq", Run(s, 1, c, k),
           Dialogue[k].method = "SETUP" /\ OwnTransport(k) =>
              \/ NoneLater(k, Transports)
              \/ \E t \in c + 1 .. Len(s) : Wins(k, s[t].kind) /\ Run(s, 1, t, k)
    PROVE  CSeqAhead(Drop(s, d), 1, k)
  <1>1. Len(s) \in Nat /\ d + 1 \in d + 1 .. Len(s) /\ (d + 1) - d = 1
    OBVIOUS
  <1>2. \A m \in 1 .. Len(s) : Run(s, 1, m, k) => Run(s, d + 1, m, k)
    BY <1>1 DEF Run
  <1>3. c \in 1 .. Len(s) /\ \A t \in c + 1 .. Len(s) : t \in 1 .. Len(s)
    BY <1>1
  <1>4. CSeqAhead(s, d + 1, k)
    BY <1>2, <1>3 DEF CSeqAhead
  <1>5. CSeqAhead(Drop(s, d), (d + 1) - d, k)
    BY <1>1, <1>4, CSeqDrop
  <1> QED BY <1>1, <1>5

\* Which methods are answered.
LEMMA GotAllFacts ==
    ASSUME NEW method \in Methods \cup {"RTCP", "NONE"}, NEW text
    PROVE  /\ GotAll(method, text) => method \in Methods
           /\ method = "SETUP" => (GotAll(method, text) <=> ParseTransport(text) # 0)
  BY DEF GotAll, Methods

\* What parseTransport takes.
LEMMA TransportTaken ==
    ASSUME NEW text \in Seq(Tokens)
    PROVE  LET tcp == Find(text, "TransportTcp")
               i == ParseTransport(text)
           IN  /\ i \in 0 .. Len(text)
               /\ i = 0 => tcp = 0 /\ Find(text, "TransportUdp") = 0
               /\ tcp # 0 => i = tcp
               /\ i # 0 => i \in 1 .. Len(text) /\ text[i].kind \in Transports
  <1> DEFINE tcp == Find(text, "TransportTcp")
             udp == Find(text, "TransportUdp")
             i == ParseTransport(text)
  <1>1. /\ tcp \in 0 .. Len(text) /\ (tcp # 0 => text[tcp].kind = "TransportTcp")
        /\ udp \in 0 .. Len(text) /\ (udp # 0 => text[udp].kind = "TransportUdp")
    BY FirstHeader
  <1>2. i = IF tcp # 0 THEN tcp ELSE udp
    BY DEF ParseTransport
  <1>3. Len(text) \in Nat
    OBVIOUS
  <1> HIDE DEF tcp, udp, i
  <1>4. /\ i \in 0 .. Len(text)
        /\ i = 0 => tcp = 0 /\ udp = 0
        /\ tcp # 0 => i = tcp
        /\ i # 0 => i \in 1 .. Len(text) /\ text[i].kind \in Transports
    BY <1>1, <1>2, <1>3 DEF Transports
  <1> QED BY <1>4 DEF tcp, udp, i

\* A token with a header that no later request has is not a later request's.
LEMMA NotLater ==
    ASSUME NEW k \in 1 .. Len(Dialogue), NEW kinds \in SUBSET Transports,
           NoneLater(k, kinds), NEW t \in Tokens, t.kind \in kinds,
           t.req # 0 => k <= t.req
    PROVE  t.req = k
  <1>1. t.req \in Nat /\ t.req <= Len(Dialogue) /\ Has(t.req, t.kind) /\ t.req # 0
    BY TokenFacts DEF Headers
  <1>2. ~(t.req \in k + 1 .. Len(Dialogue))
    BY <1>1 DEF NoneLater, Has
  <1>3. Len(Dialogue) \in Nat /\ k <= t.req
    BY <1>1, DialogueFacts
  <1> QED BY <1>1, <1>2, <1>3

\* The parser goes on waiting for the request whose line was read ...
Continues(p, s, d) ==
    /\ parser'.state = p.state /\ parser'.line = p.line
    /\ Waiting(parser', Drop(s, d))
    /\ answers' = answers

\* ... or it answers that request.
AnswerTo(k, from) ==
    [method |-> Dialogue[k].method, line |-> k, cseq |-> k, from |-> from]

\* Whose Transport header it may be answered for when a have been sent.
Sources(k, a) ==
    {from \in k .. a : OwnTransport(k) \/ Dialogue[k].method # "SETUP" => from = k}

\* One of the two happens when the headers of a request are in front of it.
LEMMA HeadersStep ==
    ASSUME NEW b \in Seq(Tokens), NEW w \in Seq(Tokens), NEW p \in Parsers, p.line # 0,
           Waiting(p, b \o w), OnHeaders(p, b), NEW a \in Nat, p.line <= a,
           \A i \in 1 .. Len(b) : b[i].req <= a
    PROVE  \E d \in 0 .. Len(b) :
              /\ Leaves(b, d)
              /\ \/ Continues(p, b \o w, d)
                 \/ \E from \in Sources(p.line, a) :
                       parser' = Reset(p) /\ answers' = Append(answers, AnswerTo(p.line, from))
  <1> DEFINE s == b \o w
             k == p.line
  <1>1. /\ s \in Seq(Tokens) /\ Len(b) \in Nat /\ Len(s) \in Nat /\ Len(b) <= Len(s)
        /\ \A i \in 1 .. Len(b) : s[i] = b[i]
    BY JoinFacts
  <1>2. PICK last \in 0 .. Len(b), text \in Seq(Tokens) :
              /\ last = FindLastCRLF(b) /\ text = SubSeq(b, 1, last - 1)
              /\ \E d \in 0 .. Len(b) :
                    /\ Leaves(b, d)
                    /\ \/ Stale(p, last, text)
                       \/ d \in {last, Len(b)} /\ (d # last => Len(b) - last > 1)
              /\ \/ /\ last = 0 \/ ParseCSeq(p, text) = 0
                    /\ parser' = p /\ answers' = answers
                 \/ /\ last # 0 /\ ParseCSeq(p, text) # 0 /\ ~GotAll(p.method, text)
                    /\ parser' = [p EXCEPT !.cseq = ParseCSeq(p, text)] /\ answers' = answers
                 \/ /\ last # 0 /\ ParseCSeq(p, text) # 0 /\ GotAll(p.method, text)
                    /\ parser' = Reset(p)
                    /\ answers' = Append(answers, Answer(p, ParseCSeq(p, text), text))
    BY HeadersCase
  <1>3. PICK d \in 0 .. Len(b) :
              /\ Leaves(b, d)
              /\ \/ Stale(p, last, text)
                 \/ d \in {last, Len(b)} /\ (d # last => Len(b) - last > 1)
    BY <1>2
  <1>4. d \in 0 .. Len(b) /\ d \in 0 .. Len(s)
    BY <1>1
  <1>5. /\ Len(text) = IF last = 0 THEN 0 ELSE last - 1
        /\ \A i \in 1 .. Len(text) : i \in 1 .. Len(b) /\ text[i] = b[i]
    BY <1>2, HeadersText
  <1>6. last # 0 => s[last].kind = "crlf"
    <2>1. last # 0 => b[last].kind = "crlf" /\ last \in 1 .. Len(b)
      BY <1>2, LastCRLF
    <2> QED BY <1>1, <2>1
  <1>7. ~Stale(p, last, text) => \A x \in last + 1 .. Len(s) : Run(s, 1, x, k) => d < x
    BY <1>2, <1>3, Survives
  <1>8. /\ k \in 1 .. Len(Dialogue) /\ p.method \in {Dialogue[k].method, "RTCP"}
        /\ p.method \in Methods \cup {"RTCP", "NONE"}
    <2>1. k \in 0 .. Len(Dialogue) /\ Len(Dialogue) \in Nat
      BY DialogueFacts DEF Parsers
    <2> QED BY <2>1 DEF Waiting, Parsers
  <1>9. /\ \A i \in 1 .. Len(s) : /\ s[i].req # 0 => k <= s[i].req
                                  /\ s[i].kind = "line" => k < s[i].req
        /\ \/ p.cseq = 0 /\ CSeqAhead(s, 1, k)
           \/ /\ p.cseq = k
              /\ p.method = "SETUP" /\ OwnTransport(k) =>
                    TransportAhead(s, 1, k) \/ NoneLater(k, Transports)
    BY DEF Waiting
  <1> HIDE DEF s, k
  \* a header of the text is in the text's place of the stream
  <1>10. ASSUME NEW h, NEW x \in 1 .. Len(s), s[x].kind = h, h # "crlf"
         PROVE  /\ Find(text, h) = 0 => last < x
                /\ Find(text, h) # 0 => /\ Find(text, h) \in 1 .. x
                                        /\ text[Find(text, h)] = s[Find(text, h)]
    <2>1. /\ Find(text, h) \in 0 .. Len(text)
          /\ Find(text, h) = 0 => \A i \in 1 .. Len(text) : text[i].kind # h
          /\ Find(text, h) # 0 => \A i \in 1 .. Len(text) : text[i].kind = h => Find(text, h) <= i
      BY FirstHeader
    <2>2. \A i \in 1 .. Len(text) : text[i] = s[i]
      BY <1>1, <1>5
    <2>3. x # last
      BY <1>6, <1>10
    <2>4. x < last => x \in 1 .. Len(text)
      BY <1>5
    <2>5. last \in Nat /\ Len(text) \in Nat /\ Len(text) <= last
      BY <1>5
    <2>6. Find(text, h) = 0 => last < x
      BY <1>10, <2>1, <2>2, <2>3, <2>4, <2>5
    <2>7. Find(text, h) # 0 => Find(text, h) \in 1 .. Len(text)
      BY <2>1, <2>5
    <2>8. Find(text, h) # 0 => Find(text, h) <= x
      <3> HAVE Find(text, h) # 0
      <3>1. CASE x < last
        BY <1>10, <2>1, <2>2, <2>4, <3>1
      <3>2. CASE ~(x < last)
        BY <2>5, <2>7, <3>2
      <3> QED BY <3>1, <3>2
    <2> QED BY <2>2, <2>5, <2>6, <2>7, <2>8
  \* the CSeq that is found is the request's own
  <1>11. ParseCSeq(p, text) \in {0, k}
    <2>1. CASE p.cseq = k
      BY <1>8, <2>1 DEF ParseCSeq
    <2>2. CASE p.cseq = 0 /\ CSeqAhead(s, 1, k)
      <3>1. PICK c \in 1 .. Len(s) : s[c].kind = "CSeq" /\ Run(s, 1, c, k)
        BY <2>2 DEF CSeqAhead
      <3> DEFINE i == Find(text, "CSeq")
      <3>2. i # 0 => i \in 1 .. c /\ text[i] = s[i]
        BY <1>10, <3>1
      <3>3. ParseCSeq(p, text) = IF i = 0 THEN 0 ELSE text[i].req
        BY <2>2 DEF ParseCSeq
      <3> HIDE DEF i
      <3> QED BY <3>1, <3>2, <3>3 DEF Run
    <2> QED BY <1>9, <2>1, <2>2
  \* and so is the Transport header
  <1>12. p.method = "SETUP" /\ OwnTransport(k) =>
            TransportAhead(s, 1, k) \/ NoneLater(k, Transports)
    <2>1. ASSUME p.method = "SETUP", OwnTransport(k), CSeqAhead(s, 1, k)
          PROVE  TransportAhead(s, 1, k) \/ NoneLater(k, Transports)
      <3>1. PICK c \in 1 .. Len(s) :
               Dialogue[k].method = "SETUP" /\ OwnTransport(k) =>
                 \/ NoneLater(k, Transports)
                 \/ \E t \in c + 1 .. Len(s) : Wins(k, s[t].kind) /\ Run(s, 1, t, k)
        BY <2>1 DEF CSeqAhead
      <3>2. Dialogue[k].method = "SETUP"
        BY <1>8, <2>1
      <3>3. \A t \in c + 1 .. Len(s) : t \in 1 .. Len(s)
        BY <1>1
      <3> QED BY <2>1, <3>1, <3>2, <3>3 DEF TransportAhead
    <2> QED BY <1>9, <2>1
  <1>13. ASSUME p.method = "SETUP", ParseTransport(text) # 0
         PROVE  text[ParseTransport(text)].req \in Sources(k, a)
    <2> DEFINE i == ParseTransport(text)
               tcp == Find(text, "TransportTcp")
    <2>0. /\ i \in 1 .. Len(text) /\ text[i].kind \in Transports /\ text[i] \in Tokens
          /\ (tcp # 0 => i = tcp)
          /\ text[i] = s[i] /\ i \in 1 .. Len(s) /\ i \in 1 .. Len(b) /\ i < last
      <3>1. /\ i \in 1 .. Len(text) /\ text[i].kind \in Transports
            /\ (tcp # 0 => i = tcp)
        BY <1>13, TransportTaken
      <3> HIDE DEF i, tcp
      <3>2. text[i] \in Tokens
        BY <3>1, ElementOfSeq
      <3>3. text[i] = s[i] /\ i \in 1 .. Len(s) /\ i \in 1 .. Len(b)
        BY <1>1, <1>5, <3>1
      <3>4. i < last
        BY <1>5, <3>1
      <3> QED BY <3>1, <3>2, <3>3, <3>4
    <2> HIDE DEF i, tcp
    <2>a. text[i].req \in k .. a /\ (text[i].req # 0 => k <= text[i].req)
      <3>1. text[i].req \in Nat /\ text[i].req # 0
        BY <2>0, TokenFacts DEF Headers
      <3>2. k <= text[i].req
        BY <1>9, <2>0, <3>1
      <3>3. text[i].req <= a
        BY <1>1, <2>0
      <3> QED BY <1>8, <3>1, <3>2, <3>3
    <2>1. CASE NoneLater(k, Transports)
      <3>1. text[i].req = k
        BY <1>8, <2>0, <2>1, <2>a, NotLater
      <3> QED BY <2>a, <3>1 DEF Sources, i
    <2>2. CASE TransportAhead(s, 1, k)
      <3>1. PICK t \in 1 .. Len(s) : Wins(k, s[t].kind) /\ Run(s, 1, t, k)
        BY <2>2 DEF TransportAhead
      <3>2. ASSUME i \in 1 .. t PROVE text[i].req = k
        BY <2>0, <3>1, <3>2 DEF Run
      <3>3. ASSUME NEW h, h # "crlf", s[t].kind = h, i = Find(text, h) \/ Find(text, h) = 0
            PROVE  i \in 1 .. t
        <4>1. CASE Find(text, h) = 0
          <5>1. last < t
            BY <1>10, <3>3, <4>1
          <5> QED BY <2>0, <5>1
        <4>2. CASE Find(text, h) # 0
          BY <1>10, <3>3, <4>2
        <4> QED BY <4>1, <4>2
      <3>4. CASE s[t].kind = "TransportTcp"
        <4>1. i = tcp \/ tcp = 0
          BY <2>0
        <4>2. i \in 1 .. t
          BY <3>3, <3>4, <4>1 DEF tcp
        <4> QED BY <2>a, <3>2, <4>2 DEF Sources, i
      <3>5. CASE s[t].kind = "TransportUdp" /\ NoneLater(k, {"TransportTcp"})
        <4>1. CASE tcp # 0
          <5>1. text[i].kind = "TransportTcp"
            <6>1. i = Find(text, "TransportTcp") /\ Find(text, "TransportTcp") # 0
              BY <2>0, <4>1 DEF tcp
            <6> QED BY <6>1, FirstHeader
          <5>2. text[i].kind \in {"TransportTcp"} /\ {"TransportTcp"} \in SUBSET Transports
            BY <5>1 DEF Transports
          <5>3. text[i].req = k
            BY <1>8, <2>0, <2>a, <3>5, <5>2, NotLater
          <5> QED BY <2>a, <5>3 DEF Sources, i
        <4>2. CASE tcp = 0
          <5>1. i = Find(text, "TransportUdp")
            BY <4>2 DEF ParseTransport, i, tcp
          <5>2. i \in 1 .. t
            BY <3>3, <3>5, <5>1
          <5> QED BY <2>a, <3>2, <5>2 DEF Sources, i
        <4> QED BY <4>1, <4>2
      <3> QED BY <3>1, <3>4, <3>5 DEF Wins
    <2>3. CASE ~OwnTransport(k)
      <3>1. Dialogue[k].method = "SETUP"
        BY <1>8, <1>13
      <3> QED BY <2>3, <2>a, <3>1 DEF Sources, i
    <2> QED BY <1>12, <1>13, <2>1, <2>2, <2>3
  \* the rest of the stream
  <1>14. \A i \in 1 .. Len(Drop(s, d)) :
            /\ Drop(s, d)[i].req # 0 => k <= Drop(s, d)[i].req
            /\ Drop(s, d)[i].kind = "line" => k < Drop(s, d)[i].req
    <2> SUFFICES ASSUME NEW i \in 1 .. Len(Drop(s, d))
                 PROVE  /\ Drop(s, d)[i].req # 0 => k <= Drop(s, d)[i].req
                        /\ Drop(s, d)[i].kind = "line" => k < Drop(s, d)[i].req
      OBVIOUS
    <2>0. /\ Len(Drop(s, d)) = Len(s) - d
          /\ \A j \in 1 .. Len(s) - d : Drop(s, d)[j] = s[d + j]
      BY <1>1, <1>4, DropFacts
    <2>1. d + i \in 1 .. Len(s) /\ Drop(s, d)[i] = s[d + i]
      BY <1>1, <1>4, <2>0
    <2> QED BY <1>9, <2>1
  <1>15. ASSUME p.method = "SETUP", OwnTransport(k), last = 0 \/ ParseTransport(text) = 0
         PROVE  TransportAhead(Drop(s, d), 1, k) \/ NoneLater(k, Transports)
    <2>1. CASE TransportAhead(s, 1, k)
      <3>1. PICK t \in 1 .. Len(s) : Wins(k, s[t].kind) /\ Run(s, 1, t, k)
        BY <2>1 DEF TransportAhead
      <3>2. last < t
        <4>1. CASE last = 0
          BY <4>1
        <4>2. CASE ParseTransport(text) = 0
          <5>1. Find(text, "TransportTcp") = 0 /\ Find(text, "TransportUdp") = 0
            BY <4>2, TransportTaken
          <5>2. s[t].kind \in {"TransportTcp", "TransportUdp"}
            BY <3>1 DEF Wins
          <5> QED BY <1>10, <5>1, <5>2
        <4> QED BY <1>15, <4>1, <4>2
      <3>3. t \in last + 1 .. Len(s)
        BY <3>2
      <3>4. d < t
        <4>1. ~Stale(p, last, text)
          BY <1>15 DEF Stale
        <4> QED BY <1>7, <3>1, <3>3, <4>1
      <3>5. t \in d + 1 .. Len(s)
        BY <1>4, <3>4
      <3> QED BY <1>1, <1>4, <3>1, <3>5, TransportLeft
    <2> QED BY <1>12, <1>15, <2>1
  <1>19. k <= a
    BY DEF k
  <1>16. CASE /\ last = 0 \/ ParseCSeq(p, text) = 0
              /\ parser' = p /\ answers' = answers
    <2>1. CASE p.cseq = 0 /\ CSeqAhead(s, 1, k)
      <3>1. PICK c \in 1 .. Len(s) :
               /\ s[c].kind = "CSeq" /\ Run(s, 1, c, k)
               /\ Dialogue[k].method = "SETUP" /\ OwnTransport(k) =>
                     \/ NoneLater(k, Transports)
                     \/ \E t \in c + 1 .. Len(s) : Wins(k, s[t].kind) /\ Run(s, 1, t, k)
        BY <2>1 DEF CSeqAhead
      <3>2. last < c
        <4>1. CASE last = 0
          BY <4>1
        <4>2. CASE ParseCSeq(p, text) = 0
          <5>1. Find(text, "CSeq") = 0 \/ text[Find(text, "CSeq")].req = 0
            BY <2>1, <4>2 DEF ParseCSeq
          <5>2. Find(text, "CSeq") # 0 => text[Find(text, "CSeq")].req = k
            BY <1>10, <3>1 DEF Run
          <5>3. Find(text, "CSeq") = 0
            BY <1>8, <5>1, <5>2
          <5> QED BY <1>10, <3>1, <5>3
        <4> QED BY <1>16, <4>1, <4>2
      <3>3. c \in last + 1 .. Len(s)
        BY <3>2
      <3>4. d < c
        <4>1. ~Stale(p, last, text)
          BY <1>16 DEF Stale
        <4> QED BY <1>7, <3>1, <3>3, <4>1
      <3>5. c \in d + 1 .. Len(s)
        BY <1>4, <3>4
      <3>6. CSeqAhead(Drop(s, d), 1, k)
        BY <1>1, <1>4, <3>1, <3>5, CSeqLeft
      <3>7. Waiting(parser', Drop(s, d))
        BY <1>8, <1>14, <1>16, <2>1, <3>6 DEF Waiting, k
      <3> QED BY <1>3, <1>4, <1>16, <3>7 DEF Continues, s
    <2>2. CASE p.cseq = k
      <3>1. last = 0
        BY <1>8, <1>16, <2>2 DEF ParseCSeq
      <3>2. p.method = "SETUP" /\ OwnTransport(k) =>
               TransportAhead(Drop(s, d), 1, k) \/ NoneLater(k, Transports)
        BY <1>15, <3>1
      <3>3. Waiting(parser', Drop(s, d))
        BY <1>8, <1>14, <1>16, <2>2, <3>2 DEF Waiting, k
      <3> QED BY <1>3, <1>4, <1>16, <3>3 DEF Continues, s
    <2> QED BY <1>9, <2>1, <2>2
  <1>17. CASE /\ last # 0 /\ ParseCSeq(p, text) # 0 /\ ~GotAll(p.method, text)
              /\ parser' = [p EXCEPT !.cseq = ParseCSeq(p, text)] /\ answers' = answers
    <2>1. parser' = [p EXCEPT !.cseq = k]
      BY <1>11, <1>17
    <2>2. /\ parser'.state = p.state /\ parser'.line = k /\ parser'.cseq = k
          /\ parser'.method = p.method
      BY <2>1 DEF Parsers, k
    <2>3. p.method = "SETUP" /\ OwnTransport(k) =>
             TransportAhead(Drop(s, d), 1, k) \/ NoneLater(k, Transports)
      BY <1>8, <1>15, <1>17, GotAllFacts
    <2>4. Waiting(parser', Drop(s, d))
      BY <1>8, <1>14, <2>2, <2>3 DEF Waiting
    <2> QED BY <1>3, <1>4, <1>17, <2>2, <2>4 DEF Continues, s, k
  <1>18. CASE /\ last # 0 /\ ParseCSeq(p, text) # 0 /\ GotAll(p.method, text)
              /\ parser' = Reset(p)
              /\ answers' = Append(answers, Answer(p, ParseCSeq(p, text), text))
    <2>1. ParseCSeq(p, text) = k
      BY <1>11, <1>18
    <2>2. p.method = Dialogue[k].method
      <3>1. p.method \in Methods
        BY <1>8, <1>18, GotAllFacts
      <3> QED BY <1>8, <3>1 DEF Methods
    <2> DEFINE from == IF p.method = "SETUP" THEN text[ParseTransport(text)].req ELSE k
    <2>3. from \in Sources(k, a)
      <3>1. CASE p.method = "SETUP"
        <4>1. ParseTransport(text) # 0
          BY <1>8, <1>18, <3>1, GotAllFacts
        <4> QED BY <1>13, <3>1, <4>1
      <3>2. CASE p.method # "SETUP"
        <4>1. k \in k .. a
          BY <1>8, <1>19
        <4> QED BY <3>2, <4>1 DEF Sources
      <3> QED BY <3>1, <3>2
    <2>4. Answer(p, k, text) = AnswerTo(k, from)
      BY <2>2 DEF Answer, AnswerTo, k
    <2> HIDE DEF from
    <2> QED BY <1>3, <1>4, <1>18, <2>1, <2>3, <2>4 DEF k
  <1> QED BY <1>2, <1>16, <1>17, <1>18

-----------------------------------------------------------------------------
(* The answers.                                                            *)

\* An answer to a request behind those that were answered.
LEMMA AnswerGiven ==
    ASSUME AnswersInv, asked' = asked, asked \in 0 .. Len(Dialogue), NEW k \in 1 .. asked,
           \A i \in 1 .. Len(answers) : answers[i].line < k, NEW from \in Sources(k, asked),
           answers' = Append(answers, AnswerTo(k, from))
    PROVE  AnswersInv' /\ \A i \in 1 .. Len(answers') : answers'[i].line <= k
  <1>1. answers \in Seq(Answers) /\ Len(Dialogue) \in Nat /\ k \in 1 .. Len(Dialogue)
    BY DialogueFacts DEF AnswersInv
  <1>a. from \in k .. asked /\ from \in 1 .. asked /\ from \in 1 .. Len(Dialogue)
    BY <1>1 DEF Sources
  <1>2. AnswerTo(k, from) \in Answers /\ AnswerTo(k, from).line = k
    BY <1>1, <1>a, DialogueFacts DEF Answers, AnswerTo
  <1>3. /\ answers' \in Seq(Answers) /\ Len(answers') = Len(answers) + 1 /\ Len(answers) \in Nat
        /\ \A i \in 1 .. Len(answers) : answers'[i] = answers[i]
        /\ answers'[Len(answers) + 1] = AnswerTo(k, from)
    BY <1>1, <1>2
  <1>4. /\ DOMAIN answers = 1 .. Len(answers) /\ DOMAIN answers' = 1 .. Len(answers) + 1
    BY <1>1, <1>3, LenProperties
  <1>5. \A i \in 1 .. Len(answers) : answers[i].line \in Nat
    <2> SUFFICES ASSUME NEW i \in 1 .. Len(answers) PROVE answers[i].line \in Nat
      OBVIOUS
    <2>1. answers[i] \in Answers
      BY <1>1, ElementOfSeq
    <2> QED BY <2>1 DEF Answers
  <1>6. ASSUME NEW i \in 1 .. Len(answers) + 1
        PROVE  \E j, x \in 1 .. asked :
                  /\ answers'[i] = AnswerTo(j, x) /\ j <= x /\ x < i + Window
                  /\ OwnTransport(j) \/ Dialogue[j].method # "SETUP" => x = j
                  /\ i > 1 => answers'[i - 1].line < j
    <2>1. CASE i \in 1 .. Len(answers)
      <3>1. PICK j \in 1 .. asked, x \in 1 .. asked :
                  /\ answers[i] = AnswerTo(j, x) /\ j <= x /\ x < i + Window
                  /\ OwnTransport(j) \/ Dialogue[j].method # "SETUP" => x = j
                  /\ i > 1 => answers[i - 1].line < j
        BY <1>4, <2>1 DEF AnswersInv, AnswersMatch, AnswerTo
      <3>2. i > 1 => i - 1 \in 1 .. Len(answers)
        BY <1>3, <2>1
      <3> QED BY <1>3, <2>1, <3>1, <3>2
    <2>2. CASE i = Len(answers) + 1
      <3>1. i > 1 => i - 1 \in 1 .. Len(answers)
        BY <1>3, <2>2
      <3>2. answers'[i] = AnswerTo(k, from)
        BY <1>3, <2>2
      <3>3. i > 1 => answers'[i - 1] = answers[i - 1] /\ answers[i - 1].line < k
        BY <1>3, <3>1
      <3>4. k <= from /\ from < i + Window
        <4>1. asked <= Len(answers) + Window /\ Window \in Nat
          BY RequestAssumption DEF AnswersInv
        <4> QED BY <1>3, <1>a, <2>2, <4>1
      <3>5. OwnTransport(k) \/ Dialogue[k].method # "SETUP" => from = k
        BY DEF Sources
      <3> QED BY <1>a, <3>2, <3>3, <3>4, <3>5
    <2>3. i \in 1 .. Len(answers) \/ i = Len(answers) + 1
      BY <1>3
    <2> QED BY <2>1, <2>2, <2>3
  <1>7. AnswersMatch'
    BY <1>4, <1>6 DEF AnswersMatch, AnswerTo
  <1>8. \A i \in 1 .. Len(answers') : answers'[i].line <= k
    <2> SUFFICES ASSUME NEW i \in 1 .. Len(answers) + 1 PROVE answers'[i].line <= k
      BY <1>3
    <2>1. CASE i \in 1 .. Len(answers)
      BY <1>3, <1>5, <2>1
    <2>2. CASE i = Len(answers) + 1
      BY <1>2, <1>3, <2>2
    <2>3. i \in 1 .. Len(answers) \/ i = Len(answers) + 1
      BY <1>3
    <2> QED BY <2>1, <2>2, <2>3
  <1>9. asked' <= Len(answers') + Window
    <2>1. asked <= Len(answers) + Window /\ Window \in Nat /\ asked \in Nat
      BY <1>1, RequestAssumption DEF AnswersInv
    <2> QED BY <1>3, <2>1
  <1> QED BY <1>3, <1>7, <1>8, <1>9 DEF AnswersInv

\* What is left of the stream.
LEMMA RestOf ==
    ASSUME NEW s \in Seq(Tokens), NEW d \in 0 .. Len(s)
    PROVE  \A i \in 1 .. Len(Drop(s, d)) : d + i \in 1 .. Len(s) /\ Drop(s, d)[i] = s[d + i]
  <1>1. /\ Len(s) \in Nat /\ Len(Drop(s, d)) = Len(s) - d
        /\ \A j \in 1 .. Len(s) - d : Drop(s, d)[j] = s[d + j]
    BY DropFacts
  <1> QED BY <1>1

\* A parser that has the headers of a request k in front of it: whether k is
\* answered or not, the invariant holds afterwards.
LEMMA HeadersKeep ==
    ASSUME TypeInv, StreamOK(Stream), AnswersInv, asked' = asked,
           NEW b \in Seq(Tokens), wire' \in Seq(Tokens), b \o wire' = Stream,
           NEW e \in 0 .. Len(b),
           NEW p \in Parsers, p.line \in 1 .. asked, p.state = "kParseHeadersLine",
           Waiting(p, Drop(Stream, e)),
           \A i \in 1 .. Len(answers) : answers[i].line < p.line,
           OnHeaders(p, Drop(b, e))
    PROVE  StreamOK(Stream') /\ ParserInv' /\ AnswersInv' /\ Answered(Stream)'
  <1> DEFINE r == Drop(b, e)
             q == Drop(Stream, e)
             k == p.line
  <1>1. /\ Len(b) \in Nat /\ Len(wire') \in Nat /\ Stream \in Seq(Tokens)
        /\ Len(Stream) = Len(b) + Len(wire')
    BY JoinFacts
  <1>2. r \in Seq(Tokens) /\ Len(r) = Len(b) - e
    BY DropFacts
  <1>3. r \o wire' = q
    BY DropJoin
  <1>4. PICK d \in 0 .. Len(r) :
              /\ Leaves(r, d)
              /\ \/ Continues(p, r \o wire', d)
                 \/ \E from \in Sources(p.line, asked) :
                       parser' = Reset(p) /\ answers' = Append(answers, AnswerTo(p.line, from))
    <2>1. p.line # 0 /\ Waiting(p, r \o wire') /\ OnHeaders(p, r)
          /\ asked \in Nat /\ p.line <= asked
      BY <1>3, DialogueFacts DEF TypeInv
    <2>2. \A i \in 1 .. Len(r) : r[i].req <= asked
      <3>1. \A i \in 1 .. Len(r) : e + i \in 1 .. Len(b) /\ r[i] = b[e + i]
        BY RestOf
      <3>2. \A i \in 1 .. Len(b) : i \in 1 .. Len(Stream) /\ b[i] = Stream[i]
        BY <1>1, JoinFacts
      <3>3. \A i \in 1 .. Len(Stream) : Stream[i].req <= asked
        BY DEF TypeInv
      <3> HIDE DEF r
      <3> QED BY <3>1, <3>2, <3>3
    <2>3. r \in Seq(Tokens) /\ wire' \in Seq(Tokens) /\ p \in Parsers
      BY <1>2
    <2> HIDE DEF r, q, k
    <2> QED BY ONLY <2>1, <2>2, <2>3, HeadersStep
  <1>5. e + d \in 0 .. Len(b) /\ Leaves(b, e + d) /\ d \in 0 .. Len(b) - e
    <2>1. d \in 0 .. Len(b) - e /\ e + d \in 0 .. Len(b)
      BY <1>1, <1>2
    <2>2. Drop(r, d) = Drop(b, e + d)
      BY <2>1, DropDrop
    <2> QED BY <1>4, <2>1, <2>2 DEF Leaves
  <1>6. e + d \in 0 .. Len(Stream) /\ Stream' = Drop(Stream, e + d)
    BY <1>5, LeavesStream
  <1>7. StreamOK(Stream')
    BY <1>1, <1>6, StreamDrop
  <1>8. Stream' = Drop(q, d)
    <2>1. e \in 0 .. Len(Stream) /\ d \in 0 .. Len(Stream) - e
      BY <1>1, <1>5
    <2> QED BY <1>1, <1>6, <2>1, DropDrop
  <1>9. \A i \in 1 .. Len(Stream') : Stream'[i].kind = "line" => k < Stream'[i].req
    <2>1. q \in Seq(Tokens) /\ d \in 0 .. Len(q)
      <3>1. e \in 0 .. Len(Stream)
        BY <1>1
      <3>2. q \in Seq(Tokens) /\ Len(q) = Len(Stream) - e
        BY <1>1, <3>1, DropFacts
      <3> QED BY <1>1, <1>5, <3>2
    <2>2. \A i \in 1 .. Len(q) : q[i].kind = "line" => k < q[i].req
      BY DEF Waiting
    <2> HIDE DEF q
    <2>3. \A i \in 1 .. Len(Drop(q, d)) : d + i \in 1 .. Len(q) /\ Drop(q, d)[i] = q[d + i]
      BY <2>1, RestOf
    <2> QED BY <1>8, <2>2, <2>3
  <1>10. CASE Continues(p, q, d)
    <2>1. /\ parser'.state = "kParseHeadersLine" /\ parser'.line = k /\ answers' = answers
          /\ Waiting(parser', Stream')
      BY <1>8, <1>10 DEF Continues
    <2>2. k # 0
      OBVIOUS
    <2>3. ParserInv'
      BY <2>1, <2>2 DEF ParserInv
    <2>4. AnswersInv'
      BY <2>1 DEF AnswersInv, AnswersMatch
    <2>5. ASSUME NEW i \in 1 .. Len(answers'), NEW j \in 1 .. Len(Stream'),
                 Stream'[j].kind = "line"
          PROVE  answers'[i].line < Stream'[j].req
      <3>1. answers'[i].line < k /\ k < Stream'[j].req
        BY <1>9, <2>1, <2>5
      <3>2. answers'[i].line \in Nat /\ k \in Nat /\ Stream'[j].req \in Nat
        <4>1. answers[i] \in Answers
          BY <2>1, ElementOfSeq DEF AnswersInv
        <4>2. Stream' \in Seq(Tokens)
          BY <1>1, <1>6, DropFacts
        <4>3. Stream'[j] \in Tokens
          BY <4>2, ElementOfSeq
        <4>4. answers'[i].line \in Nat
          BY <2>1, <4>1 DEF Answers
        <4>5. Stream'[j].req \in Nat
          BY <4>3, TokenFacts
        <4> QED BY <4>4, <4>5
      <3> QED BY <3>1, <3>2, SMTT(20)
    <2>6. Answered(Stream)'
      BY <2>1, <2>5 DEF Answered
    <2> QED BY <1>7, <2>3, <2>4, <2>6
  <1>11. ASSUME NEW from \in Sources(k, asked),
                parser' = Reset(p), answers' = Append(answers, AnswerTo(k, from))
         PROVE  StreamOK(Stream') /\ ParserInv' /\ AnswersInv' /\ Answered(Stream)'
    <2>1. asked \in 0 .. Len(Dialogue)
      BY DEF TypeInv
    <2>2. AnswersInv' /\ \A i \in 1 .. Len(answers') : answers'[i].line <= k
      BY <1>11, <2>1, AnswerGiven
    <2>3. parser'.state = "kParseRequestLine" /\ parser'.line = 0 /\ parser'.cseq = 0
      BY <1>11 DEF Reset, Parsers
    <2>4. ParserInv'
      BY <2>3 DEF ParserInv
    <2>5. ASSUME NEW i \in 1 .. Len(answers'), NEW j \in 1 .. Len(Stream'),
                 Stream'[j].kind = "line"
          PROVE  answers'[i].line < Stream'[j].req
      <3>1. answers'[i].line <= k /\ k < Stream'[j].req
        BY <1>9, <2>2, <2>5
      <3>2. answers'[i].line \in Nat /\ k \in Nat /\ Stream'[j].req \in Nat
        <4>1. answers'[i] \in Answers
          BY <2>2, ElementOfSeq DEF AnswersInv
        <4>2. Stream' \in Seq(Tokens)
          BY <1>1, <1>6, DropFacts
        <4>3. Stream'[j] \in Tokens
          BY <4>2, ElementOfSeq
        <4>4. answers'[i].line \in Nat
          BY <4>1 DEF Answers
        <4>5. Stream'[j].req \in Nat
          BY <4>3, TokenFacts
        <4> QED BY <4>4, <4>5
      <3> QED BY <3>1, <3>2, SMTT(20)
    <2>6. Answered(Stream)'
      BY <2>3, <2>5 DEF Answered
    <2> QED BY <1>7, <2>2, <2>4, <2>6
  <1> QED BY <1>3, <1>4, <1>10, <1>11

\* A request line that was read has its request behind it.
LEMMA LineIsFollowed ==
    ASSUME NEW s \in Seq(Tokens), StreamOK(s), 2 <= Len(s),
           s[1].kind = "line", s[2].kind = "crlf",
           NEW p \in Parsers, p.line = s[1].req, p.cseq = 0,
           p.method = Dialogue[s[1].req].method
    PROVE  Waiting(p, Drop(s, 2))
  <1> DEFINE k == s[1].req
  <1>1. Len(s) \in Nat /\ 2 \in 0 .. Len(s) /\ 1 \in 1 .. Len(s)
    OBVIOUS
  <1>2. k \in Nat /\ k # 0
    <2>1. s[1] \in Tokens
      BY <1>1, ElementOfSeq
    <2> QED BY <2>1, TokenFacts
  <1>3. \A i \in 1 .. Len(Drop(s, 2)) :
            2 + i \in 1 .. Len(s) /\ Drop(s, 2)[i] = s[2 + i] /\ 1 < 2 + i
    BY <1>1, RestOf
  <1>4. \A i \in 1 .. Len(Drop(s, 2)) :
            /\ Drop(s, 2)[i].req # 0 => k <= Drop(s, 2)[i].req
            /\ Drop(s, 2)[i].kind = "line" => k < Drop(s, 2)[i].req
    BY <1>1, <1>2, <1>3 DEF StreamOK
  <1>5. CSeqAhead(Drop(s, 2), 1, k)
    <2>1. CSeqAhead(s, 1, k)
      BY <1>1 DEF StreamOK
    <2>2. PICK c \in 1 .. Len(s) :
             /\ s[c].kind = "CSeq" /\ Run(s, 1, c, k)
             /\ Dialogue[k].method = "SETUP" /\ OwnTransport(k) =>
                   \/ NoneLater(k, Transports)
                   \/ \E t \in c + 1 .. Len(s) : Wins(k, s[t].kind) /\ Run(s, 1, t, k)
      BY <2>1 DEF CSeqAhead
    <2>3. c # 1 /\ c # 2
      BY <2>2
    <2>4. c \in 2 + 1 .. Len(s)
      BY <1>1, <2>3
    <2> QED BY <1>1, <2>2, <2>4, CSeqLeft
  <1> QED BY <1>4, <1>5 DEF Waiting

\* A read keeps the invariant.
LEMMA ReadKeeps ==
    ASSUME IInv, NEW n \in 1 .. Len(wire), HandleRead(n)
    PROVE  StreamOK(Stream') /\ ParserInv' /\ AnswersInv' /\ Answered(Stream)'
  <1>1. /\ TypeInv /\ buf \in Seq(Tokens) /\ wire \in Seq(Tokens) /\ parser \in Parsers
        /\ asked \in 0 .. Len(Dialogue) /\ StreamOK(Stream) /\ ParserInv /\ AnswersInv
        /\ Answered(Stream) /\ asked' = asked /\ Len(Dialogue) \in Nat
    BY DialogueFacts DEF IInv, TypeInv, HandleRead
  <1>2. PICK b \in Seq(Tokens) :
              /\ Len(b) >= 1 /\ wire' \in Seq(Tokens) /\ b \o wire' = Stream
              /\ HandleRtspMessage(b)
    BY <1>1, ReadCase
  <1>3. /\ Stream \in Seq(Tokens) /\ Len(b) \in Nat /\ Len(Stream) \in Nat
        /\ Len(b) <= Len(Stream)
        /\ \A i \in 1 .. Len(b) : i \in 1 .. Len(Stream) /\ Stream[i] = b[i]
    <2>1. /\ Stream \in Seq(Tokens) /\ Len(b) \in Nat /\ Len(wire') \in Nat
          /\ Len(Stream) = Len(b) + Len(wire')
          /\ \A i \in 1 .. Len(b) : Stream[i] = b[i]
      BY <1>2, JoinFacts
    <2> QED BY <2>1
  <1>4. Stream[1] \in Tokens /\ b[1] = Stream[1] /\ 1 \in 1 .. Len(Stream) /\ 1 \in 1 .. Len(b)
    BY <1>2, <1>3, ElementOfSeq
  \* nothing is answered, and the parser stays where it is
  <1>5. ASSUME NEW d \in 0 .. Len(b), Leaves(b, d), answers' = answers,
               parser'.state = parser.state, parser'.line = parser.line,
               parser'.cseq = parser.cseq,
               parser.state = "kParseHeadersLine" =>
                  parser'.method = "RTCP" /\ parser.cseq = parser.line
        PROVE  StreamOK(Stream') /\ ParserInv' /\ AnswersInv' /\ Answered(Stream)'
    <2>1. d \in 0 .. Len(Stream) /\ Stream' = Drop(Stream, d)
      BY <1>2, <1>5, LeavesStream
    <2>2. StreamOK(Stream')
      BY <1>1, <1>3, <2>1, StreamDrop
    <2>3. \A i \in 1 .. Len(Stream') : d + i \in 1 .. Len(Stream) /\ Stream'[i] = Stream[d + i]
      BY <1>3, <2>1, RestOf
    <2>4. AnswersInv'
      BY <1>1, <1>5 DEF AnswersInv, AnswersMatch
    <2>5. Answered(Stream)'
      BY <1>1, <1>5, <2>3 DEF Answered
    <2>6. parser.state = "kParseHeadersLine" => Waiting(parser', Stream')
      BY <1>1, <1>5, <2>3 DEF ParserInv, Waiting
    <2>7. ParserInv'
      BY <1>1, <1>5, <2>6 DEF ParserInv
    <2> QED BY <2>2, <2>4, <2>5, <2>7
  <1>6. CASE OnRtcp(b)
    <2>1. /\ parser' = [parser EXCEPT !.method = "RTCP"] /\ answers' = answers
          /\ b[1].kind \in {"short", "long", "wrapped"}
      BY <1>6 DEF OnRtcp, IsRtcp
    <2>2. /\ parser'.state = parser.state /\ parser'.line = parser.line
          /\ parser'.cseq = parser.cseq /\ parser'.method = "RTCP"
      BY <1>1, <2>1 DEF Parsers
    <2>3. Stream[1].req = 0
      <3>1. Stream[1].kind \in RtcpKinds
        BY <1>4, <2>1 DEF RtcpKinds
      <3> QED BY <1>4, <3>1, TokenFacts
    <2>4. ASSUME parser.state = "kParseHeadersLine" PROVE parser.cseq = parser.line
      <3>1. ASSUME CSeqAhead(Stream, 1, parser.line) PROVE FALSE
        <4>1. PICK c \in 1 .. Len(Stream) : Run(Stream, 1, c, parser.line)
          BY <3>1 DEF CSeqAhead
        <4>2. 1 \in 1 .. c
          OBVIOUS
        <4>3. Stream[1].req = parser.line
          BY <4>1, <4>2 DEF Run
        <4> QED BY <1>1, <2>3, <2>4, <4>3 DEF ParserInv
      <3> QED BY <1>1, <2>4, <3>1 DEF ParserInv, Waiting
    <2>5. PICK d \in 0 .. Len(b) : Leaves(b, d)
      BY <1>6, RtcpCase
    <2> QED BY <1>5, <2>1, <2>2, <2>4, <2>5
  <1>7. CASE parser.state = "kParseRequestLine" /\ OnRequestLine(b)
    <2>0. parser.line = 0 /\ parser.cseq = 0
      BY <1>1, <1>7 DEF ParserInv
    <2>1. CASE /\ \E d \in 0 .. Len(b) : Leaves(b, d)
               /\ parser' \in {parser, [parser EXCEPT !.method = "NONE"]}
               /\ answers' = answers
      <3>1. PICK d \in 0 .. Len(b) : Leaves(b, d)
        BY <2>1
      <3>2. /\ parser'.state = parser.state /\ parser'.line = parser.line
            /\ parser'.cseq = parser.cseq
        BY <1>1, <2>1 DEF Parsers
      <3>3. parser.state # "kParseHeadersLine"
        BY <1>7
      <3> QED BY <1>5, <2>1, <3>1, <3>2, <3>3
    <2>2. CASE /\ 2 \in 0 .. Len(b) /\ b[1].kind = "line" /\ b[2].kind = "crlf"
               /\ OnHeaders(ParsedLine(parser, SubSeq(b, 1, 1)), Drop(b, 2))
               /\ SubSeq(b, 1, 1)[1] = b[1]
      <3> DEFINE p == ParsedLine(parser, SubSeq(b, 1, 1))
                 k == Stream[1].req
      <3>1. p = [parser EXCEPT !.state = "kParseHeadersLine", !.line = k,
                               !.method = Dialogue[k].method]
        BY <1>4, <2>2 DEF ParsedLine
      <3>2. k \in 1 .. asked /\ k \in 0 .. Len(Dialogue) /\ Dialogue[k].method \in Methods
        <4>1. k \in Nat /\ k # 0 /\ k <= asked
          BY <1>1, <1>4, <2>2, TokenFacts DEF TypeInv
        <4>2. k \in 1 .. asked /\ k \in 1 .. Len(Dialogue)
          BY <1>1, <4>1
        <4> QED BY <4>2, DialogueFacts
      <3>3. /\ p \in Parsers /\ p.state = "kParseHeadersLine" /\ p.line = k /\ p.cseq = 0
            /\ p.method = Dialogue[k].method
        BY <1>1, <2>0, <3>1, <3>2 DEF Parsers
      <3> HIDE DEF p
      <3>4. Stream[1].kind = "line" /\ Stream[2].kind = "crlf" /\ 2 <= Len(Stream)
        <4>1. 2 \in 1 .. Len(b)
          BY <1>3, <2>2
        <4> QED BY <1>3, <1>4, <2>2, <4>1
      <3>5. Waiting(p, Drop(Stream, 2))
        BY <1>1, <1>3, <3>3, <3>4, LineIsFollowed
      <3>6. \A i \in 1 .. Len(answers) : answers[i].line < p.line
        BY <1>1, <1>4, <3>3, <3>4 DEF Answered
      <3>7. OnHeaders(p, Drop(b, 2)) /\ p.line \in 1 .. asked
        BY <2>2, <3>2, <3>3 DEF p
      <3> QED BY <1>1, <1>2, <2>2, <3>3, <3>5, <3>6, <3>7, HeadersKeep
    <2> QED BY <1>7, <2>1, <2>2, LineCase
  <1>8. CASE parser.state = "kParseHeadersLine" /\ OnHeaders(parser, b)
    <2>1. Drop(b, 0) = b /\ Drop(Stream, 0) = Stream /\ 0 \in 0 .. Len(b)
      BY <1>3, DropEnds
    <2>2. /\ parser.line # 0 /\ Waiting(parser, Drop(Stream, 0))
          /\ \A i \in 1 .. Len(answers) : answers[i].line < parser.line
      BY <1>1, <1>8, <2>1 DEF ParserInv, Answered
    <2>3. parser.line \in 1 .. asked
      <3>1. parser.line \in 0 .. asked
        BY <1>1 DEF TypeInv, TypeOK
      <3> QED BY <2>2, <3>1
    <2>4. OnHeaders(parser, Drop(b, 0))
      BY <1>8, <2>1
    <2> QED BY <1>1, <1>2, <1>8, <2>1, <2>2, <2>3, <2>4, HeadersKeep
  <1> QED BY <1>2, <1>6, <1>7, <1>8 DEF HandleRtspMessage

\* So does a message of the client, whatever the parser is waiting for.
LEMMA SendKeeps ==
    ASSUME IInv, NEW r \in Seq(Tokens), StreamOK(r), Stream' = Stream \o r,
           Stream \in Seq(Tokens), parser' = parser, answers' = answers,
           asked' \in asked .. Len(Dialogue), asked' <= Len(answers) + Window,
           \A j \in 1 .. Len(r) : r[j].req = 0 \/ asked < r[j].req
    PROVE  StreamOK(Stream') /\ ParserInv' /\ AnswersInv' /\ Answered(Stream)'
  <1>1. /\ TypeInv /\ parser \in Parsers /\ Len(Dialogue) \in Nat /\ asked \in Nat
        /\ asked \in 0 .. Len(Dialogue) /\ StreamOK(Stream) /\ ParserInv /\ AnswersInv
        /\ Answered(Stream)
        /\ parser.line \in 0 .. asked
        /\ \A i \in 1 .. Len(Stream) : Stream[i].req <= asked
    BY DialogueFacts DEF IInv, TypeInv, TypeOK
  <1>2. \A i \in 1 .. Len(Stream) : Stream[i].req \in Nat
    <2> SUFFICES ASSUME NEW i \in 1 .. Len(Stream) PROVE Stream[i].req \in Nat
      OBVIOUS
    <2>1. Stream[i] \in Tokens
      BY ElementOfSeq
    <2> QED BY <2>1, TokenFacts
  <1>3. \A j \in 1 .. Len(r) : r[j].req \in Nat /\ (r[j].kind = "line" => asked < r[j].req)
    <2> SUFFICES ASSUME NEW j \in 1 .. Len(r)
                 PROVE  r[j].req \in Nat /\ (r[j].kind = "line" => asked < r[j].req)
      OBVIOUS
    <2>1. r[j] \in Tokens
      BY ElementOfSeq
    <2> QED BY <2>1, TokenFacts
  <1>4. StreamOK(Stream')
    <2>1. \A i \in 1 .. Len(Stream), j \in 1 .. Len(r) : r[j].req = 0 \/ Stream[i].req < r[j].req
      <3> SUFFICES ASSUME NEW i \in 1 .. Len(Stream), NEW j \in 1 .. Len(r)
                   PROVE  r[j].req = 0 \/ Stream[i].req < r[j].req
        OBVIOUS
      <3> DEFINE x == Stream[i].req
                 y == r[j].req
      <3>1. x \in Nat /\ x <= asked /\ y \in Nat /\ (y = 0 \/ asked < y) /\ asked \in Nat
        BY <1>1, <1>2, <1>3
      <3> HIDE DEF x, y
      <3>2. y = 0 \/ x < y
        BY ONLY <3>1
      <3> QED BY <3>2 DEF x, y
    <2>2. StreamOK(Stream \o r)
      BY <1>1, <2>1, StreamJoin
    <2> QED BY <2>2
  <1>5. \A i \in 1 .. Len(Stream') :
           \/ i \in 1 .. Len(Stream) /\ Stream'[i] = Stream[i]
           \/ \E j \in 1 .. Len(r) : Stream'[i] = r[j]
    <2> SUFFICES ASSUME NEW i \in 1 .. Len(Stream'), ~(i \in 1 .. Len(Stream))
                 PROVE  \E j \in 1 .. Len(r) : Stream'[i] = r[j]
      BY JoinFacts
    <2>1. i \in 1 .. Len(Stream) + Len(r) /\ Len(Stream) \in Nat /\ Len(r) \in Nat
      BY JoinFacts
    <2>2. i - Len(Stream) \in 1 .. Len(r) /\ Len(Stream) + (i - Len(Stream)) = i
      BY <2>1
    <2>3. Stream'[i] = r[i - Len(Stream)]
      BY <2>2, JoinFacts
    <2> QED BY <2>2, <2>3
  <1>6. ASSUME parser.state = "kParseHeadersLine" PROVE Waiting(parser, Stream')
    <2> DEFINE k == parser.line
    <2>1. Waiting(parser, Stream) /\ k \in Nat /\ k <= asked
      BY <1>1, <1>6 DEF ParserInv
    <2>2. \A i \in 1 .. Len(Stream') : /\ Stream'[i].req # 0 => k <= Stream'[i].req
                                       /\ Stream'[i].kind = "line" => k < Stream'[i].req
      <3> SUFFICES ASSUME NEW i \in 1 .. Len(Stream')
                   PROVE  /\ Stream'[i].req # 0 => k <= Stream'[i].req
                          /\ Stream'[i].kind = "line" => k < Stream'[i].req
        OBVIOUS
      <3>1. CASE i \in 1 .. Len(Stream) /\ Stream'[i] = Stream[i]
        BY <2>1, <3>1 DEF Waiting
      <3>2. ASSUME NEW j \in 1 .. Len(r), Stream'[i] = r[j]
            PROVE  /\ Stream'[i].req # 0 => k <= Stream'[i].req
                   /\ Stream'[i].kind = "line" => k < Stream'[i].req
        <4> DEFINE y == r[j].req
        <4>1. k \in Nat /\ k <= asked /\ asked \in Nat /\ y \in Nat
          BY <1>1, <1>3, <2>1
        <4>2. (y = 0 \/ asked < y) /\ (r[j].kind = "line" => asked < y)
          BY <1>3
        <4> HIDE DEF y, k
        <4>3. (y # 0 => k <= y) /\ (asked < y => k < y)
          BY <4>1, <4>2
        <4> QED BY <3>2, <4>2, <4>3 DEF y
      <3> QED BY <1>5, <3>1, <3>2
    <2>3. CSeqAhead(Stream, 1, k) => CSeqAhead(Stream', 1, k)
      <3> HAVE CSeqAhead(Stream, 1, k)
      <3>1. PICK c \in 1 .. Len(Stream) : TRUE
        BY DEF CSeqAhead
      <3>2. 1 \in 1 .. Len(Stream)
        BY <3>1
      <3> QED BY <3>2, CSeqJoin
    <2>4. TransportAhead(Stream, 1, k) => TransportAhead(Stream', 1, k)
      <3> HAVE TransportAhead(Stream, 1, k)
      <3>1. PICK c \in 1 .. Len(Stream) : TRUE
        BY DEF TransportAhead
      <3>2. 1 \in 1 .. Len(Stream)
        BY <3>1
      <3> QED BY <3>2, TransportJoin
    <2> QED BY <2>1, <2>2, <2>3, <2>4 DEF Waiting
  <1>7. ParserInv'
    BY <1>1, <1>6 DEF ParserInv
  <1>8. /\ answers \in Seq(Answers) /\ DOMAIN answers = 1 .. Len(answers)
        /\ \A i \in 1 .. Len(answers) : answers[i].line \in 1 .. asked
    <2>1. answers \in Seq(Answers) /\ DOMAIN answers = 1 .. Len(answers)
      BY <1>1, LenProperties DEF AnswersInv
    <2>2. ASSUME NEW i \in 1 .. Len(answers) PROVE answers[i].line \in 1 .. asked
      <3>1. PICK k \in 1 .. asked, from \in 1 .. asked : answers[i] = AnswerTo(k, from)
        BY <1>1, <2>1 DEF AnswersInv, AnswersMatch, AnswerTo
      <3>2. answers[i].line = k
        BY <3>1 DEF AnswerTo
      <3> QED BY <3>2
    <2> QED BY <2>1, <2>2
  <1>9. AnswersInv'
    <2>1. \A k \in 1 .. asked : k \in 1 .. asked'
      BY <1>1
    <2> QED BY <1>1, <2>1 DEF AnswersInv, AnswersMatch
  <1>10. Answered(Stream)'
    <2>1. ASSUME NEW i \in 1 .. Len(answers), NEW j \in 1 .. Len(Stream'),
                 Stream'[j].kind = "line"
          PROVE  answers[i].line < Stream'[j].req
      <3>1. CASE j \in 1 .. Len(Stream) /\ Stream'[j] = Stream[j]
        BY <1>1, <2>1, <3>1 DEF Answered
      <3>2. ASSUME NEW m \in 1 .. Len(r), Stream'[j] = r[m]
            PROVE  answers[i].line < Stream'[j].req
        <4>1. asked < r[m].req /\ r[m].req \in Nat
          BY <1>3, <2>1, <3>2
        <4>2. answers[i].line \in 1 .. asked
          BY <1>8
        <4>3. asked \in Nat
          BY <1>1
        <4> DEFINE x == answers[i].line
                   y == r[m].req
        <4> HIDE DEF x, y
        <4>4. x \in 1 .. asked /\ asked \in Nat /\ asked < y /\ y \in Nat
          BY <4>1, <4>2, <4>3 DEF x, y
        <4>5. x < y
          BY ONLY <4>4
        <4>6. answers[i].line < r[m].req
          BY <4>5 DEF x, y
        <4> QED BY <3>2, <4>6
      <3> QED BY <1>5, <3>1, <3>2
    <2> QED BY <1>1, <2>1 DEF Answered
  <1> QED BY <1>4, <1>7, <1>9, <1>10

\* The invariant holds at the start.
LEMMA InitKeeps == Init => IInv
  <1> SUFFICES ASSUME Init PROVE IInv
    OBVIOUS
  <1>1. << >> \in Seq(Tokens) /\ << >> \in Seq(Answers) /\ Len(<< >>) = 0
    BY EmptySeq
  <1>2. Stream = << >> /\ answers = << >>
    BY <1>1, ConcatEmptySeq DEF Init, Stream
  <1>3. StreamOK(Stream) /\ Answered(Stream)
    BY <1>1, <1>2 DEF StreamOK, Answered
  <1>4. AnswersMatch /\ asked <= Len(answers) + Window
    <2>1. asked = 0 /\ Window \in Nat
      BY RequestAssumption DEF Init
    <2> QED BY <1>1, <1>2, <2>1 DEF AnswersMatch
  <1>5. ParserInv
    BY DEF Init, Fresh, ParserInv
  <1> QED BY <1>1, <1>2, <1>3, <1>4, <1>5, InitTypes DEF IInv, AnswersInv

\* And after every step.
LEMMA StepKeeps == IInv /\ [Next]_vars => IInv'
  <1> SUFFICES ASSUME IInv, [Next]_vars PROVE IInv'
    OBVIOUS
  <1>1. /\ TypeInv /\ buf \in Seq(Tokens) /\ wire \in Seq(Tokens)
        /\ asked \in 0 .. Len(Dialogue) /\ Len(Dialogue) \in Nat
    BY DialogueFacts DEF IInv, TypeInv
  <1>2. TypeInv'
    BY <1>1, TypeStep
  <1>3. SUFFICES StreamOK(Stream') /\ ParserInv' /\ AnswersInv' /\ Answered(Stream)'
    BY <1>2 DEF IInv
  <1>4. CASE Read
    <2>1. PICK n \in DOMAIN wire : HandleRead(n)
      BY <1>4 DEF Read
    <2>2. n \in 1 .. Len(wire)
      BY <1>1, LenProperties
    <2> QED BY <2>1, <2>2, ReadKeeps
  <1>5. CASE Ask
    <2> DEFINE k == asked + 1
    <2>1. /\ asked < Len(Dialogue) /\ asked' = k /\ wire' = wire \o Request(k)
          /\ buf' = buf /\ parser' = parser /\ answers' = answers
          /\ asked < Len(answers) + Window
      BY <1>5 DEF Ask
    <2>7. asked' <= Len(answers) + Window
      <3>1. Len(answers) \in Nat /\ Window \in Nat
        BY RequestAssumption, LenProperties DEF IInv, AnswersInv
      <3> QED BY <1>1, <2>1, <3>1
    <2>2. k \in 1 .. Len(Dialogue) /\ asked' \in asked .. Len(Dialogue)
      BY <1>1, <2>1
    <2>3. /\ Request(k) \in Seq(Tokens)
          /\ \A i \in 1 .. Len(Request(k)) : Request(k)[i].req = k
      BY <2>2, RequestTokens
    <2>4. StreamOK(Request(k))
      BY <2>2, RequestIsOK
    <2>5. /\ \A i \in 1 .. Len(Request(k)) : Request(k)[i].req <= asked'
          /\ \A i \in 1 .. Len(Request(k)) : Request(k)[i].req = 0 \/ asked < Request(k)[i].req
      BY <1>1, <2>1, <2>3
    <2>6. Stream' = Stream \o Request(k) /\ Stream \in Seq(Tokens)
      BY <1>1, <2>1, <2>2, <2>3, <2>5, SendTypes
    <2> QED BY <2>1, <2>2, <2>3, <2>4, <2>5, <2>6, <2>7, SendKeeps
  <1>6. ASSUME NEW length \in RtcpLengths, Report(length)
        PROVE  StreamOK(Stream') /\ ParserInv' /\ AnswersInv' /\ Answered(Stream)'
    <2> DEFINE r == RtcpFrame(length)
    <2>1. /\ wire' = wire \o r /\ asked' = asked /\ buf' = buf
          /\ parser' = parser /\ answers' = answers
      BY <1>6 DEF Report
    <2>2. asked' \in asked .. Len(Dialogue) /\ 0 <= asked'
      BY <1>1, <2>1
    <2>3. r \in Seq(Tokens) /\ StreamOK(r) /\ \A i \in 1 .. Len(r) : r[i].req = 0
      BY RtcpTokens
    <2> HIDE DEF r
    <2>4. Stream' = Stream \o r /\ Stream \in Seq(Tokens)
      BY <1>1, <2>1, <2>2, <2>3, SendTypes
    <2>5. asked' <= Len(answers) + Window
      BY <2>1 DEF IInv, AnswersInv
    <2> QED BY <2>1, <2>2, <2>3, <2>4, <2>5, SendKeeps
  <1>7. CASE UNCHANGED vars
    <2>1. Stream' = Stream /\ parser' = parser /\ answers' = answers /\ asked' = asked
      BY <1>7 DEF vars, Stream
    <2>2. StreamOK(Stream) /\ ParserInv /\ AnswersInv /\ Answered(Stream)
      BY DEF IInv
    <2>3. ParserInv'
      BY <2>1, <2>2 DEF ParserInv
    <2>4. AnswersInv'
      BY <2>1, <2>2 DEF AnswersInv, AnswersMatch
    <2>5. Answered(Stream)'
      BY <2>1, <2>2 DEF Answered
    <2> QED BY <2>1, <2>2, <2>3, <2>4, <2>5
  <1> QED BY <1>4, <1>5, <1>6, <1>7 DEF Next

\* The invariant holds for every dialogue.
THEOREM RequestParsing == Spec => []IInv
  BY InitKeeps, StepKeeps, PTL DEF Spec

\* Every response answers one request, in the order of the requests, with that
\* request's method and CSeq, and a SETUP for its own Transport header or, where
\* OwnTransport does not exclude it, for that of a request sent behind it before
\* the response: for every dialogue of requests with a CSeq, whatever their
\* headers and the order of them, for any number of requests sent ahead, any RTCP
\* frames between them, any limit of the buffer and any cuts of the stream.
THEOREM AnswersAlwaysMatch == Spec => []AnswersMatch
  <1>1. IInv => AnswersMatch
    BY DEF IInv, AnswersInv
  <1> QED BY <1>1, RequestParsing, PTL

=============================================================================
