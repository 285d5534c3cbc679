---------------------------- MODULE H264FileProofs ----------------------------
(***************************************************************************)
(* Proofs about H264File, for every file and every buffer size.            *)
(***************************************************************************)
EXTENDS H264File, TLAPS

Playing == pc \in {"read", "push"}

\* Between two reads the position is the beginning of the file, or the end
\* mark behind the chunk returned last, at least six bytes before the end.
PositionInv ==
    /\ file \in Files
    /\ Playing /\ count =>
          /\ bytesUsed \in file.ends
          /\ bytesUsed + Lookahead < file.size
          /\ ~chunk.last
          /\ chunk.to = bytesUsed
    /\ Playing /\ ~count => bytesUsed = 0 /\ chunk.last

IInv == TypeOK /\ PositionInv /\ ScanStaysInside

\* The marks of a file are positions in it.
LEMMA MarksAreNumbers ==
    ASSUME file \in Files
    PROVE  /\ file.size \in Nat
           /\ \A e \in file.ends : e \in Nat /\ e <= file.size
           /\ \A s \in file.starts : s \in file.ends
  BY FileAssumption

\* The numbers of a read: where it begins, what it gets and how far the
\* scans go.
LEMMA ReadNumbers ==
    ASSUME IInv, pc = "read"
    PROVE  /\ Position = bytesUsed
           /\ Position \in Nat /\ Position <= file.size
           /\ Counted <=> count
           /\ BytesRead(Position) \in Nat
           /\ Position + BytesRead(Position) <= file.size
           /\ file.size < Position + BufSize
                => Position + BytesRead(Position) = file.size
           /\ file.size >= Position + BufSize => BytesRead(Position) = BufSize
           /\ BytesRead(Position) <= BufSize
           /\ BytesRead(Position) = 0 => file.size = 0
           /\ BytesRead(Position) < Lookahead => file.size < Lookahead
  <1>1. Playing BY DEF Playing
  <1>2. file.size \in Nat BY MarksAreNumbers DEF IInv, PositionInv
  <1>3. bytesUsed \in Nat /\ bytesUsed <= file.size /\ count \in BOOLEAN
    BY <1>2 DEF IInv, TypeOK
  <1>4. count => bytesUsed + Lookahead < file.size
    BY <1>1 DEF IInv, PositionInv
  <1>5. ~count => bytesUsed = 0
    BY <1>1 DEF IInv, PositionInv
  <1>6. Position = bytesUsed
    <2>1. CASE count BY <2>1, <1>2, <1>3, <1>4 DEF Position, Lookahead
    <2>2. CASE ~count BY <2>2, <1>2, <1>3, <1>5 DEF Position
    <2> QED BY <2>1, <2>2
  <1>7. Counted <=> count
    BY <1>2, <1>3, <1>4 DEF Counted, Lookahead
  <1> QED
    BY <1>2, <1>3, <1>4, <1>5, <1>6, <1>7, FileAssumption DEF BytesRead, Lookahead

\* When the scans stay in the buffer they end five bytes before its end.
LEMMA ScanEnd ==
    ASSUME IInv, pc = "read",
           BytesRead(Position) > 0,
           ScanLimit(BytesRead(Position)) <= BytesRead(Position)
    PROVE  /\ BytesRead(Position) >= Lookahead
           /\ Position + ScanLimit(BytesRead(Position)) \in Nat
           /\ Position + ScanLimit(BytesRead(Position)) + Lookahead
                = Position + BytesRead(Position)
  BY ReadNumbers, FileAssumption DEF ScanLimit, Lookahead

\* A chunk that ends at the next start code keeps the invariant.
LEMMA FrameFoundStep ==
    ASSUME IInv, pc = "read", UNCHANGED file,
           BytesRead(Position) > 0,
           ScanLimit(BytesRead(Position)) <= BytesRead(Position),
           FrameFound(Position, Position + ScanLimit(BytesRead(Position)))
    PROVE  /\ IInv'
           /\ chunk'.from = Position
           /\ OneFramePerChunk'
  <1> DEFINE u == Position
             n == BytesRead(u)
             hi == u + ScanLimit(n)
  <1>1. PICK s \in file.starts, e \in file.ends :
            FrameStart(s, u, hi) /\ FrameEnd(e, s, hi) /\ Return(u, e, FALSE) /\ Advance(e)
    BY DEF FrameFound
  <1>2. /\ file.size \in Nat
        /\ s \in Nat /\ e \in Nat
        /\ \A t \in file.starts : t \in Nat /\ t \in file.ends
    BY MarksAreNumbers DEF IInv, PositionInv
  <1>3. /\ u \in Nat /\ n \in Nat /\ n <= BufSize /\ hi \in Nat
        /\ u + n <= file.size
        /\ hi + Lookahead = u + n
    BY ReadNumbers, ScanEnd
  <1>4. u <= s /\ s + 4 <= e /\ e < hi
    BY <1>1 DEF FrameStart, FrameEnd, Finds
  <1>5. e + Lookahead < file.size /\ e - u \in Nat /\ e - u <= OutSize
    BY <1>2, <1>3, <1>4, FileAssumption DEF Lookahead
  <1>6. /\ chunk' = [from |-> u, to |-> e, last |-> FALSE, size |-> e - u]
        /\ pc' = "push" /\ count' = TRUE /\ bytesUsed' = e
    BY <1>1, <1>5 DEF Return, Advance
  <1>7. TypeOK'
    BY <1>2, <1>3, <1>5, <1>6 DEF TypeOK, Lookahead
  <1>8. PositionInv'
    BY <1>5, <1>6 DEF PositionInv, Playing, IInv
  <1>9. ScanStaysInside'
    BY <1>6 DEF ScanStaysInside
  <1>10. OneFramePerChunk'
    <2>1. \A t \in file.starts : u <= t /\ t < e => s <= t /\ t < s + 4
      BY <1>1, <1>2, <1>3 DEF FrameStart, FrameEnd, Finds
    <2> QED
      BY <1>2, <1>3, <1>4, <1>6, <2>1 DEF OneFramePerChunk
  <1> QED BY <1>6, <1>7, <1>8, <1>9, <1>10 DEF IInv

\* So does the one that ends with the file.
LEMMA LastFrameStep ==
    ASSUME IInv, pc = "read", UNCHANGED file,
           BytesRead(Position) > 0,
           ScanLimit(BytesRead(Position)) <= BytesRead(Position),
           LastFrame(Position, Position + ScanLimit(BytesRead(Position)))
    PROVE  /\ IInv'
           /\ chunk'.from = Position
           /\ OneFramePerChunk'
  <1> DEFINE u == Position
             n == BytesRead(u)
             hi == u + ScanLimit(n)
  <1>1. PICK s \in file.starts :
            FrameStart(s, u, hi) /\ FindsNone(file.ends, s + 4, hi)
    BY DEF LastFrame
  <1>2. /\ file.size \in Nat
        /\ s \in Nat
        /\ \A t \in file.starts : t \in Nat /\ t \in file.ends
    BY MarksAreNumbers DEF IInv, PositionInv
  <1>3. /\ u \in Nat /\ n \in Nat /\ n <= BufSize /\ hi \in Nat
        /\ u + n <= file.size
        /\ hi + Lookahead = u + n
    BY ReadNumbers, ScanEnd
  <1>4. u <= s /\ s < hi
    BY <1>1 DEF FrameStart, Finds
  <1>5. (u + n) - u = n /\ n <= OutSize
    BY <1>3, FileAssumption
  <1>6. /\ chunk' = [from |-> u, to |-> u + n, last |-> TRUE, size |-> n]
        /\ pc' = "push" /\ count' = FALSE /\ bytesUsed' = 0
    BY <1>5 DEF LastFrame, Return, Restart
  <1>7. TypeOK'
    <2>1. bytesUsed' \in 0 .. file'.size
      BY <1>2, <1>6
    <2>2. chunk' \in [from : Nat, to : Nat, size : Nat, last : BOOLEAN]
      <3>1. u + n \in Nat BY <1>3
      <3> QED BY <1>3, <1>6, <3>1
    <2> QED BY <1>6, <2>1, <2>2 DEF TypeOK
  <1>8. PositionInv'
    BY <1>6 DEF PositionInv, Playing, IInv
  <1>9. ScanStaysInside'
    BY <1>6 DEF ScanStaysInside
  <1>10. OneFramePerChunk'
    <2>1. u + n = file.size =>
            \A t \in file.starts : u <= t /\ t + Lookahead < file.size
                                     => s <= t /\ t < s + 4
      BY <1>1, <1>2, <1>3 DEF FrameStart, Finds, FindsNone, Lookahead
    <2> QED
      BY <1>2, <1>3, <1>4, <1>5, <1>6, <2>1 DEF OneFramePerChunk, Lookahead
  <1> QED BY <1>6, <1>7, <1>8, <1>9, <1>10 DEF IInv

\* What the scans see of a playable file: a frame, and its end too unless the
\* rest of the file is in the buffer and a frame has been returned.
LEMMA PlayableSees ==
    ASSUME IInv, pc = "read", Playable(file)
    PROVE  LET u == Position
               n == BytesRead(u)
               hi == u + ScanLimit(n)
           IN  /\ file.size > 0 /\ n > Lookahead /\ ScanLimit(n) <= n
               /\ \E s \in file.starts : u <= s /\ s < hi
               /\ u + n # file.size \/ ~count =>
                     \E s \in file.starts, e \in file.ends :
                         u <= s /\ s + 4 <= e /\ e < hi
  <1> DEFINE u == Position
             n == BytesRead(u)
             hi == u + ScanLimit(n)
  <1>1. /\ file.size \in Nat
        /\ \A e \in file.ends : e \in Nat /\ e + Lookahead < file.size
        /\ \A s \in file.starts : s \in file.ends
    BY MarksAreNumbers DEF IInv, PositionInv, Playable
  <1>2. PICK a \in file.starts, b \in file.starts : a + 4 <= b
    BY DEF Playable
  <1>3. /\ u \in Nat /\ n \in Nat /\ u = bytesUsed
        /\ u + n <= file.size
        /\ file.size < u + BufSize => u + n = file.size
        /\ file.size >= u + BufSize => n = BufSize
    BY ReadNumbers
  <1>4. IF count THEN u \in file.ends ELSE u = 0
    BY <1>3 DEF IInv, PositionInv, Playing
  <1>5. u + Lookahead < file.size
    BY <1>1, <1>2, <1>4 DEF Lookahead
  <1>6. n > Lookahead
    BY <1>1, <1>3, <1>5, FileAssumption DEF Lookahead
  <1>7. ScanLimit(n) = n - Lookahead
    BY <1>3, <1>6 DEF ScanLimit, Lookahead
  <1>8. hi + Lookahead = u + n /\ hi \in Nat /\ ScanLimit(n) <= n /\ file.size > 0
    BY <1>1, <1>3, <1>5, <1>6, <1>7 DEF Lookahead
  <1>9. u \in file.ends \cup {0}
    BY <1>4
  <1>10. \/ file.size <= u + BufSize
         \/ \E s \in file.starts, e \in file.ends :
               u <= s /\ s + 4 <= e /\ e + Lookahead < u + BufSize
    BY <1>9 DEF Playable
  <1>11. CASE file.size <= u + BufSize
    <2>1. u + n = file.size
      BY <1>1, <1>3, <1>11, FileAssumption
    <2>2. \A e \in file.ends : e < hi
      BY <1>1, <1>8, <2>1 DEF Lookahead
    <2>3. \E s \in file.starts : u <= s
      <3>1. CASE count BY <1>4, <3>1 DEF Playable
      <3>2. CASE ~count BY <1>1, <1>2, <1>4, <3>2
      <3> QED BY <3>1, <3>2
    <2>4. ~count => u <= a /\ a + 4 <= b /\ b < hi
      BY <1>1, <1>2, <1>4, <2>2
    <2>5. b \in file.ends
      BY <1>1
    <2> QED BY <1>1, <1>2, <1>6, <1>8, <2>1, <2>2, <2>3, <2>4, <2>5
  <1>12. CASE file.size > u + BufSize
    <2>1. PICK s \in file.starts, e \in file.ends :
              u <= s /\ s + 4 <= e /\ e + Lookahead < u + BufSize
      BY <1>1, <1>3, <1>10, <1>12, FileAssumption
    <2>2. n = BufSize
      BY <1>1, <1>3, <1>12, FileAssumption
    <2>3. e < hi /\ s < hi
      BY <1>1, <1>3, <1>8, <2>1, <2>2 DEF Lookahead
    <2> QED BY <1>6, <1>8, <2>1, <2>3
  <1> QED BY <1>1, <1>3, <1>11, <1>12, FileAssumption

\* A playable file is never given up and starts over only at its end.
LEMMA PlayableStep ==
    ASSUME IInv, KeepsPlaying, [Next]_vars
    PROVE  KeepsPlaying'
  <1> SUFFICES ASSUME Playable(file'), file' = file
               PROVE  KeepsPlaying'
    BY DEF KeepsPlaying, Next, ReadFrame, Push, vars
  <1>1. Playable(file) OBVIOUS
  <1>2. pc \in {"read", "push"} BY <1>1 DEF KeepsPlaying
  <1>3. CASE Push
    BY <1>3 DEF Push, KeepsPlaying
  <1>4. CASE UNCHANGED vars
    BY <1>4, <1>1 DEF vars, KeepsPlaying
  <1>5. CASE ReadFrame
    <2> DEFINE u == Position
               n == BytesRead(u)
               hi == u + ScanLimit(n)
    <2>1. pc = "read" BY <1>5 DEF ReadFrame
    <2>2. /\ file.size > 0 /\ n > Lookahead /\ ScanLimit(n) <= n
          /\ \E s \in file.starts : u <= s /\ s < hi
          /\ u + n # file.size \/ ~count =>
                \E s \in file.starts, e \in file.ends :
                    u <= s /\ s + 4 <= e /\ e < hi
      BY <1>1, <2>1, PlayableSees
    <2>3. /\ file.size \in Nat
          /\ \A e \in file.ends : e \in Nat /\ e + Lookahead < file.size
          /\ \A s \in file.starts : s \in file.ends
      BY <1>1, MarksAreNumbers DEF IInv, PositionInv, Playable
    <2>4. u \in Nat /\ n \in Nat /\ (Counted <=> count)
      BY <2>1, ReadNumbers
    <2>5. CASE FrameFound(u, hi)
      <3>1. PICK e \in file.ends : Return(u, e, FALSE)
        BY <2>5 DEF FrameFound
      <3>2. e # file.size BY <2>3 DEF Lookahead
      <3> QED BY <3>1, <3>2 DEF Return, KeepsPlaying
    <2>6. CASE LastFrame(u, hi)
      <3>1. PICK s \in file.starts :
                FrameStart(s, u, hi) /\ FindsNone(file.ends, s + 4, hi)
        BY <2>6 DEF LastFrame
      <3>2. ~\E t \in file.starts, e \in file.ends :
                u <= t /\ t + 4 <= e /\ e < hi
        BY <3>1, <2>3, <2>4 DEF FrameStart, Finds, FindsNone
      <3>3. u + n = file.size BY <2>2, <3>2
      <3> QED BY <2>6, <3>3 DEF LastFrame, Return, KeepsPlaying
    <2>7. CASE ReadFails(u, hi)
      <3>1. ~FindsNone(file.starts, u, hi) BY <2>2 DEF FindsNone
      <3>2. file.size # 0 BY <2>2, <2>3
      <3>3. PICK s \in file.starts :
                FrameStart(s, u, hi) /\ FindsNone(file.ends, s + 4, hi)
        BY <2>7, <3>1, <3>2 DEF ReadFails
      <3>4. ~Counted BY <2>7, <3>1, <3>2 DEF ReadFails
      <3>5. ~\E t \in file.starts, e \in file.ends :
                u <= t /\ t + 4 <= e /\ e < hi
        BY <3>3, <2>3, <2>4 DEF FrameStart, Finds, FindsNone
      <3> QED BY <2>2, <2>4, <3>4, <3>5
    <2> QED BY <1>5, <2>2, <2>5, <2>6, <2>7 DEF ReadFrame
  <1> QED BY <1>3, <1>4, <1>5 DEF Next

\* A file that has just been opened.
LEMMA InitInv == Init => IInv /\ OneFramePerChunk /\ KeepsPlaying
  <1> SUFFICES ASSUME Init PROVE IInv /\ OneFramePerChunk /\ KeepsPlaying
    OBVIOUS
  <1> USE DEF Init
  <1>1. file \in Files /\ file.size \in Nat BY MarksAreNumbers
  <1>2. TypeOK
    <2>1. bytesUsed \in 0 .. file.size BY <1>1
    <2> QED BY <2>1 DEF TypeOK, NoChunk
  <1>3. PositionInv BY <1>1 DEF PositionInv, NoChunk
  <1>4. ScanStaysInside /\ OneFramePerChunk /\ KeepsPlaying
    BY DEF ScanStaysInside, OneFramePerChunk, KeepsPlaying
  <1> QED BY <1>2, <1>3, <1>4 DEF IInv

\* Every step keeps the invariant; a new chunk begins where it must and
\* holds one frame.
LEMMA StepInv ==
    ASSUME IInv, OneFramePerChunk, [Next]_vars
    PROVE  /\ IInv'
           /\ OneFramePerChunk'
           /\ chunk' # chunk =>
                 chunk'.from = IF chunk.last THEN 0 ELSE chunk.to
  <1>1. CASE UNCHANGED vars
    BY <1>1 DEF vars, IInv, TypeOK, PositionInv, ScanStaysInside,
                OneFramePerChunk, Playing
  <1>2. CASE Push
    <2>1. TypeOK' BY <1>2 DEF Push, IInv, TypeOK
    <2>2. PositionInv' BY <1>2 DEF Push, IInv, PositionInv, Playing
    <2>3. ScanStaysInside' /\ OneFramePerChunk'
      BY <1>2 DEF Push, ScanStaysInside, OneFramePerChunk
    <2> QED BY <1>2, <2>1, <2>2, <2>3 DEF IInv, Push
  <1>3. CASE ReadFrame
    <2> DEFINE u == Position
               n == BytesRead(u)
               hi == u + ScanLimit(n)
               inside == n = 0 \/ ScanLimit(n) <= n
    <2>1. pc = "read" /\ UNCHANGED file BY <1>3 DEF ReadFrame
    <2>2. u = IF chunk.last THEN 0 ELSE chunk.to
      <3>1. u = bytesUsed BY <2>1, ReadNumbers
      <3>2. CASE count BY <3>1, <3>2, <2>1 DEF IInv, PositionInv, Playing
      <3>3. CASE ~count BY <3>1, <3>3, <2>1 DEF IInv, PositionInv, Playing
      <3> QED BY <3>2, <3>3
    <2>3. CASE inside /\ n > 0 /\ FrameFound(u, hi)
      <3>1. n \in Nat BY <2>1, ReadNumbers
      <3>2. ScanLimit(n) <= n BY <2>3, <3>1
      <3> QED BY <2>1, <2>2, <2>3, <3>2, FrameFoundStep
    <2>4. CASE inside /\ n > 0 /\ LastFrame(u, hi)
      <3>1. n \in Nat BY <2>1, ReadNumbers
      <3>2. ScanLimit(n) <= n BY <2>4, <3>1
      <3> QED BY <2>1, <2>2, <2>4, <3>2, LastFrameStep
    <2>5. CASE ReadFails(u, hi)
      <3>1. /\ count' = FALSE /\ bytesUsed' = 0
            /\ pc' = "stopped" /\ chunk' = chunk
        BY <2>5 DEF ReadFails, Close
      <3>2. file.size \in Nat BY MarksAreNumbers DEF IInv, PositionInv
      <3>3. TypeOK'
        <4>1. bytesUsed' \in 0 .. file'.size BY <2>1, <3>1, <3>2
        <4> QED BY <2>1, <3>1, <4>1 DEF IInv, TypeOK
      <3>4. PositionInv' BY <2>1, <3>1 DEF IInv, PositionInv, Playing
      <3>5. ScanStaysInside' /\ OneFramePerChunk'
        BY <3>1 DEF ScanStaysInside, OneFramePerChunk
      <3> QED BY <3>1, <3>3, <3>4, <3>5 DEF IInv
    <2>6. CASE ~inside /\ ScanOverruns
      <3>1. /\ pc' = "undefined"
            /\ bytesUsed' = bytesUsed /\ count' = count /\ chunk' = chunk
        BY <2>6 DEF ScanOverruns
      <3>2. n < Lookahead
        BY <2>1, <2>6, ReadNumbers DEF ScanLimit, Lookahead
      <3>3. file.size < Lookahead
        BY <2>1, <3>2, ReadNumbers
      <3>4. TypeOK' BY <2>1, <3>1 DEF IInv, TypeOK
      <3>5. PositionInv' BY <2>1, <3>1 DEF IInv, PositionInv, Playing
      <3>6. ScanStaysInside' /\ OneFramePerChunk'
        BY <2>1, <3>1, <3>3 DEF ScanStaysInside, OneFramePerChunk
      <3> QED BY <3>1, <3>4, <3>5, <3>6 DEF IInv
    <2> QED BY <1>3, <2>3, <2>4, <2>5, <2>6 DEF ReadFrame
  <1> QED BY <1>1, <1>2, <1>3 DEF Next

\* The invariant of the file reader.
THEOREM ReaderInvariant == Spec => [](IInv /\ OneFramePerChunk /\ KeepsPlaying)
  <1>1. IInv /\ OneFramePerChunk /\ KeepsPlaying /\ [Next]_vars
            => (IInv /\ OneFramePerChunk /\ KeepsPlaying)'
    BY StepInv, PlayableStep
  <1> QED BY InitInv, <1>1, PTL DEF Spec

\* The variables of the file reader keep their types; _bytesUsed stays inside
\* the file.
THEOREM ReaderTypeCorrect == Spec => []TypeOK
  BY ReaderInvariant, PTL DEF IInv

\* The scans of readFrame leave the buffer for no file of five bytes or more.
THEOREM ScanAlwaysInside == Spec => []ScanStaysInside
  BY ReaderInvariant, PTL DEF IInv

\* readFrame never returns two frames in one chunk, nor a part of one.
THEOREM AlwaysOneFrame == Spec => []OneFramePerChunk
  BY ReaderInvariant, PTL

\* The thread never gives up a playable file, and restarts it only at its end.
THEOREM AlwaysPlaying == Spec => []KeepsPlaying
  BY ReaderInvariant, PTL

\* No byte between two chunks is skipped or sent twice.
THEOREM ChunksAlwaysFollow == Spec => ChunksFollow
  <1>1. IInv /\ OneFramePerChunk /\ [Next]_vars =>
           [chunk' # chunk =>
               chunk'.from = IF chunk.last THEN 0 ELSE chunk.to]_vars
    BY StepInv
  <1> QED BY ReaderInvariant, <1>1, PTL DEF Spec, ChunksFollow
=============================================================================
