------------------------------- MODULE H264File -------------------------------
(***************************************************************************)
(* H264File::readFrame and the thread of rtsp_h264file.cc that feeds what  *)
(* it returns to RtspServer::pushFrame.  A file is its size and the byte   *)
(* positions at which the two scans of readFrame match: `starts', where a  *)
(* frame's first slice begins, and `ends', where an SEI, SPS, PPS or a     *)
(* frame's first slice begins.  (A four byte start code at p matches at p  *)
(* and again, as a three byte one, at p + 1.)                              *)
(***************************************************************************)
EXTENDS Naturals, FiniteSets

CONSTANTS
    Files,     \* the files that may be played
    BufSize,   \* _bufSize, the bytes read at a time (500000 in the code)
    OutSize,   \* size of the caller's buffer (500000 in the code)
    SizeMod    \* size_t is modulo SizeMod (2^64 in the code)

\* The bytes a scan reads beyond the position it looks at.
Lookahead == 5

ASSUME FileAssumption ==
    /\ BufSize \in Nat /\ OutSize \in Nat /\ SizeMod \in Nat
    /\ BufSize > Lookahead /\ SizeMod > BufSize + Lookahead
    /\ BufSize <= OutSize
    /\ \A f \in Files : /\ f.size \in Nat
                        /\ f.ends \subseteq 0 .. f.size
                        /\ f.starts \subseteq f.ends

VARIABLES
    file,       \* what _fp is open on
    bytesUsed,  \* _bytesUsed, also the position of _fp between calls
    count,      \* whether _count is positive
    pc,         \* the thread: "read", "push", "stopped" or "undefined"
    chunk       \* what readFrame returned last

vars == <<file, bytesUsed, count, pc, chunk>>

NoChunk == [from |-> 0, to |-> 0, size |-> 0, last |-> TRUE]

\* The constructor and a successful open().
Init ==
    /\ file \in Files
    /\ bytesUsed = 0
    /\ count = FALSE
    /\ pc = "read"
    /\ chunk = NoChunk

-----------------------------------------------------------------------------
\* What fread() returns at position u.
BytesRead(u) == IF file.size - u < BufSize THEN file.size - u ELSE BufSize

\* A read that returns nothing is repeated from the beginning.
Position == IF bytesUsed < file.size THEN bytesUsed ELSE 0
Counted == count /\ bytesUsed < file.size

\* bytesRead - 5, an unsigned subtraction.
ScanLimit(n) == IF n >= Lookahead THEN n - Lookahead ELSE SizeMod + n - Lookahead

\* p is the first mark a scan from `lo' finds before `hi'.
Finds(p, marks, lo, hi) ==
    /\ p \in marks /\ lo <= p /\ p < hi
    /\ \A q \in marks : lo <= q => p <= q
FindsNone(marks, lo, hi) == \A q \in marks : ~(lo <= q /\ q < hi)

FrameStart(s, u, hi) == Finds(s, file.starts, u, hi)
\* The second scan begins four bytes behind the start it found.
MutFrameEndOnlyParameters(e, s, hi) == Finds(e, file.ends \ file.starts, s + 4, hi)

FrameEnd(e, s, hi) == Finds(e, file.ends, s + 4, hi)

\* The chunk from u to e is copied out, cut to the caller's buffer.
Return(u, e, last) ==
    /\ chunk' = [from |-> u, to |-> e, last |-> last,
                 size |-> IF e - u <= OutSize THEN e - u ELSE OutSize]
    /\ pc' = "push"

\* The file goes on behind a frame that ended, and from the beginning after
\* the last.
MutAdvanceTwice(e) == count' = TRUE /\ bytesUsed' = bytesUsed + e
MutAdvanceNot(e) == count' = TRUE /\ UNCHANGED bytesUsed
MutAdvanceUncounted(e) == bytesUsed' = e /\ UNCHANGED count

Advance(e) == count' = TRUE /\ bytesUsed' = e

Restart == count' = FALSE /\ bytesUsed' = 0

FrameFound(u, hi) ==
    \E s \in file.starts, e \in file.ends :
        /\ FrameStart(s, u, hi)
        /\ FrameEnd(e, s, hi)
        /\ Return(u, e, FALSE)
        /\ Advance(e)

\* No end in the buffer: the rest of it is taken for the last frame, unless
\* no frame has been returned yet.
LastFrame(u, hi) ==
    /\ Counted
    /\ \E s \in file.starts :
          /\ FrameStart(s, u, hi)
          /\ FindsNone(file.ends, s + 4, hi)
    /\ Return(u, u + BytesRead(u), TRUE)
    /\ Restart

\* close()
Close == count' = FALSE /\ bytesUsed' = 0

\* close() and -1: the file is empty, no start was found, or no end although
\* no frame had been returned.  The thread leaves its loop.
ReadFails(u, hi) ==
    /\ \/ file.size = 0
       \/ FindsNone(file.starts, u, hi)
       \/ /\ ~Counted
          /\ \E s \in file.starts : /\ FrameStart(s, u, hi)
                                    /\ FindsNone(file.ends, s + 4, hi)
    /\ Close
    /\ pc' = "stopped"
    /\ UNCHANGED chunk

\* The scans run over whatever lies behind the bytes that were read.
ScanOverruns ==
    /\ pc' = "undefined"
    /\ UNCHANGED <<bytesUsed, count, chunk>>

ReadFrame ==
    /\ pc = "read"
    /\ LET u == Position
           n == BytesRead(u)
           hi == u + ScanLimit(n)
           inside == n = 0 \/ ScanLimit(n) <= n
       IN  \/ inside /\ n > 0 /\ FrameFound(u, hi)
           \/ inside /\ n > 0 /\ LastFrame(u, hi)
           \/ inside /\ ReadFails(u, hi)
           \/ ~inside /\ ScanOverruns
    /\ UNCHANGED file

\* pushFrame, and a pause of 40 ms.
Push ==
    /\ pc = "push"
    /\ pc' = "read"
    /\ UNCHANGED <<file, bytesUsed, count, chunk>>

Next == ReadFrame \/ Push

\* The thread is never blocked.
Spec == Init /\ [][Next]_vars /\ WF_vars(Next)

-----------------------------------------------------------------------------
(* Properties.                                                             *)

\* Files the sender is meant for: at least two frames, a frame at the end,
\* and a buffer that from every place where a chunk may begin holds a whole
\* frame and the beginning of what follows, or the rest of the file.
Playable(f) ==
    /\ \E s \in f.starts, t \in f.starts : s + 4 <= t
    /\ \A e \in f.ends : /\ e + Lookahead < f.size
                         /\ \E s \in f.starts : e <= s
    /\ \A u \in f.ends \cup {0} :
          \/ f.size <= u + BufSize
          \/ \E s \in f.starts, e \in f.ends :
                u <= s /\ s + 4 <= e /\ e + Lookahead < u + BufSize

\* The types of the variables.
TypeOK ==
    /\ bytesUsed \in 0 .. file.size
    /\ count \in BOOLEAN
    /\ pc \in {"read", "push", "stopped", "undefined"}
    /\ chunk \in [from : Nat, to : Nat, size : Nat, last : BOOLEAN]

\* bytesRead - 5 underflows, and the scans leave the buffer, only for a file
\* of less than five bytes: readFrame never stops so close to the end of a
\* longer one that a short read could follow.
ScanStaysInside == pc = "undefined" => file.size < Lookahead

\* A chunk holds the beginning of exactly one frame, whole: two frames never
\* go out as one.  (A slice in the last five bytes of the file is not seen.)
OneFramePerChunk ==
    pc = "push" /\ (chunk.last => chunk.to = file.size) =>
        /\ chunk.size = chunk.to - chunk.from
        /\ \E s \in file.starts :
              /\ chunk.from <= s /\ s < chunk.to
              /\ \A t \in file.starts :
                    chunk.from <= t /\ t < chunk.to /\ t + Lookahead < file.size
                        => s <= t /\ t < s + 4

\* Chunks follow each other without gap or overlap, through the buffer reads
\* and seeks, and start over only after the one marked as the last.
ChunksFollow ==
    [][chunk' # chunk =>
          chunk'.from = IF chunk.last THEN 0 ELSE chunk.to]_vars

\* A playable file is never given up, and is started over only when its last
\* byte has been returned.
KeepsPlaying ==
    Playable(file) => /\ pc \in {"read", "push"}
                      /\ pc = "push" => (chunk.last <=> chunk.to = file.size)

\* The end of a playable file is reached again and again; with ChunksFollow,
\* every frame of it is.
ReachesTheEnd == []<>(Playable(file) => pc = "push" /\ chunk.last)
=============================================================================
