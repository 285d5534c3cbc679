------------------------------ MODULE MCH264File ------------------------------
(***************************************************************************)
(* Files for H264File, given as their NAL units: the length of the start   *)
(* code, the kind of the unit and its length.                              *)
(***************************************************************************)
EXTENDS H264File, Sequences, SequencesExt

First(len)  == [code |-> 4, kind |-> "first", len |-> len]   \* a frame's first slice
Next3(len)  == [code |-> 3, kind |-> "next", len |-> len]    \* a further slice
First3(len) == [code |-> 3, kind |-> "first", len |-> len]
Param(len)  == [code |-> 3, kind |-> "param", len |-> len]   \* SEI, SPS or PPS
Other(len)  == [code |-> 4, kind |-> "other", len |-> len]   \* e.g. a delimiter

\* The bytes before unit i, and the positions that match because of it.
Before(nals, i) ==
    FoldLeft(LAMBDA sum, nal : sum + nal.code + nal.len, 0, SubSeq(nals, 1, i - 1))
Marks(nals, i) == Before(nals, i) .. Before(nals, i) + nals[i].code - 3
MarksOf(nals, kinds) ==
    UNION {Marks(nals, i) : i \in {j \in DOMAIN nals : nals[j].kind \in kinds}}

FileOf(nals) == [size |-> Before(nals, Len(nals) + 1),
                 starts |-> MarksOf(nals, {"first"}),
                 ends |-> MarksOf(nals, {"first", "param"})]

Units == {First(3), First3(2), First3(9), Next3(2), Param(1), Param(3), Other(1)}
MCFiles == {FileOf(nals) : nals \in SeqOf(Units, 5)}
               \cup {[size |-> n, starts |-> {}, ends |-> {}] : n \in 0 .. 6}
=============================================================================
