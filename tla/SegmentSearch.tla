---------------------------- MODULE SegmentSearch ----------------------------
(***************************************************************************)
(* The data structures and loops of QueueItem that Segments and             *)
(* QueueDownload abstract: doneSegments as the sorted collection of         *)
(* segments the code keeps, consolidated by addSegmentL; the two search     *)
(* loops; the block lists exchanged with partial sources.  Every result is  *)
(* compared with its declarative counterpart.                               *)
(***************************************************************************)
EXTENDS Segments, Sequences, FiniteSets, SequencesExt, FiniteSetsExt

CONSTANTS
    BlockSizes,   \* block sizes to search with
    MaxTarget,    \* largest number of blocks a connection asks for
    MaxCount      \* bound on doneSegmentsSize

ASSUME SearchAssumption == BlockSizes \subseteq Nat \ {0}

VARIABLES
    doneSegments,       \* the segments in order of their starts
    doneSegmentsSize    \* the size kept with them

vars == <<doneSegments, doneSegmentsSize>>

Len2(s) == s[2] - s[1]
UnitsOf(S) == UNION {Units(s) : s \in S}
Done == UnitsOf(ToSet(doneSegments))

TypeOK == doneSegments \in Seq(Segment) /\ doneSegmentsSize \in Nat

Init == doneSegments = <<>> /\ doneSegmentsSize = 0

-----------------------------------------------------------------------------
\* Segment::operator<
Before(a, b) == a[1] < b[1] \/ (a[1] = b[1] /\ a[2] < b[2])

\* std::set::insert
InsertSegment(S, s) ==
    IF s \in ToSet(S) THEN S ELSE SortSeq(Append(S, s), Before)

\* Touching segments are not merged.
RECURSIVE ConsolidateOverlapping(_, _, _)
ConsolidateOverlapping(S, n, i) ==
    IF i > Len(S) THEN <<S, n>>
    ELSE IF S[i - 1][2] > S[i][1]
         THEN LET big == <<S[i - 1][1], Greater(S[i][2], S[i - 1][2])>>
              IN  ConsolidateOverlapping(SubSeq(S, 1, i - 2) \o <<big>> \o SubSeq(S, i + 1, Len(S)),
                                         n - Len2(S[i - 1]) - Len2(S[i]) + Len2(big), i)
         ELSE ConsolidateOverlapping(S, n, i + 1)

\* What is merged is taken off the size, and not what comes of it.
RECURSIVE ConsolidateLosingSize(_, _, _)
ConsolidateLosingSize(S, n, i) ==
    IF i > Len(S) THEN <<S, n>>
    ELSE IF S[i - 1][2] >= S[i][1]
         THEN LET big == <<S[i - 1][1], Greater(S[i][2], S[i - 1][2])>>
              IN  ConsolidateLosingSize(SubSeq(S, 1, i - 2) \o <<big>> \o SubSeq(S, i + 1, Len(S)),
                                        n - Len2(S[i - 1]) - Len2(S[i]), i)
         ELSE ConsolidateLosingSize(S, n, i + 1)

\* The end of the segment that starts later is taken for the end of both.
RECURSIVE ConsolidateShort(_, _, _)
ConsolidateShort(S, n, i) ==
    IF i > Len(S) THEN <<S, n>>
    ELSE IF S[i - 1][2] >= S[i][1]
         THEN LET big == <<S[i - 1][1], S[i][2]>>
              IN  ConsolidateShort(SubSeq(S, 1, i - 2) \o <<big>> \o SubSeq(S, i + 1, Len(S)),
                                   n - Len2(S[i - 1]) - Len2(S[i]) + Len2(big), i)
         ELSE ConsolidateShort(S, n, i + 1)

\* The loop of addSegmentL at position i of the segments S of counted size n.
RECURSIVE Consolidate(_, _, _)
Consolidate(S, n, i) ==
    IF i > Len(S) THEN <<S, n>>
    ELSE IF S[i - 1][2] >= S[i][1]
         THEN LET big == <<S[i - 1][1], Greater(S[i][2], S[i - 1][2])>>
              IN  Consolidate(SubSeq(S, 1, i - 2) \o <<big>> \o SubSeq(S, i + 1, Len(S)),
                              n - Len2(S[i - 1]) - Len2(S[i]) + Len2(big), i)
         ELSE Consolidate(S, n, i + 1)

addSegment(s) ==
    LET result == Consolidate(InsertSegment(doneSegments, s), doneSegmentsSize + Len2(s), 2)
    IN  /\ doneSegments' = result[1]
        /\ doneSegmentsSize' = result[2]

\* resetDownloadedL: the temporary file is gone.
resetDownloaded ==
    /\ doneSegments' = <<>>
    /\ doneSegmentsSize' = 0

Next ==
    \/ \E s \in Segment : doneSegmentsSize + Len2(s) <= MaxCount /\ addSegment(s)
    \/ resetDownloaded

Spec == Init /\ [][Next]_vars

-----------------------------------------------------------------------------
\* isFinished
isFinished == Len(doneSegments) = 1 /\ doneSegments[1] = <<0, Size>>

\* Running segments are looked at for single blocks only.
RECURSIVE ForwardLoopUnclaimed(_, _, _, _, _)
ForwardLoopUnclaimed(R, bs, target, start, cur) ==
    LET end == Lesser(Size, start + cur)
        overlaps == \/ \E d \in ToSet(doneSegments) : Overlaps(<<start, end>>, d)
                    \/ cur <= bs /\ \E r \in R : Overlaps(<<start, end>>, r)
    IN  IF start >= Size THEN {}
        ELSE IF ~overlaps THEN {<<start, end>>}
        ELSE IF cur > bs THEN ForwardLoopUnclaimed(R, bs, target, start, cur - bs)
        ELSE ForwardLoopUnclaimed(R, bs, target, end, target)

\* A block of the remaining target is tried at the next start.
RECURSIVE ForwardLoopShrinking(_, _, _, _, _)
ForwardLoopShrinking(R, bs, target, start, cur) ==
    LET end == Lesser(Size, start + cur)
        covers(d) == IF cur <= bs THEN d[1] <= start /\ d[2] >= end
                                  ELSE Overlaps(<<start, end>>, d)
        overlaps == \/ \E d \in ToSet(doneSegments) : covers(d)
                    \/ \E r \in R : Overlaps(<<start, end>>, r)
    IN  IF start >= Size THEN {}
        ELSE IF ~overlaps THEN {<<start, end>>}
        ELSE IF cur > bs THEN ForwardLoopShrinking(R, bs, target, start, cur - bs)
        ELSE ForwardLoopShrinking(R, bs, target, end, cur)

\* The loop of getNextSegmentForward, with running segments R, at start with a
\* block of cur units; a set of at most one segment.
RECURSIVE ForwardLoop(_, _, _, _, _)
ForwardLoop(R, bs, target, start, cur) ==
    LET end == Lesser(Size, start + cur)
        covers(d) == IF cur <= bs THEN d[1] <= start /\ d[2] >= end
                                  ELSE Overlaps(<<start, end>>, d)
        overlaps == \/ \E d \in ToSet(doneSegments) : covers(d)
                    \/ \E r \in R : Overlaps(<<start, end>>, r)
    IN  IF start >= Size THEN {}
        ELSE IF ~overlaps THEN {<<start, end>>}
        ELSE IF cur > bs THEN ForwardLoop(R, bs, target, start, cur - bs)
        ELSE ForwardLoop(R, bs, target, end, target)

getNextSegmentForward(R, bs, target) ==
    LET start == IF doneSegments # <<>> /\ doneSegments[1][1] = 0
                 THEN doneSegments[1][2] ELSE 0
    IN  ForwardLoop(R, bs, target, start, target)

\* The loop of getNextSegmentBackward.
RECURSIVE BackwardLoop(_, _, _, _, _)
BackwardLoop(R, bs, target, end, cur) ==
    LET start == Greater(0, end - cur)
        block == <<start, Lesser(end, Size)>>
        covers(d) == IF cur <= bs THEN d[1] <= start /\ d[2] >= end
                                  ELSE Overlaps(d, block)
        overlaps == \/ \E d \in ToSet(doneSegments) : covers(d)
                    \/ \E r \in R : Overlaps(r, block)
    IN  IF end <= 0 THEN {}
        ELSE IF ~overlaps THEN {block}
        ELSE IF cur > bs THEN BackwardLoop(R, bs, target, end, cur - bs)
        ELSE BackwardLoop(R, bs, target, start, target)

getNextSegmentBackward(R, bs, target) ==
    LET tail == IF doneSegments # <<>> /\ Last(doneSegments)[2] = Size
                THEN Last(doneSegments)[1] ELSE 0
    IN  BackwardLoop(R, bs, target, IF tail = 0 THEN roundUp(Size, bs) ELSE tail, target)

\* The branch of getNextSegmentL for one connection per file.
getNextSegmentSingle(R, bs) ==
    LET first == doneSegments[1]
        start == IF doneSegments = <<>> \/ first[1] > 0 THEN 0 ELSE roundDown(first[2], bs)
        end == IF doneSegments = <<>> THEN Size
               ELSE IF first[1] > 0 THEN roundUp(first[1], bs)
               ELSE IF Len(doneSegments) > 1 THEN roundUp(doneSegments[2][1], bs)
               ELSE Size
    IN  IF R = {} /\ start < Lesser(Size, end) THEN {<<start, Lesser(Size, end)>>} ELSE {}

-----------------------------------------------------------------------------
\* The first block is rounded down: a partly done block is offered.
PartOfRoundedDown(s, bs) ==
    <<s[1] \div bs, (IF s[2] >= Size THEN s[2] + bs - 1 ELSE s[2]) \div bs>>

\* getParts: the blocks a partial source is told of, as <<first, end>> pairs.  A
\* segment inside one block yields a pair with its end before its first.
PartOf(s, bs) ==
    <<(s[1] + bs - 1) \div bs,
      (IF s[2] >= Size THEN s[2] + bs - 1 ELSE s[2]) \div bs>>

getParts(bs) == [i \in DOMAIN doneSegments |-> PartOf(doneSegments[i], bs)]

\* The loop of isNeededPart: whether theirs, from pair i and block start on, has
\* a block that ours lacks from pair j on.
RECURSIVE NeededFrom(_, _, _, _, _)
NeededFrom(theirs, ours, i, j, start) ==
    IF j > Len(ours) \/ start < ours[j][1] THEN TRUE
    ELSE IF start >= ours[j][2] THEN NeededFrom(theirs, ours, i, j + 1, start)
    ELSE IF theirs[i][2] <= ours[j][2]
         THEN i < Len(theirs) /\ NeededFrom(theirs, ours, i + 1, j, theirs[i + 1][1])
         ELSE NeededFrom(theirs, ours, i, j + 1, ours[j][2])

isNeededPart(theirs, ours) ==
    theirs # <<>> /\ NeededFrom(theirs, ours, 1, 1, theirs[1][1])

-----------------------------------------------------------------------------
\* addSegmentL keeps the members of doneSegments in order, apart from each other
\* (not even touching), whatever is added in whatever order; so isFinished sees
\* a complete file as a single segment.
Consolidated ==
    /\ \A i, j \in DOMAIN doneSegments : i < j => doneSegments[i][2] < doneSegments[j][1]
    /\ isFinished <=> Done = AllUnits

\* addSegmentL adds the units of the segment and no others; doneSegmentsSize
\* stays exact except that a segment which is a member already is counted again
\* (the abstraction QueueDownload!AddSegment is built on).
AddIsUnion ==
    [][\A s \in Segment : addSegment(s) =>
          /\ UnitsOf(ToSet(doneSegments')) = Done \cup Units(s)
          /\ doneSegmentsSize' - doneSegmentsSize
               = IF s \in ToSet(doneSegments) THEN Len2(s)
                 ELSE Cardinality(Units(s) \ Done)]_vars

\* Running segments: at most two, not overlapping, of which one may be recorded
\* with the default Segment().
RunningSets ==
    {{}} \cup {{s} : s \in Segment} \cup {{s, Whole} : s \in Segment}
         \cup {{s, r} : s, r \in {p \in Segment : p[2] - p[1] <= 2}}

\* The searches of Segments find what the loops find, for every state of
\* doneSegments, set of running segments, block size and target.
SearchAgrees ==
    \A R \in RunningSets, bs \in BlockSizes, k \in 1 .. MaxTarget :
       /\ getNextSegmentForward(R, bs, k * bs) = NextForward(Done, R, bs, k * bs)
       /\ getNextSegmentBackward(R, bs, k * bs) = NextBackward(Done, R, bs, k * bs)
       /\ getNextSegmentSingle(R, bs) = NextSingle(Done, R, bs)

\* A found segment contains something that is missing and overlaps nothing that
\* is running (shouldSearchBackward never has a complete file searched backward).
SearchSound ==
    \A R \in RunningSets, bs \in BlockSizes, k \in 1 .. MaxTarget :
       \A s \in getNextSegmentForward(R, bs, k * bs)
                 \cup (IF isFinished THEN {} ELSE getNextSegmentBackward(R, bs, k * bs)) :
          /\ s \in Segment
          /\ ~(Units(s) \subseteq Done)
          /\ \A r \in R : ~Overlaps(s, r)

BlocksOf(parts) == UNION {p[1] .. (p[2] - 1) : p \in ToSet(parts)}
BlockUnits(b, bs) == {i \in AllUnits : i \div bs = b}

\* What another source may tell: one or two ranges of blocks in order.
TheirParts(n) ==
    LET ranges == {p \in (0 .. n) \X (0 .. n) : p[1] < p[2]}
    IN  {<<p>> : p \in ranges} \cup {<<p, q>> : p \in ranges, q \in ranges}

\* isNeededPart, given the block list of getParts (which holds a pair with its end
\* before its start for a segment inside one block), is right: a source is needed
\* if and only if it has a block that is not completely done here.
NeededExact ==
    \A bs \in BlockSizes :
       \A t \in TheirParts(roundUp(Size, bs) \div bs) :
          (Len(t) = 2 => t[1][2] < t[2][1])
             => (isNeededPart(t, getParts(bs))
                   <=> \E b \in BlocksOf(t) : ~(BlockUnits(b, bs) \subseteq Done))
=============================================================================
