------------------------------ MODULE Segments ------------------------------
(***************************************************************************)
(* Segments of a file and the search for the next one to download (class    *)
(* Segment and QueueItem::getNextSegment* of client/QueueItem.cpp).         *)
(*                                                                          *)
(* A segment is a pair <<start, end>> of offsets counted in units; a unit   *)
(* is the smallest block that occurs.  doneSegments, whose members the code *)
(* keeps sorted and consolidates when they touch, is the set of the units   *)
(* that are done: its members are the maximal runs of that set.             *)
(*                                                                          *)
(* The loops of the code visit a grid of blocks in a fixed order and return *)
(* the first that fits.  NextForward and NextBackward say which block that  *)
(* is, as a set of at most one segment; SegmentSearch compares them with    *)
(* the loops.                                                               *)
(***************************************************************************)
EXTENDS Integers

CONSTANT Size      \* size of the file in units

ASSUME SizeAssumption == Size \in Nat \ {0}

\* Segment(): start 0 and size -1 stand for "the whole file, size not known".
Whole == <<0, -1>>

Segment == {s \in (0 .. Size) \X (0 .. Size) : s[1] < s[2]}

Overlaps(a, b) == a[1] < b[2] /\ b[1] < a[2]

\* The units of a segment that is being fetched.
Units(seg) == IF seg = Whole THEN 0 .. (Size - 1) ELSE seg[1] .. (seg[2] - 1)

\* How many those are.  (The Download of a whole file gets the size of the file
\* when its data begins, in DownloadManager::startData.)
SizeOf(seg) == IF seg = Whole THEN Size ELSE seg[2] - seg[1]

AllUnits == 0 .. (Size - 1)

Lesser(a, b) == IF a < b THEN a ELSE b
Greater(a, b) == IF a > b THEN a ELSE b

\* Util::roundDown rounds to the nearest multiple of b, halves up.
roundDown(n, b) == ((n + (b \div 2)) \div b) * b
roundUp(n, b) == ((n + b - 1) \div b) * b

\* No segment of S overlaps the block.
Unclaimed(block, S) == \A s \in S : ~Overlaps(block, s)

\* End of the done run that starts at unit i (i itself if unit i is not done).
RunEnd(done, i) ==
    CHOOSE e \in i .. Size : (i .. (e - 1)) \subseteq done /\ e \notin done

\* Start of the done run that ends at e.
RunStart(done, e) ==
    CHOOSE i \in 0 .. e : (i .. (e - 1)) \subseteq done /\ (i - 1) \notin done

-----------------------------------------------------------------------------
\* getNextSegmentForward: the block of size cur at start is usable.  A block
\* longer than blockSize must not touch anything done; a single block must not
\* be done completely.
FitsForward(done, S, bs, start, cur) ==
    LET end == Lesser(Size, start + cur)
    IN  /\ IF cur <= bs THEN ~((start .. (end - 1)) \subseteq done)
                        ELSE (start .. (end - 1)) \cap done = {}
        /\ Unclaimed(<<start, end>>, S)

\* The first start with a usable block, and the longest usable block there of
\* at most target units.
NextForward(done, S, bs, target) ==
    LET first == RunEnd(done, 0)
        starts == {i \in 0 .. (Size - 1) : i >= first /\ (i - first) % bs = 0}
        sizes == {n \in bs .. target : n % bs = 0}
    IN  {<<p[1], Lesser(Size, p[1] + p[2])>> :
            p \in {q \in starts \X sizes :
                     /\ FitsForward(done, S, bs, q[1], q[2])
                     /\ \A i \in starts : i < q[1] => ~FitsForward(done, S, bs, i, bs)
                     /\ \A n \in sizes : n > q[2] => ~FitsForward(done, S, bs, q[1], n)}}

\* getNextSegmentBackward, which a file whose end is wanted first may use.
FitsBackward(done, S, bs, end, cur) ==
    LET start == Greater(0, end - cur)
    IN  /\ IF cur <= bs THEN ~((start .. (end - 1)) \subseteq done)
                        ELSE (start .. (Lesser(end, Size) - 1)) \cap done = {}
        /\ Unclaimed(<<start, Lesser(end, Size)>>, S)

NextBackward(done, S, bs, target) ==
    LET tail == RunStart(done, Size)
        last == IF tail \in 1 .. (Size - 1) THEN tail ELSE roundUp(Size, bs)
        ends == {e \in 1 .. last : (last - e) % bs = 0}
        sizes == {n \in bs .. target : n % bs = 0}
    IN  {<<Greater(0, p[1] - p[2]), Lesser(p[1], Size)>> :
            p \in {q \in ends \X sizes :
                     /\ FitsBackward(done, S, bs, q[1], q[2])
                     /\ \A e \in ends : e > q[1] => ~FitsBackward(done, S, bs, e, bs)
                     /\ \A n \in sizes : n > q[2] => ~FitsBackward(done, S, bs, q[1], n)}}

\* A first segment that starts at 0 is not told from a later one.
NextSingleBeforeFirst(done, S, bs) ==
    LET gapEnd == IF done = {} THEN Size
                  ELSE roundUp(CHOOSE i \in done : \A j \in done : i <= j, bs)
        seg == <<0, Lesser(Size, gapEnd)>>
    IN  IF S = {} THEN {seg} \cap Segment ELSE {}

\* The branch of getNextSegmentL for one connection per file: the first gap,
\* widened to whole blocks.  A segment of size 0 stands for none.  (The start can
\* be rounded past the end of a file that is not a multiple of the block size;
\* QueueDownload!SingleAssumption excludes that.)
NextSingle(done, S, bs) ==
    LET e == RunEnd(done, 0)
        later == {i \in done : i > e}
        gapEnd == IF later = {} THEN Size
                  ELSE roundUp(CHOOSE i \in later : \A j \in later : i <= j, bs)
        seg == <<roundDown(e, bs), Lesser(Size, gapEnd)>>
    IN  IF S = {} THEN {seg} \cap Segment ELSE {}
=============================================================================
