------------------------ MODULE QueueRefinementProofs ------------------------
(***************************************************************************)
(* Results about QueueDownload that need to know what the search for a      *)
(* segment finds.  It finds one whenever something is missing and nothing   *)
(* is being fetched.  The threads of the connections implement the leases   *)
(* of SegmentLeases, and never fetch the same unit at the same time.  And   *)
(* what is done is counted exactly and its completion noticed.              *)
(*                                                                          *)
(* The last two need a tree whose blocks are those of the item.  So does    *)
(* the first, for the search of a single connection per file, which may     *)
(* round past the last gap otherwise (see the README).                      *)
(***************************************************************************)
EXTENDS QueueDownloadProofs, WellFoundedInduction

\* The context of a leaf is large here: it is given more than the usual time.
USE SMTT(20), ZenonT(20)

-----------------------------------------------------------------------------
(* Least and greatest elements, and the runs of done units.                  *)

\* A set of naturals has a least element.
LEMMA Least ==
    ASSUME NEW T, T \subseteq Nat, T # {}
    PROVE  \E m \in T : \A k \in T : m <= k
<1> DEFINE R == {ss \in Nat \X Nat : ss[1] < ss[2]}
<1>1. IsWellFoundedOn(R, Nat)
  BY NatLessThanWellFounded DEF OpToRel
<1>2. \A k, m \in Nat : ~(<<k, m>> \in R) => m <= k
  OBVIOUS
<1> HIDE DEF R
<1>3. PICK m \in T : \A k \in T : ~(<<k, m>> \in R)
  BY Zenon, <1>1, WFMin
<1>4. \A k \in T : m <= k
  BY Zenon, <1>2, <1>3
<1> QED BY <1>4

\* A bounded set of naturals has a greatest element.
LEMMA Greatest ==
    ASSUME NEW b \in Nat, NEW T, T \subseteq 0 .. b, T # {}
    PROVE  \E m \in T : \A k \in T : k <= m
<1> DEFINE V == {b - k : k \in T}
<1>1. V \subseteq Nat /\ V # {}
  <2>1. \A k \in T : b - k \in Nat
    OBVIOUS
  <2>2. PICK k \in T : TRUE
    BY Zenon
  <2>3. b - k \in V
    BY <2>2
  <2> QED BY <2>1, <2>3
<1>2. PICK v \in V : \A w \in V : v <= w
  BY Zenon, <1>1, Least
<1>3. PICK m \in T : v = b - m
  OBVIOUS
<1>4. \A k \in T : k <= m
  BY <1>2, <1>3
<1> QED BY <1>4

\* RunEnd is the first unit that is not done.
LEMMA RunEndFacts ==
    ASSUME NEW D \in SUBSET AllUnits
    PROVE  /\ RunEnd(D, 0) \in 0 .. Size
           /\ (0 .. (RunEnd(D, 0) - 1)) \subseteq D
           /\ RunEnd(D, 0) \notin D
<1> DEFINE P(e) == (0 .. (e - 1)) \subseteq D /\ e \notin D
<1>1. Size \in Nat \ D
  BY SizeAssumption DEF AllUnits
<1>2. PICK m \in Nat \ D : \A k \in Nat \ D : m <= k
  <2>1. Nat \ D \subseteq Nat /\ Nat \ D # {}
    BY <1>1
  <2> QED BY Zenon, <2>1, Least
<1>3. m \in 0 .. Size /\ P(m)
  BY <1>1, <1>2, SizeAssumption
<1>4. \E e \in 0 .. Size : P(e)
  BY <1>3
<1>5. RunEnd(D, 0) = CHOOSE e \in 0 .. Size : P(e)
  BY DEF RunEnd
<1> HIDE DEF P
<1>6. RunEnd(D, 0) \in 0 .. Size /\ P(RunEnd(D, 0))
  BY <1>4, <1>5
<1> QED BY <1>6 DEF P

\* RunStart is where the done units at the end of the file begin.
LEMMA RunStartFacts ==
    ASSUME NEW D \in SUBSET AllUnits
    PROVE  /\ RunStart(D, Size) \in 0 .. Size
           /\ (RunStart(D, Size) .. (Size - 1)) \subseteq D
           /\ (RunStart(D, Size) - 1) \notin D
<1> DEFINE P(i) == (i .. (Size - 1)) \subseteq D /\ (i - 1) \notin D
           T == {i \in 0 .. Size : (i - 1) \notin D}
<1>1. T \subseteq 0 .. Size /\ 0 \in T
  BY SizeAssumption DEF AllUnits
<1>2. PICK m \in T : \A k \in T : k <= m
  BY Zenon, <1>1, Greatest, SizeAssumption
<1>3. \A j \in m .. (Size - 1) : j \in D
  <2> SUFFICES ASSUME NEW j \in m .. (Size - 1), j \notin D PROVE FALSE
    OBVIOUS
  <2>1. j + 1 \in 0 .. Size /\ (j + 1) - 1 = j
    BY <1>1, SizeAssumption
  <2>2. j + 1 \in T
    BY <2>1
  <2> QED BY <1>1, <1>2, <2>2, SizeAssumption
<1>4. \E i \in 0 .. Size : P(i)
  BY <1>1, <1>3
<1>5. RunStart(D, Size) = CHOOSE i \in 0 .. Size : P(i)
  BY DEF RunStart
<1> HIDE DEF P
<1>6. RunStart(D, Size) \in 0 .. Size /\ P(RunStart(D, Size))
  BY <1>4, <1>5
<1> QED BY <1>6 DEF P

-----------------------------------------------------------------------------
(* The search finds what is missing.                                         *)

\* Of the sizes that fit a block there is a longest.
LEMMA LongestFit ==
    ASSUME NEW bs \in Nat \ {0}, NEW t \in Nat, NEW F \in SUBSET (bs .. t), F # {}
    PROVE  \E n \in F : \A k \in F : k <= n
<1>1. F \subseteq 0 .. t
  OBVIOUS
<1> QED BY Zenon, <1>1, Greatest

\* getNextSegmentForward, if nothing is being downloaded.
LEMMA ForwardFinds ==
    ASSUME NEW D \in SUBSET AllUnits, D # AllUnits,
           NEW bs \in Nat \ {0}, NEW t \in Nat, bs <= t
    PROVE  NextForward(D, {}, bs, t) # {}
<1> DEFINE first == RunEnd(D, 0)
           starts == {i \in 0 .. (Size - 1) : i >= first /\ (i - first) % bs = 0}
           sizes == {n \in bs .. t : n % bs = 0}
           F == {n \in sizes : FitsForward(D, {}, bs, first, n)}
<1>1. first \in 0 .. (Size - 1) /\ first \notin D
  <2>1. first \in 0 .. Size /\ (0 .. (first - 1)) \subseteq D /\ first \notin D
    BY RunEndFacts
  <2>2. first # Size
    BY Zenon, <2>1, SizeAssumption DEF AllUnits
  <2> QED BY <2>1, <2>2, SizeAssumption
<1> HIDE DEF first
<1>2. first \in starts /\ \A i \in starts : ~(i < first)
  BY <1>1, SizeAssumption
<1>3. bs \in F
  <2>1. first \in first .. (Lesser(Size, first + bs) - 1)
    BY <1>1, SizeAssumption DEF Lesser
  <2> QED BY <1>1, <2>1 DEF FitsForward, Unclaimed
<1>4. PICK n \in F : \A k \in F : k <= n
  <2>1. F \in SUBSET (bs .. t) /\ F # {}
    BY <1>3
  <2> QED BY Zenon, <2>1, LongestFit
<1>5. n \in sizes /\ FitsForward(D, {}, bs, first, n)
      /\ \A k \in sizes : k > n => ~FitsForward(D, {}, bs, first, k)
  BY <1>4
<1> HIDE DEF starts, sizes, F
<1> DEFINE Q == {q \in starts \X sizes :
                     /\ FitsForward(D, {}, bs, q[1], q[2])
                     /\ \A i \in starts : i < q[1] => ~FitsForward(D, {}, bs, i, bs)
                     /\ \A k \in sizes : k > q[2] => ~FitsForward(D, {}, bs, q[1], k)}
<1>6. <<first, n>> \in Q
  BY <1>2, <1>5
<1>7. NextForward(D, {}, bs, t) = {<<p[1], Lesser(Size, p[1] + p[2])>> : p \in Q}
  BY Zenon DEF NextForward, first, starts, sizes
<1> HIDE DEF Q
<1> QED BY Zenon, <1>6, <1>7

\* getNextSegmentBackward, if nothing is being downloaded.
LEMMA BackwardFinds ==
    ASSUME NEW D \in SUBSET AllUnits, D # AllUnits,
           NEW bs \in Nat \ {0}, NEW t \in Nat, bs <= t
    PROVE  NextBackward(D, {}, bs, t) # {}
<1> DEFINE tail == RunStart(D, Size)
           last == IF tail \in 1 .. (Size - 1) THEN tail ELSE roundUp(Size, bs)
           ends == {e \in 1 .. last : (last - e) % bs = 0}
           sizes == {n \in bs .. t : n % bs = 0}
           F == {n \in sizes : FitsBackward(D, {}, bs, last, n)}
<1>1. tail \in 1 .. Size /\ (tail - 1) \notin D
  <2>1. tail \in 0 .. Size /\ (tail .. (Size - 1)) \subseteq D /\ (tail - 1) \notin D
    BY RunStartFacts
  <2>2. tail # 0
    BY Zenon, <2>1, SizeAssumption DEF AllUnits
  <2> QED BY <2>1, <2>2, SizeAssumption
<1>2. /\ last \in Nat \ {0} /\ tail <= last /\ last < tail + bs
  <2>1. roundUp(Size, bs) \in Nat /\ Size <= roundUp(Size, bs) /\ roundUp(Size, bs) < Size + bs
    BY SizeAssumption, SMTT(30) DEF roundUp
  <2> QED BY <1>1, <2>1, SizeAssumption
<1> HIDE DEF tail, last
<1>3. last \in ends /\ \A e \in ends : ~(e > last)
  <2>1. last - last = 0 /\ 0 % bs = 0
    BY <1>2
  <2> QED BY <1>2, <2>1
<1>4. bs \in F
  <2>1. (tail - 1) \in Greater(0, last - bs) .. (last - 1)
    BY <1>1, <1>2 DEF Greater
  <2>2. bs \in sizes
    BY SMTT(30)
  <2> QED BY <1>1, <2>1, <2>2 DEF FitsBackward, Unclaimed
<1>5. PICK n \in F : \A k \in F : k <= n
  <2>1. F \in SUBSET (bs .. t) /\ F # {}
    BY <1>4
  <2> QED BY Zenon, <2>1, LongestFit
<1>6. n \in sizes /\ FitsBackward(D, {}, bs, last, n)
      /\ \A k \in sizes : k > n => ~FitsBackward(D, {}, bs, last, k)
  BY <1>5
<1> HIDE DEF ends, sizes, F
<1> DEFINE Q == {q \in ends \X sizes :
                     /\ FitsBackward(D, {}, bs, q[1], q[2])
                     /\ \A e \in ends : e > q[1] => ~FitsBackward(D, {}, bs, e, bs)
                     /\ \A k \in sizes : k > q[2] => ~FitsBackward(D, {}, bs, q[1], k)}
<1>7. <<last, n>> \in Q
  BY <1>3, <1>6
<1>8. NextBackward(D, {}, bs, t)
        = {<<Greater(0, p[1] - p[2]), Lesser(p[1], Size)>> : p \in Q}
  BY Zenon DEF NextBackward, tail, last, ends, sizes
<1> HIDE DEF Q
<1> QED BY Zenon, <1>7, <1>8

\* The chunk size that is aimed at is a multiple of blocks, at least one.
LEMMA TargetSize ==
    ASSUME NEW bs \in Nat \ {0}, NEW t \in Nat
    PROVE  Greater(bs, roundDown(t, bs)) \in Nat /\ bs <= Greater(bs, roundDown(t, bs))
<1>1. roundDown(t, bs) \in Int
  BY SMTT(30) DEF roundDown
<1> HIDE DEF roundDown
<1> QED BY <1>1 DEF Greater

\* Nothing has no members.
LEMMA NoneCounted == Cardinality({}) = 0
<1> DEFINE CS == CHOOSE f : f = [T \in SUBSET {} |-> IF T = {} THEN 0 ELSE 1 + f[T \ {CHOOSE x : x \in T}]]
           g == [T \in SUBSET {} |-> 0]
<1>1. g = [T \in SUBSET {} |-> IF T = {} THEN 0 ELSE 1 + g[T \ {CHOOSE x : x \in T}]]
  OBVIOUS
<1>2. CS = [T \in SUBSET {} |-> IF T = {} THEN 0 ELSE 1 + CS[T \ {CHOOSE x : x \in T}]]
  <2> HIDE DEF g
  <2> QED BY <1>1
<1>3. CS[{}] = 0
  <2> HIDE DEF CS
  <2> QED BY <1>2
<1> QED BY <1>3 DEF Cardinality

\* As long as something is missing and nothing is being fetched, the search for
\* several connections offers a segment to whoever asks for one.
THEOREM NeverStuckAlways ==
    ASSUME MultiChunk \subseteq {TRUE}
    PROVE  Spec => []NeverStuck
<1>1. ASSUME TypeOK PROVE NeverStuck
  <2> SUFFICES ASSUME downloads = {}, done # AllUnits, MaxSegments > 0,
                      NEW t \in Targets, {} \in SearchResults(t)
               PROVE  FALSE
    BY DEF NeverStuck
  <2> DEFINE target == Greater(blockSize, roundDown(t, blockSize))
  <2>1. /\ t \in Nat /\ blockSize \in Nat \ {0} /\ done \in SUBSET AllUnits
        /\ MaxSegments \in Nat
    BY <1>1, TargetsAssumption, LimitsAssumption DEF TypeOK
  <2>2. target \in Nat /\ blockSize <= target
    BY <2>1, TargetSize
  <2>3. ~(Cardinality(downloads) >= MaxSegments)
    BY <2>1, NoneCounted
  <2>4. SegsOf(downloads) = {}
    BY DEF SegsOf
  <2>5. {} \in SearchResult(t, TRUE)
    BY Zenon DEF SearchResults
  <2> HIDE DEF target
  <2>6. \/ {} = NextForward(done, {}, blockSize, target)
        \/ {} = NextBackward(done, {}, blockSize, target)
    BY <2>3, <2>4, <2>5, Zenon DEF SearchResult, target
  <2> QED BY <2>1, <2>2, <2>6, ForwardFinds, BackwardFinds
<1> QED BY <1>1, TypeOKAlways, PTL

-----------------------------------------------------------------------------
(* Multiples of a block.                                                     *)

\* What comes before one multiple of b comes at least b before the next.
LEMMA GridOrder ==
    ASSUME NEW b \in Nat, NEW j \in Int, NEW k \in Int, j < k
    PROVE  j * b + b <= k * b
<1>1. PICK d \in Nat : k = j + 1 + d
  <2>1. k - j - 1 \in Nat /\ k = j + 1 + (k - j - 1)
    OBVIOUS
  <2> QED BY <2>1
<1>2. d * b \in Nat
  OBVIOUS
<1>3. k * b = j * b + b + d * b
  BY <1>1
<1> QED BY <1>2, <1>3

\* Division, as TLA+ defines it.
LEMMA Quotient ==
    ASSUME NEW n \in Nat, NEW b \in Nat \ {0}
    PROVE  /\ n \div b \in Nat
           /\ (n \div b) * b <= n
           /\ n < (n \div b) * b + b
           /\ n % b = n - (n \div b) * b
  OBVIOUS

\* roundUp is the first multiple that is not smaller.
LEMMA RoundUpLeast ==
    ASSUME NEW n \in Nat, NEW b \in Nat \ {0}
    PROVE  /\ roundUp(n, b) \in Nat /\ n <= roundUp(n, b)
           /\ \A k \in Nat : n <= k * b => roundUp(n, b) <= k * b
<1> DEFINE q == (n + b - 1) \div b
<1>1. /\ q \in Nat /\ q * b <= n + b - 1 /\ n + b - 1 < q * b + b
  <2>1. n + b - 1 \in Nat
    OBVIOUS
  <2> QED BY ZenonT(40), <2>1, Quotient
<1> HIDE DEF q
<1>2. roundUp(n, b) = q * b
  BY DEF roundUp, q
<1>3. ASSUME NEW k \in Nat, n <= k * b PROVE q * b <= k * b
  <2>1. CASE k < q
    <3>1. k * b + b <= q * b
      BY <1>1, <2>1, GridOrder
    <3> QED BY <1>1, <1>3, <3>1
  <2>2. CASE q < k
    BY <1>1, <2>2, GridOrder
  <2> QED BY <1>1, <2>1, <2>2
<1>4. q * b \in Nat
  BY <1>1
<1> QED BY <1>1, <1>2, <1>3, <1>4

\* roundDown gives a multiple, and its argument if that is one.
LEMMA RoundDownGrid ==
    ASSUME NEW n \in Nat, NEW b \in Nat \ {0}
    PROVE  \E q \in Nat : /\ roundDown(n, b) = q * b
                          /\ \A k \in Nat : n = k * b => k = q
<1> DEFINE h == b \div 2
           q == (n + h) \div b
<1>1. h \in Nat /\ h < b
  OBVIOUS
<1>2. roundDown(n, b) = q * b
  BY DEF roundDown
<1> HIDE DEF h
<1>3. n + h \in Nat
  BY <1>1
<1>5. q \in Nat /\ q * b <= n + h /\ n + h < q * b + b
  BY ZenonT(40), <1>3, Quotient
<1> HIDE DEF q
<1>4. ASSUME NEW k \in Nat, n = k * b PROVE k = q
  <2>1. CASE k < q
    <3>1. k * b + b <= q * b
      BY <1>5, <2>1, GridOrder
    <3> QED BY <1>1, <1>5, <1>4, <3>1
  <2>2. CASE q < k
    <3>1. q * b + b <= k * b
      BY <1>5, <2>2, GridOrder
    <3> QED BY <1>1, <1>5, <1>4, <3>1
  <2> QED BY <1>5, <2>1, <2>2
<1> QED BY ZenonT(40), <1>2, <1>4, <1>5

-----------------------------------------------------------------------------
(* The search finds nothing but what is missing.                             *)

\* getNextSegmentForward.
LEMMA ForwardFresh ==
    ASSUME NEW D, NEW S, NEW bs \in Nat \ {0}, NEW t \in Int,
           NEW s \in NextForward(D, S, bs, t)
    PROVE  ~(Units(s) \subseteq D)
<1> PICK i \in 0 .. (Size - 1), n \in bs .. t :
         s = <<i, Lesser(Size, i + n)>> /\ FitsForward(D, S, bs, i, n)
  BY DEF NextForward
<1>1. /\ Lesser(Size, i + n) \in Nat /\ i < Lesser(Size, i + n)
  BY SizeAssumption DEF Lesser
<1>2. Units(s) = i .. (Lesser(Size, i + n) - 1) /\ i \in Units(s)
  BY <1>1 DEF Units, Whole
<1> QED BY <1>2, Zenon DEF FitsForward

\* getNextSegmentBackward: a block that reaches past the end of the file counts
\* as not done, but then the last unit is not done either.
LEMMA BackwardFresh ==
    ASSUME NEW D \in SUBSET AllUnits, D # AllUnits, NEW S, NEW bs \in Nat \ {0}, NEW t \in Int,
           NEW s \in NextBackward(D, S, bs, t)
    PROVE  ~(Units(s) \subseteq D)
<1> DEFINE tail == RunStart(D, Size)
           last == IF tail \in 1 .. (Size - 1) THEN tail ELSE roundUp(Size, bs)
<1>1. /\ tail \in 1 .. Size /\ (tail - 1) \notin D
  <2>1. tail \in 0 .. Size /\ (tail .. (Size - 1)) \subseteq D /\ (tail - 1) \notin D
    BY RunStartFacts
  <2>2. tail # 0
    BY Zenon, <2>1, SizeAssumption DEF AllUnits
  <2> QED BY <2>1, <2>2, SizeAssumption
<1>2. last \in Int /\ last < Size + bs /\ (last > Size => tail = Size)
  <2>1. roundUp(Size, bs) \in Int /\ roundUp(Size, bs) < Size + bs
    BY RoundUpBound, SizeAssumption
  <2> QED BY <1>1, <2>1, SizeAssumption
<1> HIDE DEF tail
<1>3. PICK e \in 1 .. last, n \in bs .. t :
         s = <<Greater(0, e - n), Lesser(e, Size)>> /\ FitsBackward(D, S, bs, e, n)
  BY DEF NextBackward, tail
<1> HIDE DEF last
<1>4. /\ Greater(0, e - n) \in Nat /\ Lesser(e, Size) \in Nat
      /\ Greater(0, e - n) < Lesser(e, Size)
  BY <1>2, SizeAssumption DEF Greater, Lesser
<1>5. Units(s) = Greater(0, e - n) .. (Lesser(e, Size) - 1)
  BY <1>3, <1>4 DEF Units, Whole
<1>6. CASE e <= Size /\ n <= bs
  <2>1. Lesser(e, Size) = e
    BY <1>6, SizeAssumption DEF Lesser
  <2> QED BY <1>3, <1>5, <1>6, <2>1 DEF FitsBackward
<1>7. CASE n > bs
  <2>1. Greater(0, e - n) \in Units(s)
    BY <1>4, <1>5
  <2>2. Units(s) \cap D = {}
    BY <1>3, <1>5, <1>7 DEF FitsBackward
  <2> QED BY <2>1, <2>2
<1>8. CASE e > Size
  <2>1. Size - 1 \notin D
    BY <1>1, <1>2, <1>8, SizeAssumption
  <2>2. Size - 1 \in Units(s)
    BY <1>4, <1>5, <1>8, SizeAssumption DEF Lesser
  <2> QED BY <2>1, <2>2
<1> QED BY <1>6, <1>7, <1>8, SizeAssumption

\* getNextSegmentL for one connection per file: the gap it returns is not done,
\* although its start is rounded to the nearest block, forward too.
LEMMA SingleFresh ==
    ASSUME NEW D \in SUBSET AllUnits, NEW S, NEW bs \in Nat \ {0}, Size % bs = 0,
           NEW s \in NextSingle(D, S, bs)
    PROVE  ~(Units(s) \subseteq D)
<1> DEFINE e == RunEnd(D, 0)
           later == {i \in D : i > e}
           m == CHOOSE i \in later : \A j \in later : i <= j
           gapEnd == IF later = {} THEN Size ELSE roundUp(m, bs)
<1>1. e \in 0 .. Size /\ e \notin D
  BY RunEndFacts
<1>2. s = <<roundDown(e, bs), Lesser(Size, gapEnd)>> /\ s \in Segment
  BY DEF NextSingle
<1> HIDE DEF e
<1>3. later # {} => m \in later /\ \A j \in later : m <= j
  <2>1. later \subseteq Nat
    <3>1. AllUnits \subseteq Nat
      BY SizeAssumption DEF AllUnits
    <3> QED BY Zenon, <3>1
  <2>2. later # {} => \E i \in later : \A j \in later : i <= j
    BY Zenon, <2>1, Least
  <2> QED BY Zenon, <2>2
<1> HIDE DEF later, m
<1>4. PICK q \in Nat : roundDown(e, bs) = q * bs /\ \A k \in Nat : e = k * bs => k = q
  <2>1. e \in Nat
    BY <1>1, SizeAssumption
  <2> QED BY Zenon, <2>1, RoundDownGrid
<1>5. /\ s[1] = q * bs /\ s[2] = Lesser(Size, gapEnd) /\ s[1] < s[2]
      /\ s[1] \in 0 .. Size /\ s[2] \in 0 .. Size
  BY <1>2, <1>4 DEF Segment
<1>6. Units(s) = s[1] .. (s[2] - 1)
  BY <1>5 DEF Units, Whole
<1>7. e # Size
  <2> SUFFICES ASSUME e = Size PROVE FALSE
    OBVIOUS
  <2>1. /\ Size \div bs \in Nat /\ Size = (Size \div bs) * bs
    <3>1. Size \in Nat
      BY SizeAssumption
    <3>2. Size % bs = Size - (Size \div bs) * bs /\ Size \div bs \in Nat
      BY ZenonT(40), <3>1, Quotient
    <3> QED BY <3>1, <3>2
  <2>2. s[1] = Size
    BY <1>4, <1>5, <2>1
  <2> QED BY <1>5, <2>2, SizeAssumption DEF Lesser
<1>8. CASE later = {}
  <2>1. s[2] = Size
    BY <1>5, <1>8, SizeAssumption DEF Lesser
  <2>2. \A i \in D : i <= e
    BY <1>1, <1>8, SizeAssumption DEF later, AllUnits
  <2>3. CASE s[1] <= e
    <3>1. e \in Units(s)
      BY <1>1, <1>5, <1>6, <1>7, <2>1, <2>3
    <3> QED BY <1>1, <3>1
  <2>4. CASE s[1] > e
    <3>1. s[1] \in Units(s) /\ s[1] \notin D
      BY <1>1, <1>5, <1>6, <2>2, <2>4
    <3> QED BY <3>1
  <2> QED BY <1>1, <1>5, <2>3, <2>4, SizeAssumption
<1>9. CASE later # {}
  <2>1. /\ m \in 0 .. (Size - 1) /\ e < m
        /\ \A i \in D : i > e => m <= i
    BY ZenonT(40), <1>1, <1>3, <1>9, SizeAssumption DEF later, AllUnits
  <2>2. /\ gapEnd \in Nat /\ m <= gapEnd
        /\ \A k \in Nat : m <= k * bs => gapEnd <= k * bs
    <3>1. m \in Nat /\ gapEnd = roundUp(m, bs)
      BY <1>9, <2>1, SizeAssumption
    <3> QED BY Zenon, <3>1, RoundUpLeast
  <2> HIDE DEF gapEnd
  <2>3. m <= s[2] /\ s[2] <= gapEnd
    BY <1>5, <2>1, <2>2, SizeAssumption DEF Lesser
  <2>4. CASE s[1] <= e
    <3>1. e \in Units(s)
      BY <1>1, <1>5, <1>6, <2>1, <2>3, <2>4
    <3> QED BY <1>1, <3>1
  <2>5. CASE s[1] > e
    <3>1. s[1] < m
      <4>1. m <= q * bs => gapEnd <= q * bs
        BY Zenon, <2>2
      <4> QED BY <1>5, <2>1, <2>2, <2>3, <4>1, SizeAssumption
    <3>2. s[1] \in Units(s) /\ s[1] \notin D
      BY <1>1, <1>5, <1>6, <2>1, <2>5, <3>1
    <3> QED BY <3>2
  <2> QED BY <1>1, <1>5, <2>4, <2>5, SizeAssumption
<1> QED BY <1>8, <1>9

-----------------------------------------------------------------------------
(* QueueDownload implements SegmentLeases if the tree is in the database,    *)
(* its blocks are not larger than those of the item, and the user leaves the *)
(* file alone.                                                               *)

\* The operators on segments mean the same on both sides.
LEMMA SameSegments ==
    /\ Leases!AllUnits = AllUnits /\ Leases!Segment = Segment
    /\ \A s : Leases!Units(s) = Units(s)
    /\ \A s, S : Leases!Unclaimed(s, S) <=> Unclaimed(s, S)
  BY DEF Leases!AllUnits, AllUnits, Leases!Segment, Segment, Leases!Units, Units,
     Leases!Whole, Whole, Leases!Unclaimed, Unclaimed, Leases!Overlaps, Overlaps

\* Taking one entry away returns one lease, because no other has its segment.
LEMMA DropEntry ==
    ASSUME ReservedDisjoint, NEW x \in downloads, x.seg \in Segment
    PROVE  SegsOf(downloads \ {x}) = SegsOf(downloads) \ {x.seg}
<1>1. \A y \in downloads : y # x => y.seg # x.seg
  BY SelfOverlap DEF ReservedDisjoint
<1> QED BY <1>1 DEF SegsOf

\* The search goes forward or backward, or takes the first gap.
LEMMA SearchCases ==
    ASSUME TypeOK, blockSize = BlockSize, NEW t \in Targets, NEW s \in NextSegments(t)
    PROVE  \E target \in Int :
              \/ s \in NextSingle(done, SegsOf(downloads), BlockSize) /\ Size % BlockSize = 0
              \/ s \in NextForward(done, SegsOf(downloads), BlockSize, target)
              \/ s \in NextBackward(done, SegsOf(downloads), BlockSize, target) /\ done # AllUnits
<1> DEFINE target == Greater(blockSize, roundDown(t, blockSize))
<1>1. target \in Int
  BY TargetSize, TargetsAssumption, BlockAssumption
<1>2. PICK multi \in MultiChunk : \E r \in SearchResult(t, multi) : s \in r
  BY Zenon DEF NextSegments, SearchResults
<1> HIDE DEF target
<1>3. \/ s \in NextSingle(done, SegsOf(downloads), blockSize) /\ Size % blockSize = 0
      \/ s \in NextForward(done, SegsOf(downloads), blockSize, target)
      \/ s \in NextBackward(done, SegsOf(downloads), blockSize, target) /\ done # AllUnits
  <2>1. multi \in BOOLEAN
    BY <1>2, FlagsAssumption
  <2>2. CASE multi = FALSE
    BY Zenon, <1>2, <2>2, SingleAssumption DEF SearchResult
  <2>3. CASE multi = TRUE
    BY Zenon, <1>2, <2>3 DEF SearchResult, shouldSearchBackward, target
  <2> QED BY ZenonT(40), <2>1, <2>2, <2>3
<1> QED BY Zenon, <1>1, <1>3

\* What the search returns is leased to nobody and not all there.
LEMMA SearchFresh ==
    ASSUME TypeOK, blockSize = BlockSize, NEW t \in Targets, NEW s \in NextSegments(t)
    PROVE  ~(Units(s) \subseteq done)
<1>1. done \in SUBSET AllUnits /\ BlockSize \in Nat \ {0}
  BY BlockAssumption DEF TypeOK
<1> QED BY <1>1, SearchCases, SingleFresh, ForwardFresh, BackwardFresh

\* Each step of a thread is a step of the leases or changes nothing there.
LEMMA StepImplements ==
    ASSUME Calm, EntryInv, CalmInv, EndInv, WriterInv, PutInv, [Next]_vars
    PROVE  [Leases!Next]_(Leases!vars)
<1> DEFINE Stutter == UNCHANGED <<done, SegsOf(downloads), finished>>
<1>t. TypeOK /\ ReservedDisjoint
  BY DEF EntryInv, DataInv
<1>s. Stutter => UNCHANGED Leases!vars
  BY DEF Leases!vars
<1>1. ASSUME NEW c \in Conns, GetNext(c) PROVE Leases!Next
  <2> PICK t \in Targets : \E s \in NextSegments(t) :
         downloads' = downloads \cup {[seg |-> s, d |-> NoConn]}
    BY <1>1 DEF GetNext
  <2> PICK s \in NextSegments(t) : downloads' = downloads \cup {[seg |-> s, d |-> NoConn]}
    OBVIOUS
  <2>1. s \in Segment /\ Unclaimed(s, SegsOf(downloads)) /\ ~(Units(s) \subseteq done)
    BY <1>t, SearchFree, SearchFresh DEF CalmInv
  <2>2. SegsOf(downloads)' = SegsOf(downloads) \cup {s}
    <3> DEFINE x == [seg |-> s, d |-> NoConn]
    <3>1. downloads' = downloads \cup {x} /\ x.seg = s
      OBVIOUS
    <3> HIDE DEF x
    <3>2. \A r : r \in SegsOf(downloads)' <=> r \in SegsOf(downloads) \/ r = s
      BY <3>1 DEF SegsOf
    <3> QED BY <3>2
  <2>3. UNCHANGED <<done, finished>>
    BY <1>1 DEF GetNext
  <2>4. Leases!Acquire(s)
    BY <2>1, <2>2, <2>3, SameSegments DEF Leases!Acquire
  <2> QED BY <2>1, <2>4, SameSegments DEF Leases!Next
<1>2. ASSUME NEW c \in Conns, Attach(c) PROVE Stutter
  <2>1. added[c]
    BY <1>2 DEF Attach, CalmInv
  <2>2. UNCHANGED <<done, finished>>
    BY <1>2 DEF Attach
  <2>3. CASE downloads' = downloads
    BY <2>2, <2>3
  <2>4. ASSUME NEW x \in SegmentEntries(seg[c]), downloads' = (downloads \ {x}) \cup {[x EXCEPT !.d = c]}
        PROVE  SegsOf(downloads)' = SegsOf(downloads)
    <3>1. x \in downloads /\ [x EXCEPT !.d = c].seg = x.seg
      BY <1>t DEF SegmentEntries, TypeOK, Entry
    <3> QED BY Zenon, <2>4, <3>1 DEF SegsOf
  <2> QED BY <1>2, <2>1, <2>2, <2>3, <2>4 DEF Attach
<1>3. ASSUME NEW c \in Conns, NEW n \in 1 .. (seg[c][2] - seg[c][1]), pc[c] = "data",
             done' = done \cup Units(<<seg[c][1], seg[c][1] + n>>),
             UNCHANGED <<downloads, finished>>
      PROVE  Leases!Next \/ Stutter
  <2>1. seg[c] \in Segment
    BY <1>3 DEF CalmInv
  <2>2. CASE done = AllUnits
    <3>1. <<seg[c][1], seg[c][1] + n>> \in Segment
      <4>1. seg[c][1] \in 0 .. Size /\ seg[c][2] \in 0 .. Size
        BY <2>1 DEF Segment
      <4>2. seg[c][1] + n \in 0 .. Size /\ seg[c][1] < seg[c][1] + n
        BY <4>1, SizeAssumption
      <4> QED BY <4>1, <4>2 DEF Segment
    <3>2. done' = done
      BY <1>3, <2>2, <3>1, UnitsInFile
    <3> QED BY <1>3, <3>2
  <2>3. CASE done # AllUnits
    <3>1. [seg |-> seg[c], d |-> c] \in downloads
      BY <1>3, <2>3 DEF WriterInv
    <3>2. seg[c] \in SegsOf(downloads)
      BY <3>1 DEF SegsOf
    <3>3. Leases!Commit(seg[c], n)
      BY <1>3, <3>2, SameSegments DEF Leases!Commit
    <3> QED BY <2>1, <3>3, SameSegments DEF Leases!Next
  <2> QED BY <2>2, <2>3
<1>4. ASSUME NEW c \in Conns, FinishFile(c) PROVE Leases!Next \/ Stutter
  <2>1. pc[c] = "data" /\ UNCHANGED <<downloads, finished>>
    BY <1>4 DEF FinishFile
  <2>2. seg[c] \in Segment /\ seg[c] # Whole
    BY <2>1, SizeAssumption DEF CalmInv, Segment, Whole
  <2>3. CASE ~queued
    BY <1>4, <2>1, <2>3 DEF FinishFile
  <2>4. CASE queued
    <3>1. done' = done \cup Units(seg[c])
      BY <1>4, <2>2, <2>4 DEF FinishFile, AddSegment
    <3>2. /\ seg[c][2] - seg[c][1] \in 1 .. (seg[c][2] - seg[c][1])
          /\ <<seg[c][1], seg[c][1] + (seg[c][2] - seg[c][1])>> = seg[c]
      BY <2>2, SizeAssumption DEF Segment
    <3> QED BY Zenon, <1>3, <2>1, <3>1, <3>2
  <2> QED BY <2>3, <2>4
<1>5. ASSUME NEW c \in Conns, Fail(c) PROVE Leases!Next \/ Stutter
  <2>1. UNCHANGED <<downloads, finished>>
    BY <1>5 DEF Fail
  <2>2. CASE done' = done
    BY <2>1, <2>2
  <2>3. CASE done' # done
    <3>1. /\ pc[c] = "data"
          /\ \E m \in 0 .. SizeOf(seg[c]) : FailAfter(c, m)
      BY ZenonT(30), <1>5, <2>3 DEF Fail
    <3>2. PICK m \in 0 .. SizeOf(seg[c]) : FailAfter(c, m)
      BY <3>1
    <3>3. seg[c] \in Segment /\ seg[c] # Whole
      BY <3>1, SizeAssumption DEF CalmInv, Segment, Whole
    <3>4. SizeOf(seg[c]) = seg[c][2] - seg[c][1]
      BY <3>3, UnitsInFile
    <3> DEFINE n == m - (m % TreeBlock)
    <3>5. n \in Int /\ n <= m
      BY <3>2, <3>3, <3>4, BlockAssumption, SMTT(30) DEF Segment
    <3>6. n > 0 /\ done' = done \cup Units(<<seg[c][1], seg[c][1] + n>>)
      BY <2>3, <3>2, <3>3 DEF FailAfter, AddSegment
    <3> HIDE DEF n
    <3>7. n \in 1 .. (seg[c][2] - seg[c][1])
      BY <3>2, <3>3, <3>4, <3>5, <3>6 DEF Segment
    <3> QED BY <1>3, <2>1, <3>1, <3>6, <3>7
  <2> QED BY <2>2, <2>3
<1>6. ASSUME NEW x \in downloads, downloads' = downloads \ {x}, UNCHANGED <<done, finished>>
      PROVE  Leases!Next
  <2>1. x.seg \in Segment
    BY DEF WriterInv
  <2>2. SegsOf(downloads)' = SegsOf(downloads) \ {x.seg}
    BY <1>t, <1>6, <2>1, DropEntry DEF SegsOf
  <2>3. Leases!Return(x.seg)
    BY <1>6, <2>2 DEF Leases!Return, SegsOf
  <2> QED BY <2>1, <2>3, SameSegments DEF Leases!Next
<1>7. ASSUME NEW c \in Conns, Release(c) PROVE Leases!Next \/ Stutter
  <2>1. UNCHANGED <<done, finished>>
    BY <1>7 DEF Release
  <2>2. downloads' = downloads \/ \E x \in downloads : downloads' = downloads \ {x}
    BY <1>7 DEF Release, DropUser, UserEntries
  <2> QED BY <1>6, <2>1, <2>2
<1>8. ASSUME NEW c \in Conns, BadSource(c) PROVE Leases!Next \/ Stutter
  <2>1. UNCHANGED <<done, finished>>
    BY <1>8 DEF BadSource
  <2>2. CASE UNCHANGED downloads
    BY <2>1, <2>2
  <2>3. CASE queued /\ TakeSource(c)
    <3>1. downloads' = downloads \ UserEntries(downloads, c)
      BY <2>3 DEF TakeSource
    <3>2. \A x, y \in UserEntries(downloads, c) : x = y
      BY <2>3, ConnsAssumption DEF UserEntries, EntryInv, OwnerInv
    <3>3. CASE UserEntries(downloads, c) = {}
      BY <2>1, <3>1, <3>3
    <3>4. ASSUME NEW x \in UserEntries(downloads, c) PROVE Leases!Next
      <4>1. x \in downloads /\ downloads' = downloads \ {x}
        BY <3>1, <3>2, <3>4 DEF UserEntries
      <4> QED BY <1>6, <2>1, <4>1
    <3> QED BY <3>3, <3>4
  <2> QED BY ZenonT(40), <1>8, <2>2, <2>3 DEF BadSource
<1>9. ASSUME NEW c \in Conns, Complete(c) PROVE Leases!Next
  <2>1. /\ done = AllUnits /\ UNCHANGED <<done, downloads>> /\ finished' = finished + 1
        /\ finished \in Nat
    BY <1>9, <1>t DEF Complete, EndInv, TypeOK, segs
  <2>2. (finished > 0)' = TRUE
    BY <2>1
  <2>3. Leases!Finish
    BY <2>1, <2>2, SameSegments DEF Leases!Finish
  <2> QED BY <2>3 DEF Leases!Next
<1>10. ASSUME NEW c \in Conns, CompleteUnlist(c) \/ CompleteUnqueue(c) PROVE Leases!Next
  <2>1. UNCHANGED <<done, finished>> /\ finished > 0 /\ downloads' \subseteq downloads
    BY ZenonT(30), <1>10 DEF CompleteUnlist, Unlist, CompleteUnqueue, Unqueue, EndInv
  <2>2. SegsOf(downloads)' \subseteq SegsOf(downloads)
    BY <2>1 DEF SegsOf
  <2>3. Leases!CallOff
    BY <2>1, <2>2 DEF Leases!CallOff
  <2> QED BY <2>3 DEF Leases!Next
<1>11. ASSUME NEW c \in Conns,
              \/ TreeFound(c) \/ TreeMissing(c) \/ Unreserve(c) \/ SelectAgain(c) \/ Register(c)
              \/ StartData(c) \/ FinishTree(c) \/ CheckFinished(c) \/ Reconnect(c)
       PROVE  Stutter
  <2>1. ~Unreserve(c)
    BY DEF Unreserve, CalmInv
  <2>2. UNCHANGED <<done, downloads, finished>>
    BY Zenon, <1>11, <2>1 DEF TreeFound, TreeMissing, SelectAgain, Register, StartData, FinishTree,
       CheckFinished, Reconnect, segs
  <2> QED BY <2>2
<1>12. ASSUME UserStep \/ UNCHANGED vars PROVE Stutter
  <2>1. UNCHANGED <<done, downloads, finished>>
    BY Zenon, <1>12 DEF CalmInv, Calm, UserStep, RemoveSource, AddSource, RemoveTarget,
       RemoveTargetUnlist, RemoveTargetUnqueue, Disconnect, Pause, AbortDownload, Resume,
       segs, vars
  <2> QED BY <2>1
<1>p. ASSUME NEW c \in Conns, PutAgain(c) PROVE Stutter
  <2>1. Units(seg[c]) \subseteq done /\ UNCHANGED <<downloads, finished>>
    BY ZenonT(40), <1>p DEF PutAgain, PutInv, Past
  <2>2. done' = done \/ done' = done \cup Units(seg[c])
    BY ZenonT(40), <1>p DEF PutAgain, AddSegment
  <2> QED BY <2>1, <2>2
<1> HIDE DEF Stutter
<1>13. Leases!Next \/ Stutter
  <2>1. ASSUME NEW c \in Conns, GetDownload(c) \/ StartData(c) \/ Reconnect(c)
        PROVE  Leases!Next \/ Stutter
    BY <1>1, <1>2, <1>11, <2>1 DEF GetDownload
  <2>2. ASSUME NEW c \in Conns, PutDownload(c) PROVE Leases!Next \/ Stutter
    BY <1>4, <1>5, <1>7, <1>8, <1>9, <1>10, <1>11, <1>p, <2>2 DEF PutDownload
  <2> QED BY <1>12, <2>1, <2>2 DEF Next
<1> QED BY <1>s, <1>13

\* What ImplementsLeases rests on.
LeaseInv == CalmInv /\ EndInv /\ WriterInv /\ PutInv

\* Each step keeps it.
LEMMA LeaseInvStep ==
    ASSUME Calm, LeaseInv, EntryInv, EntryInv', [Next]_vars
    PROVE  LeaseInv'
<1>1. TypeOK /\ TypeOK'
  BY DEF EntryInv, DataInv
<1> QED BY <1>1, CalmStep, EndStep, WriterStep, PutStep DEF LeaseInv

\* It holds of a file that nobody has begun to fetch.
LEMMA LeaseInvInit ==
    ASSUME Calm, Init
    PROVE  LeaseInv
  BY Zenon DEF LeaseInv, Init, CalmInv, EndInv, WriterInv, PutInv, Past, Calm

\* The threads of the connections together implement the leases: for any size of
\* the file, blocks, chunk sizes and number of connections, compressed or not,
\* with one connection per file or several.
THEOREM ImplementsLeases ==
    ASSUME Calm
    PROVE  Spec => RefinesLeases
<1>1. Init => LeaseInv
  BY LeaseInvInit
<1>2. LeaseInv /\ EntryInv /\ EntryInv' /\ [Next]_vars => LeaseInv'
  BY LeaseInvStep
<1>3. LeaseInv /\ EntryInv /\ [Next]_vars => [Leases!Next]_(Leases!vars)
  BY StepImplements DEF LeaseInv
<1>4. Init => Leases!Init
  BY DEF Init, Leases!Init, SegsOf
<1> QED BY <1>1, <1>2, <1>3, <1>4, EntryInvAlways, PTL DEF Spec, RefinesLeases, Leases!Spec

-----------------------------------------------------------------------------
(* Nothing is fetched twice.                                                 *)

\* Where a thread holds a segment that it may still write.
Holding == {"tree", "attach", "register", "requested", "data"}

\* Something of a segment that is held is still missing: it was when the segment
\* was chosen, and nobody else can write it.  So a complete file has no holder,
\* although a block that is fetched again may be done in part.
MissingInv ==
    \A c \in Conns : pc[c] \in Holding => ~(Units(seg[c]) \subseteq done)

\* Segments that do not overlap have no unit in common.
LEMMA ApartUnits ==
    ASSUME NEW r \in Segment, NEW s \in Segment, ~Overlaps(r, s)
    PROVE  Units(r) \cap Units(s) = {}
  BY SizeAssumption DEF Segment, Overlaps, Units, Whole

\* Two threads hold different units.
LEMMA HoldersApart ==
    ASSUME EntryInv, LeaseInv, MissingInv,
           NEW c \in Conns, NEW e \in Conns, c # e, pc[c] \in Holding, pc[e] \in Holding
    PROVE  Units(seg[c]) \cap Units(seg[e]) = {}
<1>1. seg[c] \in Segment /\ seg[e] \in Segment
  BY DEF LeaseInv, CalmInv, Holding
<1>2. done # AllUnits
  BY <1>1, UnitsInFile DEF MissingInv
<1>3. queued /\ OwnerInv /\ ReservedDisjoint
  BY <1>2 DEF LeaseInv, EndInv, EntryInv
<1>4. ASSUME NEW b \in {c, e}
      PROVE  \E o \in {b, NoConn} : [seg |-> seg[b], d |-> o] \in downloads /\ (o = NoConn => Holds(b))
  <2>1. CASE pc[b] \in Writing
    BY <1>2, <2>1, ConnsAssumption DEF LeaseInv, WriterInv, Writing
  <2>2. CASE pc[b] \in {"tree", "attach"}
    <3>1. Holds(b)
      BY <2>2 DEF Holds, Reserving, LeaseInv, CalmInv
    <3> QED BY <1>3, <3>1 DEF OwnerInv
  <2> QED BY <2>1, <2>2 DEF Holding, Writing
<1>5. PICK o \in {c, NoConn} : [seg |-> seg[c], d |-> o] \in downloads /\ (o = NoConn => Holds(c))
  BY <1>4
<1>6. PICK p \in {e, NoConn} : [seg |-> seg[e], d |-> p] \in downloads /\ (p = NoConn => Holds(e))
  BY <1>4
<1> DEFINE x == [seg |-> seg[c], d |-> o]
           y == [seg |-> seg[e], d |-> p]
<1>7. x # y
  <2>1. CASE o = NoConn /\ p = NoConn
    BY <1>3, <1>5, <1>6, <2>1 DEF OwnerInv
  <2>2. CASE o # p
    BY <2>2
  <2> QED BY <2>1, <2>2, ConnsAssumption
<1>8. x \in downloads /\ y \in downloads /\ x.seg = seg[c] /\ y.seg = seg[e]
  BY <1>5, <1>6
<1> HIDE DEF x, y
<1>9. ~Overlaps(seg[c], seg[e])
  BY <1>3, <1>7, <1>8 DEF ReservedDisjoint
<1> QED BY <1>1, <1>9, ApartUnits

\* What a step adds to what is done: all of a segment that arrived, or of one that
\* broke off after n units those in whole blocks of the tree.
Gains(c, n) ==
    /\ pc[c] = "data" /\ queued /\ pc' = [pc EXCEPT ![c] = pc'[c]]
    /\ \A e \in Conns \ {c} : seg'[e] = seg[e]
    /\ n \in 1 .. (seg[c][2] - seg[c][1])
    /\ done' = done \cup Units(<<seg[c][1], seg[c][1] + n>>)
    /\ miscounted' = miscounted
          \/ /\ Units(<<seg[c][1], seg[c][1] + n>>) \subseteq done
             /\ miscounted' = miscounted \cup {"first"}
    /\ \/ pc'[c] = "check" /\ n = seg[c][2] - seg[c][1]
       \/ /\ pc'[c] = "release" /\ \E m \in Nat : n = m - (m % TreeBlock)
          /\ n < seg[c][2] - seg[c][1] \/ Compressed

\* putDownload(d, true) for a segment of the file.
LEMMA FinishGains ==
    ASSUME TypeOK, CalmInv, NEW c \in Conns, FinishFile(c), queued
    PROVE  Gains(c, seg[c][2] - seg[c][1])
<1>1. pc[c] = "data" /\ seg[c] \in Segment /\ seg[c] # Whole
  BY SizeAssumption DEF FinishFile, CalmInv, Segment, Whole
<1>2. /\ AddSegment(seg[c], "first")
      /\ GoOn(c, "check", SizeOf(seg[c]))
  BY <1>1, Zenon DEF FinishFile
<1>3. /\ seg[c][2] - seg[c][1] \in 1 .. (seg[c][2] - seg[c][1])
      /\ <<seg[c][1], seg[c][1] + (seg[c][2] - seg[c][1])>> = seg[c]
  BY <1>1, SizeAssumption DEF Segment
<1>4. /\ pc' = [pc EXCEPT ![c] = pc'[c]] /\ pc'[c] = "check"
      /\ \A e \in Conns \ {c} : seg'[e] = seg[e]
  BY <1>2 DEF GoOn, Goto, TypeOK
<1>5. /\ done' = done \cup Units(seg[c])
      /\ \/ miscounted' = miscounted
         \/ Units(seg[c]) \subseteq done /\ miscounted' = miscounted \cup {"first"}
  BY Zenon, <1>2 DEF AddSegment
<1> QED BY Zenon, <1>1, <1>3, <1>4, <1>5 DEF Gains

\* putDownload(d, false).
LEMMA FailGains ==
    ASSUME TypeOK, CalmInv, NEW c \in Conns, Fail(c)
    PROVE  UNCHANGED <<done, miscounted>> \/ \E n \in Nat : Gains(c, n)
<1> SUFFICES ASSUME ~UNCHANGED <<done, miscounted>> PROVE \E n \in Nat : Gains(c, n)
  OBVIOUS
<1>1. PICK m \in 0 .. SizeOf(seg[c]) :
         /\ pc[c] = "data" /\ (m < SizeOf(seg[c]) \/ Compressed)
         /\ FailAfter(c, m) /\ PutBack(c, m)
  BY ZenonT(40) DEF Fail
<1>f. pc[c] = "data" /\ (m < SizeOf(seg[c]) \/ Compressed)
  BY Zenon, <1>1
<1>g. seg[c] \in Segment
  BY Zenon, <1>f DEF CalmInv
<1>2. seg[c] \in Segment /\ seg[c] # Whole
  BY <1>g, SizeAssumption DEF Segment, Whole
<1>3. SizeOf(seg[c]) = seg[c][2] - seg[c][1]
  BY <1>2, UnitsInFile
<1>4. m \in Nat /\ m <= seg[c][2] - seg[c][1] /\ (m < seg[c][2] - seg[c][1] \/ Compressed)
  <2>1. m \in 0 .. (seg[c][2] - seg[c][1]) /\ (m < seg[c][2] - seg[c][1] \/ Compressed)
    BY <1>f, <1>3
  <2>2. seg[c][1] \in Int /\ seg[c][2] \in Int
    BY <1>g, SizeAssumption DEF Segment
  <2> QED BY <2>1, <2>2
<1> DEFINE n == m - (m % TreeBlock)
<1>5. n \in Int /\ n <= m
  BY <1>4, BlockAssumption
<1>6. /\ queued /\ n > 0
      /\ AddSegment(<<seg[c][1], seg[c][1] + n>>, "first")
  BY <1>1, <1>2 DEF FailAfter
<1>7. GoOn(c, "release", m)
  BY <1>1, <1>6 DEF PutBack
<1>8. /\ done' = done \cup Units(<<seg[c][1], seg[c][1] + n>>)
      /\ \/ miscounted' = miscounted
         \/ /\ Units(<<seg[c][1], seg[c][1] + n>>) \subseteq done
            /\ miscounted' = miscounted \cup {"first"}
  BY Zenon, <1>6 DEF AddSegment
<1>9. /\ pc' = [pc EXCEPT ![c] = pc'[c]] /\ pc'[c] = "release"
      /\ \A e \in Conns \ {c} : seg'[e] = seg[e]
  BY <1>7 DEF GoOn, Goto, TypeOK
<1>10. \E k \in Nat : n = k - (k % TreeBlock)
  BY <1>4
<1> HIDE DEF n
<1>11. /\ n \in 1 .. (seg[c][2] - seg[c][1]) /\ n \in Nat
       /\ n < seg[c][2] - seg[c][1] \/ Compressed
  BY <1>2, <1>4, <1>5, <1>6 DEF Segment
<1>12. Gains(c, n)
  BY Zenon, <1>1, <1>6, <1>8, <1>9, <1>10, <1>11 DEF Gains
<1> QED BY <1>11, <1>12

\* No other step changes what is done, or counts it twice on a first put.
LEMMA StepGains ==
    ASSUME TypeOK, CalmInv, PutInv, [Next]_vars
    PROVE  \/ done' = done /\ ("first" \in miscounted' => "first" \in miscounted)
           \/ \E c \in Conns, n \in Nat : Gains(c, n)
<1>1. ASSUME NEW c \in Conns, FinishFile(c)
      PROVE  UNCHANGED <<done, miscounted>> \/ \E n \in Nat : Gains(c, n)
  <2>1. CASE ~queued
    BY Zenon, <1>1, <2>1 DEF FinishFile
  <2>2. CASE queued
    <3>1. Gains(c, seg[c][2] - seg[c][1])
      BY <1>1, <2>2, FinishGains
    <3>2. seg[c][2] - seg[c][1] \in Nat
      BY <1>1, SizeAssumption DEF FinishFile, CalmInv, Segment
    <3> QED BY Zenon, <3>1, <3>2
  <2> QED BY <2>1, <2>2
<1>2. ASSUME NEW c \in Conns, PutAgain(c)
      PROVE  done' = done /\ ("first" \in miscounted' => "first" \in miscounted)
  <2>1. Units(seg[c]) \subseteq done
    BY ZenonT(40), <1>2 DEF PutAgain, PutInv, Past
  <2>2. CASE queued
    <3>1. AddSegment(seg[c], "again")
      BY Zenon, <1>2, <2>2 DEF PutAgain
    <3>2. /\ done' = done \cup Units(seg[c])
          /\ miscounted' = miscounted \/ miscounted' = miscounted \cup {"again"}
      BY Zenon, <3>1 DEF AddSegment
    <3> QED BY <2>1, <3>2
  <2>3. CASE ~queued
    BY Zenon, <1>2, <2>3 DEF PutAgain
  <2> QED BY <2>2, <2>3
<1>3. ASSUME \/ UserStep \/ UNCHANGED vars
             \/ \E c \in Conns :
                   \/ GetDownload(c) \/ StartData(c) \/ Reconnect(c) \/ FinishTree(c) \/ BadSource(c)
                   \/ Release(c) \/ CheckFinished(c) \/ Complete(c) \/ CompleteUnlist(c)
                   \/ CompleteUnqueue(c)
      PROVE  UNCHANGED <<done, miscounted>>
  <2>1. CASE UserStep \/ UNCHANGED vars
    BY Zenon, <2>1 DEF UserStep, RemoveSource, AddSource, RemoveTarget, RemoveTargetUnlist,
       RemoveTargetUnqueue, Disconnect, Pause, AbortDownload, Resume, segs, vars
  <2>2. CASE \E c \in Conns : GetDownload(c) \/ StartData(c) \/ Reconnect(c)
    BY Zenon, <2>2 DEF GetDownload, GetNext, TreeFound, TreeMissing, Unreserve, SelectAgain,
       Attach, Register, StartData, Reconnect, segs
  <2>3. CASE \E c \in Conns : \/ FinishTree(c) \/ BadSource(c) \/ Release(c) \/ CheckFinished(c)
                              \/ Complete(c) \/ CompleteUnlist(c) \/ CompleteUnqueue(c)
    BY Zenon, <2>3 DEF FinishTree, BadSource, Release, CheckFinished, Complete, CompleteUnlist,
       CompleteUnqueue, segs
  <2> QED BY Zenon, <1>3, <2>1, <2>2, <2>3
<1> QED BY ZenonT(40), <1>1, <1>2, <1>3, FailGains DEF Next, PutDownload

\* A thread comes to hold a segment only by choosing it, and keeps what it holds.
LEMMA HoldersStep ==
    ASSUME TypeOK, CalmInv, [Next]_vars, NEW e \in Conns, pc'[e] \in Holding
    PROVE  \/ pc[e] \in Holding /\ seg'[e] = seg[e]
           \/ done' = done /\ \E t \in Targets : seg'[e] \in NextSegments(t)
<1> DEFINE Same == pc[e] \in Holding /\ seg'[e] = seg[e]
           New == done' = done /\ \E t \in Targets : seg'[e] \in NextSegments(t)
<1>1. ASSUME NEW c \in Conns, GetNext(c) PROVE Same \/ New
  <2>1. /\ pc' = [pc EXCEPT ![c] = "tree"] /\ done' = done
        /\ \E t \in Targets : \E s \in NextSegments(t) : seg' = [seg EXCEPT ![c] = s]
    BY Zenon, <1>1 DEF GetNext, Goto
  <2>2. CASE e = c
    BY <2>1, <2>2 DEF TypeOK
  <2>3. CASE e # c
    BY <2>1, <2>3 DEF TypeOK
  <2> QED BY <2>2, <2>3
<1>2. ASSUME NEW c \in Conns,
             TreeFound(c) \/ Attach(c) \/ Register(c) \/ StartData(c) \/ CheckFinished(c) \/ Complete(c)
               \/ CompleteUnlist(c)
      PROVE  Same
  <2>1. /\ seg' = seg
        /\ \/ pc[c] \in Holding /\ \E l \in PCs : pc' = [pc EXCEPT ![c] = l]
           \/ \E l \in Past : pc' = [pc EXCEPT ![c] = l]
    BY Zenon, <1>2 DEF TreeFound, Attach, Register, StartData, CheckFinished, Complete, CompleteUnlist,
       Goto, Holding, Past, PCs
  <2> QED BY <2>1 DEF TypeOK, Past, Holding
<1>3. ASSUME NEW c \in Conns,
             \/ FinishFile(c) \/ FinishTree(c) \/ Fail(c) \/ BadSource(c) \/ Release(c) \/ PutAgain(c)
             \/ CompleteUnqueue(c)
      PROVE  Same
  <2>1. Leave(c) \/ \E l \in Past : Moves(c, l)
    BY Zenon, <1>3, EndsPut DEF CompleteUnqueue, CalmInv
  <2> QED BY <2>1 DEF Leave, Moves, Past, Holding, TypeOK
<1>4. ASSUME NEW c \in Conns, TreeMissing(c) \/ Unreserve(c) \/ SelectAgain(c) PROVE FALSE
  BY ZenonT(40), <1>4 DEF TreeMissing, Unreserve, SelectAgain, CalmInv
<1>5. ASSUME UserStep \/ UNCHANGED vars \/ \E c \in Conns : Reconnect(c) PROVE Same
  <2>1. UNCHANGED <<pc, seg>>
    BY ZenonT(40), <1>5 DEF UserStep, RemoveSource, AddSource, RemoveTarget, RemoveTargetUnlist,
       RemoveTargetUnqueue, Disconnect, Pause, AbortDownload, Resume, Reconnect, local, vars
  <2> QED BY <2>1
<1> HIDE DEF Same, New
<1>6. Same \/ New
  BY ZenonT(40), <1>1, <1>2, <1>3, <1>4, <1>5 DEF Next, GetDownload, PutDownload
<1> QED BY <1>6 DEF Same, New

\* The beginning of a segment.
LEMMA BeginUnits ==
    ASSUME NEW s \in Segment, NEW n \in 1 .. (s[2] - s[1])
    PROVE  /\ Units(<<s[1], s[1] + n>>) = s[1] .. (s[1] + n - 1)
           /\ Units(s) = s[1] .. (s[2] - 1)
           /\ Units(<<s[1], s[1] + n>>) \subseteq Units(s)
           /\ s[1] \in Units(<<s[1], s[1] + n>>)
<1>1. s[1] \in 0 .. Size /\ s[2] \in 0 .. Size /\ s[1] < s[2]
  BY DEF Segment
<1>2. s # Whole /\ <<s[1], s[1] + n>> # Whole
  BY <1>1, SizeAssumption DEF Whole
<1>3. Units(<<s[1], s[1] + n>>) = s[1] .. (s[1] + n - 1) /\ Units(s) = s[1] .. (s[2] - 1)
  BY <1>1, <1>2 DEF Units
<1>4. /\ s[1] .. (s[1] + n - 1) \subseteq s[1] .. (s[2] - 1)
      /\ s[1] \in s[1] .. (s[1] + n - 1)
  BY <1>1, SizeAssumption
<1> QED BY Zenon, <1>3, <1>4

\* A put of c's Download brings nothing that another thread holds.
LEMMA GainsOwn ==
    ASSUME EntryInv, LeaseInv, MissingInv, NEW c \in Conns, NEW n \in Nat, Gains(c, n),
           NEW e \in Conns, pc'[e] \in Holding, pc[e] \in Holding
    PROVE  e # c /\ Units(seg[e]) \cap done' = Units(seg[e]) \cap done
<1>1. pc \in [Conns -> PCs]
  BY DEF EntryInv, DataInv, TypeOK
<1>2. e # c
  BY DEF Gains, Holding
<1>3. pc[c] \in Holding /\ seg[c] \in Segment
  BY DEF Gains, Holding, LeaseInv, CalmInv
<1>4. Units(<<seg[c][1], seg[c][1] + n>>) \subseteq Units(seg[c])
  BY <1>3, BeginUnits DEF Gains
<1>5. Units(seg[e]) \cap Units(seg[c]) = {}
  BY <1>2, <1>3, HoldersApart
<1>6. done' = done \cup Units(<<seg[c][1], seg[c][1] + n>>)
  BY DEF Gains
<1> QED BY <1>2, <1>4, <1>5, <1>6

\* Something is missing of whatever is held.
LEMMA MissingStep ==
    ASSUME EntryInv, LeaseInv, MissingInv, [Next]_vars
    PROVE  MissingInv'
<1> SUFFICES ASSUME NEW e \in Conns, pc'[e] \in Holding PROVE ~(Units(seg'[e]) \subseteq done')
  BY DEF MissingInv
<1>1. TypeOK /\ CalmInv /\ PutInv /\ blockSize = BlockSize
  BY DEF EntryInv, DataInv, LeaseInv, CalmInv
<1>2. CASE done' = done /\ \E t \in Targets : seg'[e] \in NextSegments(t)
  BY <1>1, <1>2, SearchFresh
<1>3. CASE pc[e] \in Holding /\ seg'[e] = seg[e]
  <2>1. ~(Units(seg[e]) \subseteq done)
    BY <1>3 DEF MissingInv
  <2>2. CASE done' = done
    BY <1>3, <2>1, <2>2
  <2>3. ASSUME NEW c \in Conns, NEW n \in Nat, Gains(c, n)
        PROVE  Units(seg[e]) \cap done' = Units(seg[e]) \cap done
    BY <1>3, <2>3, GainsOwn
  <2>4. CASE \E c \in Conns, n \in Nat : Gains(c, n)
    BY <1>3, <2>1, <2>3, <2>4
  <2> QED BY <1>1, <2>2, <2>4, StepGains
<1> QED BY <1>1, <1>2, <1>3, HoldersStep

HoldInv == EntryInv /\ LeaseInv /\ MissingInv

\* What is held is reserved, and something of it is missing.
LEMMA HoldInvAlways ==
    ASSUME Calm
    PROVE  Spec => []HoldInv
<1>1. Init => LeaseInv /\ MissingInv
  BY ZenonT(40), LeaseInvInit DEF MissingInv, Init, Holding
<1>2. LeaseInv /\ MissingInv /\ EntryInv /\ EntryInv' /\ [Next]_vars => LeaseInv' /\ MissingInv'
  BY LeaseInvStep, MissingStep
<1>3. HoldInv <=> EntryInv /\ LeaseInv /\ MissingInv
  BY DEF HoldInv
<1> QED BY <1>1, <1>2, <1>3, EntryInvAlways, PTL DEF Spec

\* "Next segment that is not done and not being downloaded": no two connections
\* ever fetch the same unit at the same time, for any file, blocks that the tree
\* does not enlarge, chunk sizes and number of connections, if the user leaves the
\* file alone.  (queue_growth shows that a tree with larger blocks breaks this.)
THEOREM FetchedOnceAlways ==
    ASSUME Calm
    PROVE  Spec => []FetchedOnce
<1>1. HoldInv => FetchedOnce
  BY HoldersApart DEF HoldInv, FetchedOnce, Fetching, Holding
<1> QED BY <1>1, HoldInvAlways, PTL

-----------------------------------------------------------------------------
(* A tree with just the blocks of the item: what is done is made of blocks.  *)

\* TigerTree::getMaxBlockSize gives both the item and the trees that this program
\* computes their block size.
Even == Calm /\ TreeBlock = BlockSize

Block(k) == (k * BlockSize .. (k * BlockSize + BlockSize - 1)) \cap AllUnits

Blockwise(D) == \A k \in Nat : Block(k) \subseteq D \/ Block(k) \cap D = {}

OnGrid(n) == n = Size \/ \E k \in Nat : n = k * BlockSize

\* Each unit is in a block.
LEMMA BlockOf ==
    ASSUME NEW i \in AllUnits
    PROVE  \E k \in Nat : /\ i \in Block(k) /\ k * BlockSize \in Nat /\ k * BlockSize <= i
                          /\ i < k * BlockSize + BlockSize
<1> DEFINE k == i \div BlockSize
<1>1. i \in Nat /\ BlockSize \in Nat \ {0}
  BY SizeAssumption, BlockAssumption DEF AllUnits
<1>2. k \in Nat /\ k * BlockSize <= i /\ i < k * BlockSize + BlockSize
  BY ZenonT(40), <1>1, Quotient
<1> HIDE DEF k
<1>3. k * BlockSize \in Nat
  BY <1>1, <1>2
<1>4. i \in Block(k)
  BY <1>1, <1>2, <1>3 DEF Block
<1> QED BY <1>2, <1>3, <1>4

\* Units between two places of the grid are made of blocks.
LEMMA RangeBlockwise ==
    ASSUME NEW x \in 0 .. Size, NEW y \in 0 .. Size, OnGrid(x), OnGrid(y)
    PROVE  Blockwise(x .. (y - 1))
<1> SUFFICES ASSUME NEW k \in Nat
             PROVE  Block(k) \subseteq x .. (y - 1) \/ Block(k) \cap (x .. (y - 1)) = {}
  BY DEF Blockwise
<1>b. BlockSize \in Nat /\ k * BlockSize \in Nat
  BY BlockAssumption
<1>1. \/ x <= k * BlockSize
      \/ k * BlockSize + BlockSize <= x
      \/ x = Size
  <2>1. ASSUME NEW j \in Nat, x = j * BlockSize, k < j PROVE k * BlockSize + BlockSize <= x
    BY <1>b, <2>1, GridOrder
  <2>2. ASSUME NEW j \in Nat, x = j * BlockSize, j < k PROVE x <= k * BlockSize
    <3>1. j * BlockSize + BlockSize <= k * BlockSize
      BY <1>b, <2>2, GridOrder
    <3> QED BY <1>b, <2>2, <3>1
  <2>3. ASSUME NEW j \in Nat, x = j * BlockSize, j = k PROVE x <= k * BlockSize
    BY <1>b, <2>3
  <2> QED BY <2>1, <2>2, <2>3 DEF OnGrid
<1>2. \/ y <= k * BlockSize
      \/ k * BlockSize + BlockSize <= y
      \/ y = Size
  <2>1. ASSUME NEW j \in Nat, y = j * BlockSize, k < j PROVE k * BlockSize + BlockSize <= y
    BY <1>b, <2>1, GridOrder
  <2>2. ASSUME NEW j \in Nat, y = j * BlockSize, j < k PROVE y <= k * BlockSize
    <3>1. j * BlockSize + BlockSize <= k * BlockSize
      BY <1>b, <2>2, GridOrder
    <3> QED BY <1>b, <2>2, <3>1
  <2>3. ASSUME NEW j \in Nat, y = j * BlockSize, j = k PROVE y <= k * BlockSize
    BY <1>b, <2>3
  <2> QED BY <2>1, <2>2, <2>3 DEF OnGrid
<1> DEFINE b == k * BlockSize
<1>3. b \in Nat /\ Block(k) = (b .. (b + BlockSize - 1)) \cap (0 .. (Size - 1))
  BY <1>b DEF Block, AllUnits
<1> HIDE DEF b
<1>4. (x <= b \/ b + BlockSize <= x \/ x = Size) /\ (y <= b \/ b + BlockSize <= y \/ y = Size)
  BY <1>1, <1>2 DEF b
<1> QED BY <1>b, <1>3, <1>4, SizeAssumption

\* The first gap begins on the grid.
LEMMA RunEndOnGrid ==
    ASSUME NEW D \in SUBSET AllUnits, Blockwise(D)
    PROVE  OnGrid(RunEnd(D, 0))
<1> DEFINE e == RunEnd(D, 0)
<1>1. e \in 0 .. Size /\ (0 .. (e - 1)) \subseteq D /\ e \notin D
  BY RunEndFacts
<1> HIDE DEF e
<1>2. CASE e = Size
  BY <1>2 DEF OnGrid, e
<1>3. CASE e # Size
  <2>1. e \in AllUnits
    BY <1>1, <1>3, SizeAssumption DEF AllUnits
  <2>2. PICK k \in Nat : /\ e \in Block(k) /\ k * BlockSize \in Nat /\ k * BlockSize <= e
                         /\ e < k * BlockSize + BlockSize
    BY <2>1, BlockOf
  <2>3. Block(k) \cap D = {}
    BY <1>1, <2>2 DEF Blockwise
  <2>4. CASE k * BlockSize < e
    <3>1. k * BlockSize \in Block(k) /\ k * BlockSize \in D
      BY <1>1, <2>2, <2>4, BlockAssumption, SizeAssumption DEF Block, AllUnits
    <3> QED BY <2>3, <3>1
  <2>5. CASE k * BlockSize = e
    BY <2>5 DEF OnGrid, e
  <2> QED BY <1>1, <2>2, <2>4, <2>5, SizeAssumption
<1> QED BY <1>2, <1>3

\* The done run at the end begins on the grid.
LEMMA RunStartOnGrid ==
    ASSUME NEW D \in SUBSET AllUnits, Blockwise(D)
    PROVE  OnGrid(RunStart(D, Size))
<1> DEFINE e == RunStart(D, Size)
<1>1. e \in 0 .. Size /\ (e .. (Size - 1)) \subseteq D /\ (e - 1) \notin D
  BY RunStartFacts
<1> HIDE DEF e
<1>2. CASE e = Size
  BY <1>2 DEF OnGrid, e
<1>3. CASE e # Size
  <2>1. e \in AllUnits /\ e \in D
    BY <1>1, <1>3, SizeAssumption DEF AllUnits
  <2>2. PICK k \in Nat : /\ e \in Block(k) /\ k * BlockSize \in Nat /\ k * BlockSize <= e
                         /\ e < k * BlockSize + BlockSize
    BY <2>1, BlockOf
  <2>3. Block(k) \subseteq D
    BY <2>1, <2>2 DEF Blockwise
  <2>4. CASE k * BlockSize < e
    <3>1. e - 1 \in Block(k)
      BY <1>1, <1>3, <2>2, <2>4, BlockAssumption, SizeAssumption DEF Block, AllUnits
    <3> QED BY <1>1, <2>3, <3>1
  <2>5. CASE k * BlockSize = e
    BY <2>5 DEF OnGrid, e
  <2> QED BY <1>1, <2>2, <2>4, <2>5, SizeAssumption
<1> QED BY <1>2, <1>3

\* What leaves no remainder is a multiple.
LEMMA GridSum ==
    ASSUME NEW d \in Nat, NEW b \in Nat \ {0}, d % b = 0
    PROVE  \E r \in Nat : d = r * b
<1>1. d \div b \in Nat /\ d % b = d - (d \div b) * b
  BY Quotient
<1>2. d = (d \div b) * b
  BY <1>1
<1> QED BY <1>1, <1>2

\* Sums and differences of multiples.
LEMMA GridAdd ==
    ASSUME NEW j \in Int, NEW k \in Int, NEW b \in Nat
    PROVE  j * b + k * b = (j + k) * b /\ j * b - k * b = (j - k) * b /\ j * b \in Int
  OBVIOUS

\* A segment of whole blocks of which nothing is done.
NewBlocks(s, D) == OnGrid(s[1]) /\ OnGrid(s[2]) /\ Units(s) \cap D = {}

\* getNextSegmentForward.
LEMMA ForwardGrid ==
    ASSUME NEW D \in SUBSET AllUnits, Blockwise(D), NEW S, NEW t \in Int,
           NEW s \in NextForward(D, S, BlockSize, t)
    PROVE  NewBlocks(s, D)
<1>b. BlockSize \in Nat \ {0}
  BY BlockAssumption
<1> DEFINE first == RunEnd(D, 0)
<1>1. first \in 0 .. Size /\ OnGrid(first)
  BY RunEndFacts, RunEndOnGrid
<1>2. PICK i \in 0 .. (Size - 1), n \in BlockSize .. t :
         /\ i >= first /\ (i - first) % BlockSize = 0 /\ n % BlockSize = 0
         /\ s = <<i, Lesser(Size, i + n)>> /\ FitsForward(D, S, BlockSize, i, n)
  BY DEF NextForward
<1> HIDE DEF first
<1>3. PICK k \in Nat : first = k * BlockSize
  BY <1>1, <1>2, SizeAssumption DEF OnGrid
<1>4. PICK r \in Nat : i - first = r * BlockSize
  <2>1. i - first \in Nat
    BY <1>1, <1>2, SizeAssumption
  <2> QED BY ZenonT(40), <1>b, <1>2, <2>1, GridSum
<1>5. PICK u \in Nat : n = u * BlockSize
  <2>1. n \in Nat
    BY <1>b
  <2> QED BY ZenonT(40), <1>b, <1>2, <2>1, GridSum
<1> DEFINE j == k + r
<1>6. i = j * BlockSize /\ i + n = (j + u) * BlockSize /\ j \in Nat /\ j + u \in Nat
  <2>1. /\ k * BlockSize + r * BlockSize = (k + r) * BlockSize
        /\ j * BlockSize + u * BlockSize = (j + u) * BlockSize
    BY <1>b, GridAdd
  <2> QED BY <1>1, <1>3, <1>4, <1>5, <2>1
<1> HIDE DEF j
<1> DEFINE end == Lesser(Size, i + n)
<1>7. end \in 0 .. Size /\ i < end /\ (end = Size \/ end = i + n)
  BY <1>b, <1>2, SizeAssumption DEF Lesser
<1>8. OnGrid(i) /\ OnGrid(end)
  BY <1>6, <1>7, Zenon DEF OnGrid
<1>9. s[1] = i /\ s[2] = end /\ Units(s) = i .. (end - 1)
  BY <1>2, <1>7 DEF Units, Whole
<1>10. CASE n > BlockSize
  <2>1. (i .. (end - 1)) \cap D = {}
    BY <1>b, <1>2, <1>10 DEF FitsForward
  <2> QED BY <1>8, <1>9, <2>1 DEF NewBlocks
<1>11. CASE n = BlockSize
  <2>1. ~((i .. (end - 1)) \subseteq D)
    BY <1>b, <1>2, <1>11 DEF FitsForward
  <2>2. Block(j) = i .. (end - 1)
    BY <1>b, <1>2, <1>6, <1>11, SizeAssumption DEF Block, AllUnits, Lesser
  <2>3. Block(j) \cap D = {}
    BY ZenonT(40), <1>6, <2>1, <2>2 DEF Blockwise
  <2> QED BY <1>8, <1>9, <2>2, <2>3 DEF NewBlocks
<1> QED BY <1>b, <1>2, <1>10, <1>11

\* getNextSegmentBackward.
LEMMA BackwardGrid ==
    ASSUME NEW D \in SUBSET AllUnits, D # AllUnits, Blockwise(D), NEW S, NEW t \in Int,
           NEW s \in NextBackward(D, S, BlockSize, t)
    PROVE  NewBlocks(s, D)
<1>b. BlockSize \in Nat \ {0}
  BY BlockAssumption
<1> DEFINE tail == RunStart(D, Size)
           last == IF tail \in 1 .. (Size - 1) THEN tail ELSE roundUp(Size, BlockSize)
<1>1. /\ tail \in 1 .. Size /\ (tail - 1) \notin D /\ OnGrid(tail)
  <2>1. tail \in 0 .. Size /\ (tail .. (Size - 1)) \subseteq D /\ (tail - 1) \notin D
    BY RunStartFacts
  <2>2. tail # 0
    BY Zenon, <2>1, SizeAssumption DEF AllUnits
  <2> QED BY <2>1, <2>2, SizeAssumption, RunStartOnGrid
<1> HIDE DEF tail
<1>2. PICK k \in Nat : last = k * BlockSize /\ (last > Size => tail = Size)
  <2>1. CASE tail \in 1 .. (Size - 1)
    BY <1>1, <2>1, SizeAssumption DEF OnGrid
  <2>2. CASE tail \notin 1 .. (Size - 1)
    <3> DEFINE q == (Size + BlockSize - 1) \div BlockSize
    <3>1. Size + BlockSize - 1 \in Nat
      BY <1>b, SizeAssumption
    <3>2. q \in Nat
      BY <1>b, <3>1, Quotient
    <3>3. last = q * BlockSize
      BY <2>2 DEF roundUp
    <3>4. tail = Size
      BY <1>1, <2>2, SizeAssumption
    <3> QED BY <3>2, <3>3, <3>4
  <2> QED BY <2>1, <2>2
<1>3. PICK e \in 1 .. last, n \in BlockSize .. t :
         /\ (last - e) % BlockSize = 0 /\ n % BlockSize = 0
         /\ s = <<Greater(0, e - n), Lesser(e, Size)>> /\ FitsBackward(D, S, BlockSize, e, n)
  BY DEF NextBackward, tail
<1> HIDE DEF last
<1>4. last \in Nat
  BY <1>b, <1>2
<1>5. PICK r \in Nat : last - e = r * BlockSize
  <2>1. last - e \in Nat
    BY <1>4
  <2> QED BY ZenonT(40), <1>b, <1>3, <2>1, GridSum
<1>6. PICK u \in Nat : n = u * BlockSize
  <2>1. n \in Nat
    BY <1>b
  <2> QED BY ZenonT(40), <1>b, <1>3, <2>1, GridSum
<1> DEFINE j == k - r
<1>7. e = j * BlockSize /\ e - n = (j - u) * BlockSize /\ j \in Int /\ j - u \in Int
  <2>1. /\ k * BlockSize - r * BlockSize = (k - r) * BlockSize
        /\ j * BlockSize - u * BlockSize = (j - u) * BlockSize
    BY <1>b, GridAdd
  <2> QED BY <1>2, <1>4, <1>5, <1>6, <2>1
<1> HIDE DEF j
<1>8. ASSUME NEW v \in Int, v * BlockSize > 0 - BlockSize PROVE v \in Nat
  <2>1. CASE v < 0
    <3>1. v * BlockSize + BlockSize <= 0 * BlockSize
      BY <1>b, <2>1, GridOrder
    <3> QED BY <1>b, <1>8, <3>1
  <2> QED BY <2>1
<1>9. j \in Nat
  BY <1>b, <1>7, <1>8
<1> DEFINE start == Greater(0, e - n)
           end == Lesser(e, Size)
<1>10. s[1] = start /\ s[2] = end /\ s \in Segment
  BY <1>b, <1>3, BackwardFree
<1>11. /\ start \in 0 .. Size /\ end \in 0 .. Size /\ start < end
       /\ (start = 0 \/ (start = e - n /\ e - n > 0)) /\ (end = e \/ end = Size)
  BY <1>b, <1>10, SizeAssumption DEF Segment, Lesser, Greater
<1>12. OnGrid(start) /\ OnGrid(end)
  <2>1. 0 = 0 * BlockSize
    BY <1>b
  <2>2. e - n > 0 => j - u \in Nat
    BY <1>b, <1>7, <1>8
  <2>3. OnGrid(start)
    BY <1>7, <1>11, <2>1, <2>2 DEF OnGrid
  <2> QED BY <1>7, <1>9, <1>11, <2>3 DEF OnGrid
<1>13. Units(s) = start .. (end - 1)
  BY <1>10, <1>11 DEF Units, Whole
<1>14. CASE n > BlockSize
  <2>1. (start .. (end - 1)) \cap D = {}
    BY <1>b, <1>3, <1>14 DEF FitsBackward
  <2> QED BY <1>10, <1>12, <1>13, <2>1 DEF NewBlocks
<1>15. CASE n = BlockSize
  <2>1. ~((start .. (e - 1)) \subseteq D)
    BY <1>b, <1>3, <1>15 DEF FitsBackward
  <2>2. e - n = (j - 1) * BlockSize
    <3>1. j * BlockSize - 1 * BlockSize = (j - 1) * BlockSize
      BY <1>b, <1>7, GridAdd
    <3> QED BY <1>b, <1>7, <1>15, <3>1
  <2>3. PICK w \in Nat : w = j - 1
    <3>1. (j - 1) * BlockSize > 0 - BlockSize
      BY <1>b, <1>15, <2>2
    <3> QED BY <1>7, <1>8, <3>1
  <2> DEFINE m == w * BlockSize
  <2>4. m \in Nat
    BY <1>b, <2>3
  <2>5. start = m /\ e = m + BlockSize /\ m \in Nat
    BY <1>b, <1>15, <2>2, <2>3, <2>4 DEF Greater
  <2>6. Block(w) = (m .. (m + BlockSize - 1)) \cap (0 .. (Size - 1))
    BY DEF Block, AllUnits
  <2> HIDE DEF m, start
  <2>a. end \in Int /\ (e <= Size => end = e) /\ (e > Size => end = Size)
    BY SizeAssumption DEF Lesser
  <2> HIDE DEF end
  <2>7. Block(w) = start .. (end - 1)
    BY <1>b, <2>5, <2>6, <2>a, SizeAssumption
  <2>8. ASSUME Block(w) \subseteq D PROVE FALSE
    <3>1. CASE e <= Size
      <4>1. end = e
        BY <2>a, <3>1
      <4> QED BY <2>1, <2>7, <2>8, <4>1
    <3>2. CASE e > Size
      <4>1. tail = Size /\ Size - 1 \notin D
        BY <1>1, <1>2, <1>4, <3>2, SizeAssumption
      <4>2. end = Size
        BY <2>a, <3>2
      <4>3. Size - 1 \in start .. (end - 1)
        BY <1>11, <4>2, SizeAssumption
      <4> QED BY <2>7, <2>8, <4>1, <4>3
    <3> QED BY <3>1, <3>2, SizeAssumption
  <2>9. Block(w) \cap D = {}
    BY <2>3, <2>8 DEF Blockwise
  <2> QED BY <1>10, <1>12, <1>13, <2>7, <2>9 DEF NewBlocks
<1> QED BY <1>b, <1>3, <1>14, <1>15

\* getNextSegmentL for one connection per file: the first gap begins and ends on
\* the grid, so that nothing is rounded, and it is found if there is one.
LEMMA SingleGrid ==
    ASSUME NEW D \in SUBSET AllUnits, Blockwise(D), Size % BlockSize = 0, NEW S
    PROVE  /\ \A s \in NextSingle(D, S, BlockSize) : NewBlocks(s, D)
           /\ D # AllUnits => NextSingle(D, {}, BlockSize) # {}
<1>b. BlockSize \in Nat \ {0}
  BY BlockAssumption
<1> DEFINE e == RunEnd(D, 0)
           later == {i \in D : i > e}
           m == CHOOSE i \in later : \A j \in later : i <= j
           gapEnd == IF later = {} THEN Size ELSE roundUp(m, BlockSize)
           seg1 == <<roundDown(e, BlockSize), Lesser(Size, gapEnd)>>
<1>1. e \in 0 .. Size /\ (0 .. (e - 1)) \subseteq D /\ e \notin D /\ OnGrid(e)
  BY RunEndFacts, RunEndOnGrid
<1>2. /\ \A s \in NextSingle(D, S, BlockSize) : s = seg1 /\ s \in Segment
      /\ NextSingle(D, {}, BlockSize) = {seg1} \cap Segment
  BY DEF NextSingle
<1> HIDE DEF e
<1>3. later # {} => m \in later /\ \A j \in later : m <= j
  <2>1. later \subseteq Nat
    <3>1. AllUnits \subseteq Nat
      BY SizeAssumption DEF AllUnits
    <3> QED BY Zenon, <3>1
  <2>2. later # {} => \E i \in later : \A j \in later : i <= j
    BY Zenon, <2>1, Least
  <2> QED BY Zenon, <2>2
<1> HIDE DEF later, m
<1>4. PICK k \in Nat : e = k * BlockSize
  <2>1. Size \in Nat
    BY SizeAssumption
  <2>2. \E r \in Nat : Size = r * BlockSize
    BY <1>b, <2>1, GridSum
  <2> QED BY <1>1, <2>2 DEF OnGrid
<1>5. roundDown(e, BlockSize) = e
  <2>1. e \in Nat
    BY <1>1, SizeAssumption
  <2>2. PICK q \in Nat : roundDown(e, BlockSize) = q * BlockSize /\ \A i \in Nat : e = i * BlockSize => i = q
    BY Zenon, <1>b, <2>1, RoundDownGrid
  <2> QED BY <1>4, <2>2
<1>6. /\ gapEnd \in 0 .. Size /\ OnGrid(gapEnd) /\ (e < Size => e < gapEnd)
      /\ (e .. (gapEnd - 1)) \cap D = {}
  <2>1. CASE later = {}
    <3>1. \A i \in D : i \in Nat /\ i < e
      <4>1. \A i \in D : i \in Nat /\ ~(i > e) /\ i # e
        BY <1>1, <2>1, SizeAssumption DEF later, AllUnits
      <4> QED BY <1>1, <4>1, SizeAssumption
    <3>2. gapEnd = Size
      BY <2>1
    <3> QED BY <1>1, <3>1, <3>2, SizeAssumption DEF OnGrid
  <2>2. CASE later # {}
    <3>1. /\ m \in D /\ m \in 0 .. (Size - 1) /\ e < m /\ m \in AllUnits
          /\ \A i \in D : i > e => m <= i
      BY ZenonT(40), <1>1, <1>3, <2>2, SizeAssumption DEF later, AllUnits
    <3>2. PICK q \in Nat : /\ m \in Block(q) /\ q * BlockSize \in Nat /\ q * BlockSize <= m
                           /\ m < q * BlockSize + BlockSize
      BY <3>1, BlockOf
    <3>3. Block(q) \subseteq D
      BY <3>1, <3>2 DEF Blockwise
    <3>4. q * BlockSize = m
      <4> SUFFICES ASSUME q * BlockSize < m PROVE FALSE
        BY <3>1, <3>2, SizeAssumption
      <4>1. m - 1 \in Block(q)
        BY <1>b, <3>1, <3>2, SizeAssumption DEF Block, AllUnits
      <4>2. m - 1 \in D /\ m - 1 # e
        BY <1>1, <3>3, <4>1
      <4> QED BY <1>1, <3>1, <4>2, SizeAssumption
    <3>5. gapEnd = m
      <4>1. m \in Nat /\ gapEnd = roundUp(m, BlockSize)
        BY <2>2, <3>1, SizeAssumption
      <4>2. /\ roundUp(m, BlockSize) \in Nat /\ m <= roundUp(m, BlockSize)
            /\ m <= q * BlockSize => roundUp(m, BlockSize) <= q * BlockSize
        BY Zenon, <1>b, <3>2, <4>1, RoundUpLeast
      <4> QED BY <3>4, <4>1, <4>2
    <3> HIDE DEF gapEnd
    <3>6. (e .. (m - 1)) \cap D = {}
      BY <1>1, <3>1, SizeAssumption
    <3> QED BY <3>1, <3>2, <3>4, <3>5, <3>6, SizeAssumption DEF OnGrid
  <2> QED BY <2>1, <2>2
<1> HIDE DEF gapEnd
<1>7. seg1 = <<e, gapEnd>>
  <2>1. Lesser(Size, gapEnd) = gapEnd
    BY <1>6, SizeAssumption DEF Lesser
  <2> QED BY <1>5, <2>1
<1> HIDE DEF seg1
<1>8. ASSUME seg1 \in Segment PROVE NewBlocks(seg1, D)
  <2>1. seg1[1] = e /\ seg1[2] = gapEnd /\ Units(seg1) = e .. (gapEnd - 1)
    BY <1>1, <1>6, <1>7, SizeAssumption DEF Units, Whole
  <2> QED BY <1>1, <1>6, <2>1 DEF NewBlocks
<1>9. ASSUME D # AllUnits PROVE seg1 \in Segment
  <2>1. e # Size
    BY Zenon, <1>1, <1>9 DEF AllUnits
  <2> QED BY <1>1, <1>6, <1>7, <2>1, SizeAssumption DEF Segment
<1> QED BY <1>2, <1>8, <1>9

\* getNextSegmentL returns whole blocks of which nothing is done.
LEMMA SearchGrid ==
    ASSUME TypeOK, blockSize = BlockSize, Blockwise(done),
           NEW t \in Targets, NEW s \in NextSegments(t)
    PROVE  NewBlocks(s, done)
<1>1. done \in SUBSET AllUnits
  BY DEF TypeOK
<1> QED BY <1>1, SearchCases, SingleGrid, ForwardGrid, BackwardGrid

\* What is done is made of whole blocks, and so is what is held; nothing of the
\* latter is done.
GridInv ==
    /\ Blockwise(done)
    /\ \A c \in Conns : pc[c] \in Holding => NewBlocks(seg[c], done)

\* A put adds whole blocks: a transfer that breaks off is cut at a block of the
\* tree, which is a block of the item.
LEMMA GainsBlocks ==
    ASSUME Even, HoldInv, GridInv, NEW c \in Conns, NEW n \in Nat, Gains(c, n)
    PROVE  Blockwise(done')
<1>b. BlockSize \in Nat \ {0} /\ TreeBlock = BlockSize
  BY BlockAssumption DEF Even
<1>1. /\ seg[c] \in Segment /\ NewBlocks(seg[c], done) /\ n \in 1 .. (seg[c][2] - seg[c][1])
      /\ done' = done \cup Units(<<seg[c][1], seg[c][1] + n>>)
  BY DEF Gains, HoldInv, LeaseInv, CalmInv, GridInv, Holding
<1>u. Units(<<seg[c][1], seg[c][1] + n>>) = seg[c][1] .. (seg[c][1] + n - 1)
  BY <1>1, BeginUnits
<1> DEFINE x == seg[c][1]
           y == seg[c][1] + n
<1>2. x \in 0 .. Size /\ y \in 0 .. Size /\ x # Size
  <2>1. /\ seg[c][1] \in 0 .. Size /\ seg[c][2] \in 0 .. Size /\ seg[c][1] < seg[c][2]
        /\ n \in 1 .. (seg[c][2] - seg[c][1])
    BY <1>1 DEF Segment
  <2> QED BY <2>1, SizeAssumption
<1>3. PICK k \in Nat : x = k * BlockSize
  BY <1>1, <1>2 DEF NewBlocks, OnGrid
<1>4. OnGrid(y)
  <2>1. CASE n = seg[c][2] - seg[c][1]
    <3>1. y = seg[c][2]
      BY <1>1, <2>1, SizeAssumption DEF Segment
    <3> QED BY <1>1, <3>1 DEF NewBlocks
  <2>2. ASSUME NEW m \in Nat, n = m - (m % BlockSize) PROVE OnGrid(y)
    <3>1. PICK q \in Nat : m % BlockSize = m - q * BlockSize
      BY ZenonT(40), <1>b, Quotient
    <3>2. n = q * BlockSize
      BY <1>b, <2>2, <3>1
    <3>3. k * BlockSize + q * BlockSize = (k + q) * BlockSize /\ k + q \in Nat
      BY <1>b, GridAdd
    <3> QED BY <1>3, <3>2, <3>3 DEF OnGrid
  <2> QED BY <1>b, <2>1, <2>2 DEF Gains
<1>5. OnGrid(x)
  BY <1>1 DEF NewBlocks
<1>6. Units(<<x, y>>) = x .. (y - 1)
  BY <1>1, <1>2, <1>u, SizeAssumption
<1> HIDE DEF x, y
<1>7. Blockwise(x .. (y - 1))
  BY <1>2, <1>4, <1>5, RangeBlockwise
<1>8. done' = done \cup (x .. (y - 1))
  BY <1>1, <1>6 DEF x, y
<1>9. Blockwise(done)
  BY DEF GridInv
<1> HIDE DEF Block
<1> QED BY <1>7, <1>8, <1>9 DEF Blockwise

\* The search and the puts keep to the blocks.
LEMMA GridStep ==
    ASSUME Even, HoldInv, GridInv, [Next]_vars
    PROVE  GridInv'
<1>1. /\ TypeOK /\ CalmInv /\ PutInv /\ blockSize = BlockSize
      /\ EntryInv /\ LeaseInv /\ MissingInv
  BY DEF HoldInv, EntryInv, DataInv, LeaseInv, CalmInv
<1>2. Blockwise(done')
  <2>1. CASE done' = done
    BY <2>1 DEF GridInv
  <2>2. CASE \E c \in Conns, n \in Nat : Gains(c, n)
    BY <2>2, GainsBlocks
  <2> QED BY <1>1, <2>1, <2>2, StepGains
<1>3. ASSUME NEW e \in Conns, pc'[e] \in Holding PROVE NewBlocks(seg'[e], done')
  <2>1. CASE done' = done /\ \E t \in Targets : seg'[e] \in NextSegments(t)
    BY <1>1, <2>1, SearchGrid DEF GridInv
  <2>2. CASE pc[e] \in Holding /\ seg'[e] = seg[e]
    <3>1. NewBlocks(seg[e], done)
      BY <2>2 DEF GridInv
    <3>2. CASE done' = done
      BY <2>2, <3>1, <3>2
    <3>3. ASSUME NEW c \in Conns, NEW n \in Nat, Gains(c, n)
          PROVE  Units(seg[e]) \cap done' = Units(seg[e]) \cap done
      BY <1>1, <1>3, <2>2, <3>3, GainsOwn
    <3>4. CASE \E c \in Conns, n \in Nat : Gains(c, n)
      BY <2>2, <3>1, <3>3, <3>4 DEF NewBlocks
    <3> QED BY <1>1, <3>2, <3>4, StepGains
  <2> QED BY <1>1, <1>3, <2>1, <2>2, HoldersStep
<1> QED BY <1>2, <1>3 DEF GridInv

\* Whatever the threads do, what is done and what is held is made of blocks.
LEMMA GridInvAlways ==
    ASSUME Even
    PROVE  Spec => [](HoldInv /\ GridInv)
<1>1. Init => GridInv
  BY DEF Init, GridInv, Blockwise, Holding
<1>2. HoldInv /\ GridInv /\ [Next]_vars => GridInv'
  BY GridStep
<1>3. Calm
  BY DEF Even
<1>4. Spec => []HoldInv
  BY <1>3, HoldInvAlways
<1> QED BY <1>1, <1>2, <1>4, PTL DEF Spec

\* doneSegmentsSize counts what is done: a first put never brings what is there
\* already, for any file, number of connections and order of their steps, if the
\* tree has the blocks of the item.
THEOREM DoneSizeExactAlways ==
    ASSUME Even
    PROVE  Spec => []DoneSizeExact
<1>1. Init => DoneSizeExact
  BY DEF Init, DoneSizeExact
<1>2. ASSUME HoldInv, GridInv, DoneSizeExact, [Next]_vars PROVE DoneSizeExact'
  <2>1. TypeOK /\ CalmInv /\ PutInv
    BY <1>2 DEF HoldInv, EntryInv, DataInv, LeaseInv
  <2>2. CASE "first" \in miscounted' => "first" \in miscounted
    BY <1>2, <2>2 DEF DoneSizeExact
  <2>3. ASSUME NEW c \in Conns, NEW n \in Nat, Gains(c, n) PROVE DoneSizeExact'
    <3>1. /\ seg[c] \in Segment /\ NewBlocks(seg[c], done) /\ n \in 1 .. (seg[c][2] - seg[c][1])
      BY <1>2, <2>3 DEF Gains, HoldInv, LeaseInv, CalmInv, GridInv, Holding
    <3>2. /\ Units(<<seg[c][1], seg[c][1] + n>>) \subseteq Units(seg[c])
          /\ seg[c][1] \in Units(<<seg[c][1], seg[c][1] + n>>)
      BY <3>1, BeginUnits
    <3>3. ~(Units(<<seg[c][1], seg[c][1] + n>>) \subseteq done)
      BY Zenon, <3>1, <3>2 DEF NewBlocks
    <3>4. miscounted' = miscounted
      BY Zenon, <2>3, <3>3 DEF Gains
    <3> QED BY <1>2, <3>4 DEF DoneSizeExact
  <2> QED BY <1>2, <2>1, <2>2, <2>3, StepGains
<1>3. HoldInv /\ GridInv /\ DoneSizeExact /\ [Next]_vars => DoneSizeExact'
  BY <1>2
<1>4. Spec => [](HoldInv /\ GridInv)
  BY GridInvAlways
<1> QED BY <1>1, <1>3, <1>4, PTL DEF Spec

Finishing == {"check", "complete", "unlist", "unqueue"}

\* The thread that is about to finish a complete file goes on until the item is
\* out of the queue.
LEMMA FinishingStays ==
    ASSUME Calm, TypeOK, CalmInv, done = AllUnits, [Next]_vars, queued',
           NEW c \in Conns, pc[c] \in Finishing
    PROVE  pc'[c] \in Finishing
<1>1. ASSUME NEW e \in Conns, CheckFinished(e) \/ Complete(e) \/ CompleteUnlist(e)
      PROVE  pc'[c] \in Finishing
  <2>1. \E l \in Finishing : pc' = [pc EXCEPT ![e] = l]
    BY <1>1 DEF CheckFinished, Complete, CompleteUnlist, Goto, Finishing
  <2> QED BY <2>1 DEF TypeOK
<1>2. ASSUME NEW e \in Conns, CompleteUnqueue(e) PROVE FALSE
  BY <1>2 DEF CompleteUnqueue, Unqueue
<1>3. ASSUME NEW e \in Conns,
             \/ GetDownload(e) \/ StartData(e) \/ FinishFile(e) \/ FinishTree(e) \/ Fail(e)
             \/ BadSource(e) \/ Release(e) \/ PutAgain(e)
      PROVE  pc'[c] \in Finishing
  <2>1. pc[e] \notin Finishing
    BY Zenon, <1>3 DEF GetDownload, GetNext, TreeFound, TreeMissing, Unreserve, SelectAgain, Attach,
       Register, StartData, FinishFile, FinishTree, Fail, BadSource, Release, PutAgain, Finishing
  <2>2. \E l \in PCs : pc' = [pc EXCEPT ![e] = l]
    BY Zenon, <1>3 DEF GetDownload, GetNext, TreeFound, TreeMissing, Unreserve, SelectAgain, Attach,
       Register, StartData, FinishFile, FinishTree, Fail, BadSource, Release, PutAgain, PutBack,
       GoOn, Stay, Goto, Leave, PCs
  <2> QED BY <2>1, <2>2 DEF TypeOK
<1>4. CASE UserStep \/ UNCHANGED vars \/ \E e \in Conns : Reconnect(e)
  <2>1. UNCHANGED pc
    BY ZenonT(40), <1>4 DEF UserStep, RemoveSource, AddSource, RemoveTarget, RemoveTargetUnlist,
       RemoveTargetUnqueue, Disconnect, Pause, AbortDownload, Resume, Reconnect, local, vars
  <2> QED BY <2>1
<1> QED BY ZenonT(40), <1>1, <1>2, <1>3, <1>4 DEF Next, PutDownload

\* putDownload looks for completion only after a transfer that succeeds, and that
\* is enough: a transfer that breaks off never brings the last missing unit, if
\* the end of the data is the end of the transfer and the tree has the blocks of
\* the item.  Nor is a complete file ever forgotten by the thread that found it.
THEOREM CompletionPendingAlways ==
    ASSUME Even, ~Compressed
    PROVE  Spec => []CompletionPending
<1>1. Init => CompletionPending
  <2>1. 0 \in AllUnits
    BY SizeAssumption DEF AllUnits
  <2> QED BY <2>1 DEF Init, CompletionPending
<1>2. ASSUME HoldInv, GridInv, CompletionPending, [Next]_vars PROVE CompletionPending'
  <2> SUFFICES ASSUME queued', done' = AllUnits PROVE \E c \in Conns : pc'[c] \in Finishing
    BY DEF CompletionPending, Finishing
  <2>1. TypeOK /\ CalmInv /\ PutInv /\ upc = "idle" /\ Calm
    BY <1>2 DEF HoldInv, EntryInv, DataInv, LeaseInv, CalmInv, Even
  <2>2. CASE done' = done
    <3>1. queued
      BY <1>2, <2>1, StaysUnqueued
    <3>2. PICK c \in Conns : pc[c] \in Finishing
      BY <1>2, <2>1, <2>2, <3>1 DEF CompletionPending, Finishing
    <3> QED BY <1>2, <2>1, <2>2, <3>2, FinishingStays
  <2>3. ASSUME NEW c \in Conns, NEW n \in Nat, Gains(c, n) PROVE pc'[c] \in Finishing
    <3>1. /\ seg[c] \in Segment /\ NewBlocks(seg[c], done) /\ n \in 1 .. (seg[c][2] - seg[c][1])
          /\ done' = done \cup Units(<<seg[c][1], seg[c][1] + n>>)
      BY <1>2, <2>3 DEF Gains, HoldInv, LeaseInv, CalmInv, GridInv, Holding
    <3>2. /\ Units(<<seg[c][1], seg[c][1] + n>>) = seg[c][1] .. (seg[c][1] + n - 1)
          /\ Units(seg[c]) = seg[c][1] .. (seg[c][2] - 1)
      BY <3>1, BeginUnits
    <3>3. CASE n < seg[c][2] - seg[c][1]
      <4> DEFINE a == seg[c][1]  b == seg[c][2]
      <4>5. \A s \in Segment : s[1] \in Nat /\ s[2] \in Nat /\ s[2] <= Size
        BY SizeAssumption DEF Segment
      <4>3. a \in Nat /\ b \in Nat /\ b <= Size /\ n < b - a
        BY Zenon, <3>1, <3>3, <4>5
      <4> HIDE DEF a, b
      <4>4. a + n \in a .. (b - 1) /\ a + n \in AllUnits /\ a + n \notin a .. (a + n - 1)
        BY <4>3, SizeAssumption DEF AllUnits
      <4>1. /\ seg[c][1] + n \in Units(seg[c]) /\ seg[c][1] + n \in AllUnits
            /\ seg[c][1] + n \notin Units(<<seg[c][1], seg[c][1] + n>>)
        BY Zenon, <3>2, <4>4 DEF a, b
      <4>2. seg[c][1] + n \notin done
        BY <3>1, <4>1 DEF NewBlocks
      <4> QED BY <3>1, <4>1, <4>2
    <3>4. CASE pc'[c] = "check"
      BY <3>4 DEF Finishing
    <3> QED BY <2>3, <3>3, <3>4 DEF Gains
  <2> QED BY <1>2, <2>1, <2>2, <2>3, StepGains
<1>3. HoldInv /\ GridInv /\ CompletionPending /\ [Next]_vars => CompletionPending'
  BY <1>2
<1>4. Spec => [](HoldInv /\ GridInv)
  BY GridInvAlways
<1> QED BY <1>1, <1>3, <1>4, PTL DEF Spec

\* With a tree of the blocks of the item the search for one connection per file
\* finds something too, so that the setting may change at any time.
THEOREM NeverStuckEven ==
    ASSUME Even
    PROVE  Spec => []NeverStuck
<1>1. ASSUME HoldInv, GridInv PROVE NeverStuck
  <2> SUFFICES ASSUME downloads = {}, done # AllUnits, MaxSegments > 0,
                      NEW t \in Targets, {} \in SearchResults(t)
               PROVE  FALSE
    BY DEF NeverStuck
  <2> DEFINE target == Greater(blockSize, roundDown(t, blockSize))
  <2>1. /\ t \in Nat /\ blockSize \in Nat \ {0} /\ done \in SUBSET AllUnits
        /\ MaxSegments \in Nat /\ blockSize = BlockSize /\ Blockwise(done)
    BY <1>1, TargetsAssumption, LimitsAssumption
    DEF HoldInv, EntryInv, DataInv, TypeOK, LeaseInv, CalmInv, GridInv
  <2>2. target \in Nat /\ blockSize <= target
    BY <2>1, TargetSize
  <2>3. ~(Cardinality(downloads) >= MaxSegments)
    BY <2>1, NoneCounted
  <2>4. SegsOf(downloads) = {}
    BY DEF SegsOf
  <2>5. PICK multi \in MultiChunk : {} \in SearchResult(t, multi)
    BY Zenon DEF SearchResults
  <2> HIDE DEF target
  <2>6. CASE multi = FALSE
    <3>1. {} = NextSingle(done, {}, BlockSize) /\ Size % BlockSize = 0
      BY Zenon, <2>1, <2>4, <2>5, <2>6, SingleAssumption DEF SearchResult
    <3> QED BY <2>1, <3>1, SingleGrid
  <2>7. CASE multi = TRUE
    <3>1. \/ {} = NextForward(done, {}, blockSize, target)
          \/ {} = NextBackward(done, {}, blockSize, target)
      BY <2>3, <2>4, <2>5, <2>7, Zenon DEF SearchResult, target
    <3> QED BY <2>1, <2>2, <3>1, ForwardFinds, BackwardFinds
  <2> QED BY ZenonT(40), <2>5, <2>6, <2>7, FlagsAssumption
<1>2. HoldInv /\ GridInv => NeverStuck
  BY <1>1
<1>3. Spec => [](HoldInv /\ GridInv)
  BY GridInvAlways
<1> QED BY <1>2, <1>3, PTL
=============================================================================
