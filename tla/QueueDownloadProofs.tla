------------------------- MODULE QueueDownloadProofs -------------------------
(***************************************************************************)
(* Proofs about QueueDownload, for any file size, number of connections,    *)
(* block sizes, chunk sizes and requests of the user.                       *)
(***************************************************************************)
EXTENDS QueueDownload, TLAPS

USE SMTT(20), ZenonT(20)

-----------------------------------------------------------------------------
(* What the searches of Segments return.                                     *)

\* roundUp exceeds its argument by less than a block.
LEMMA RoundUpBound ==
    ASSUME NEW n \in Nat, NEW b \in Nat \ {0}
    PROVE  roundUp(n, b) \in Int /\ roundUp(n, b) < n + b
  BY DEF roundUp

\* getNextSegmentForward returns a segment that overlaps nothing in S.
LEMMA ForwardFree ==
    ASSUME NEW D, NEW S, NEW bs \in Nat \ {0}, NEW t \in Int,
           NEW s \in NextForward(D, S, bs, t)
    PROVE  s \in Segment /\ Unclaimed(s, S)
<1> PICK i \in 0 .. (Size - 1), n \in bs .. t :
         s = <<i, Lesser(Size, i + n)>> /\ FitsForward(D, S, bs, i, n)
  BY DEF NextForward
<1>1. s \in Segment
  BY SizeAssumption DEF Segment, Lesser
<1> QED BY <1>1 DEF FitsForward

\* getNextSegmentBackward returns a segment that overlaps nothing in S.
LEMMA BackwardFree ==
    ASSUME NEW D, NEW S, NEW bs \in Nat \ {0}, NEW t \in Int,
           NEW s \in NextBackward(D, S, bs, t)
    PROVE  s \in Segment /\ Unclaimed(s, S)
<1> DEFINE tail == RunStart(D, Size)
           last == IF tail \in 1 .. (Size - 1) THEN tail ELSE roundUp(Size, bs)
<1>1. last \in Int /\ last < Size + bs
  BY SMTT(40), SizeAssumption, RoundUpBound
<1> HIDE DEF last
<1> PICK e \in 1 .. last, n \in bs .. t :
         s = <<Greater(0, e - n), Lesser(e, Size)>> /\ FitsBackward(D, S, bs, e, n)
  BY DEF NextBackward, last
<1>2. s \in Segment
  BY <1>1, SizeAssumption DEF Segment, Lesser, Greater
<1> QED BY <1>2 DEF FitsBackward

\* The search for one connection returns a segment, and only if nothing runs.
LEMMA SingleFree ==
    ASSUME NEW D, NEW S, NEW bs, NEW s \in NextSingle(D, S, bs)
    PROVE  s \in Segment /\ Unclaimed(s, S)
  BY DEF NextSingle, Unclaimed

\* getNextSegmentL returns a segment that overlaps no running one.
LEMMA SearchFree ==
    ASSUME TypeOK, NEW t \in Targets, NEW s \in NextSegments(t)
    PROVE  s \in Segment /\ Unclaimed(s, SegsOf(downloads))
<1> DEFINE target == Greater(blockSize, roundDown(t, blockSize))
<1>1. t \in Nat /\ blockSize \in Nat \ {0}
  BY TargetsAssumption DEF TypeOK
<1>2. target \in Int
  BY <1>1 DEF Greater, roundDown
<1> HIDE DEF target
<1>3. \/ s \in NextSingle(done, SegsOf(downloads), blockSize)
      \/ s \in NextForward(done, SegsOf(downloads), blockSize, target)
      \/ s \in NextBackward(done, SegsOf(downloads), blockSize, target)
  BY DEF NextSegments, SearchResults, SearchResult, target
<1> QED BY <1>1, <1>2, <1>3, ForwardFree, BackwardFree, SingleFree

\* The units of a segment are units of the file.
LEMMA UnitsInFile ==
    ASSUME NEW s \in Segment \cup {Whole}
    PROVE  /\ Units(s) \subseteq AllUnits
           /\ s \in Segment => SizeOf(s) = s[2] - s[1]
           /\ s = Whole => SizeOf(s) = Size
<1>1. CASE s = Whole
  <2>1. s \notin Segment
    BY <1>1 DEF Segment, Whole
  <2> QED BY <1>1, <2>1 DEF Units, AllUnits, SizeOf
<1>2. CASE s \in Segment
  <2>1. s[1] \in 0 .. Size /\ s[2] \in 0 .. Size /\ s[1] < s[2] /\ s # Whole
    BY <1>2, SizeAssumption DEF Segment, Whole
  <2>2. Units(s) = s[1] .. (s[2] - 1) /\ SizeOf(s) = s[2] - s[1]
    BY <2>1 DEF Units, SizeOf
  <2> QED BY <2>1, <2>2, SizeAssumption DEF AllUnits
<1> QED BY <1>1, <1>2

\* addSegmentL adds the units of the segment.
LEMMA AddSegmentUnits ==
    ASSUME NEW s, NEW put \in {"first", "again"}, AddSegment(s, put),
           miscounted \subseteq {"first", "again"}
    PROVE  done' = done \cup Units(s) /\ miscounted' \subseteq {"first", "again"}
<1>1. done' = done \cup Units(s)
  BY DEF AddSegment
<1>2. miscounted' = miscounted \/ miscounted' = miscounted \cup {put}
  BY Zenon DEF AddSegment
<1> QED BY ZenonT(40), <1>1, <1>2

\* A segment that starts at s and has n units, of which k are kept.
LEMMA SegmentRange ==
    ASSUME TypeOK, NEW c \in Conns, NEW n \in 0 .. SizeOf(seg[c])
    PROVE  seg[c][1] \in 0 .. Size /\ seg[c][1] + n <= Size /\ n \in Nat
<1>1. seg[c] \in Segment \cup {Whole}
  BY DEF TypeOK
<1>2. CASE seg[c] = Whole
  BY <1>2, UnitsInFile, SizeAssumption DEF Whole
<1>3. CASE seg[c] \in Segment
  <2>1. seg[c][1] \in 0 .. Size /\ seg[c][2] \in 0 .. Size
    BY <1>3 DEF Segment
  <2>2. SizeOf(seg[c]) = seg[c][2] - seg[c][1]
    BY <1>3, UnitsInFile
  <2> QED BY <2>1, <2>2, SizeAssumption
<1> QED BY <1>1, <1>2, <1>3

\* What is kept of a Download is a segment, or nothing.
LEMMA KeptType ==
    ASSUME TypeOK, NEW c \in Conns, NEW n \in 0 .. SizeOf(seg[c])
    PROVE  Kept(c, n) \in Segment \cup {Whole}
<1> DEFINE s == seg[c][1]
           k == IF seg[c] = Whole THEN n ELSE n - (n % TreeBlock)
<1>1. s \in 0 .. Size /\ s + n <= Size /\ n \in Nat
  BY SegmentRange
<1>2. k \in Int /\ k <= n
  BY <1>1, BlockAssumption
<1>3. Kept(c, n) = IF k > 0 THEN <<s, s + k>> ELSE Whole
  BY DEF Kept
<1> HIDE DEF k, s
<1>4. k > 0 => <<s, s + k>> \in Segment
  BY <1>1, <1>2, SizeAssumption DEF Segment
<1> QED BY <1>3, <1>4

\* The units of a segment are 0 to its size in number.
LEMMA UnitCount ==
    ASSUME TypeOK, NEW c \in Conns
    PROVE  SizeOf(seg[c]) \in Nat
<1>1. seg[c] \in Segment \cup {Whole}
  BY DEF TypeOK
<1>2. CASE seg[c] = Whole
  BY <1>2, UnitsInFile, SizeAssumption DEF Whole
<1>3. CASE seg[c] \in Segment
  <2>1. seg[c][1] \in 0 .. Size /\ seg[c][2] \in 0 .. Size /\ seg[c][1] < seg[c][2]
    BY <1>3 DEF Segment
  <2> QED BY <1>3, <2>1, UnitsInFile, SizeAssumption
<1> QED BY <1>1, <1>2, <1>3

\* Nothing is kept of a Download of which nothing arrived.
LEMMA KeptNothing ==
    ASSUME TypeOK, NEW c \in Conns
    PROVE  Kept(c, 0) = Whole
  BY BlockAssumption DEF Kept

-----------------------------------------------------------------------------
(* Type correctness and what is received.                                    *)

\* A broken transfer keeps units of the file, all of them received.
LEMMA FailAfterKeeps ==
    ASSUME TypeOK, DoneReceived, NEW c \in Conns,
           NEW n \in 0 .. SizeOf(seg[c]), FailAfter(c, n)
    PROVE  /\ done' \subseteq AllUnits /\ received' \subseteq AllUnits
           /\ miscounted' \subseteq {"first", "again"}
           /\ DoneReceived' /\ done \subseteq done'
<1> DEFINE s == seg[c][1]
           kept == IF seg[c] = Whole THEN n ELSE n - (n % TreeBlock)
<1>1. seg[c] \in Segment \cup {Whole} /\ done \subseteq AllUnits /\ received \subseteq AllUnits
      /\ miscounted \subseteq {"first", "again"}
  BY DEF TypeOK
<1>2. s \in 0 .. Size /\ s + n <= Size /\ n \in Nat
  BY SegmentRange
<1>3. kept \in Int /\ kept <= n
  BY <1>2, BlockAssumption
<1>4. CASE queued /\ kept > 0
  <2>1. /\ AddSegment(<<s, s + kept>>, "first")
        /\ received' = received \cup ((s .. (s + n - 1)) \cap done')
    BY <1>4 DEF FailAfter
  <2> HIDE DEF kept, s
  <2>2. Units(<<s, s + kept>>) = s .. (s + kept - 1)
    BY <1>2, <1>3, <1>4 DEF Units, Whole
  <2>3. done' = done \cup (s .. (s + kept - 1)) /\ miscounted' \subseteq {"first", "again"}
    BY <1>1, <2>1, <2>2, AddSegmentUnits
  <2>4. (s .. (s + kept - 1)) \subseteq (s .. (s + n - 1))
        /\ (s .. (s + n - 1)) \subseteq AllUnits
    BY <1>2, <1>3, SizeAssumption DEF AllUnits
  <2> QED BY <1>1, <2>1, <2>3, <2>4 DEF DoneReceived
<1>5. CASE ~(queued /\ kept > 0)
  BY ZenonT(40), <1>1, <1>5 DEF FailAfter, DoneReceived
<1> QED BY <1>4, <1>5

\* Type correctness, and done data is data that arrived.
DataInv == TypeOK /\ DoneReceived

\* A step of getDownload keeps DataInv.
LEMMA GetDownloadKeepsData ==
    ASSUME DataInv, NEW c \in Conns, GetDownload(c)
    PROVE  DataInv'
<1> USE DEF DataInv
<1>1. CASE GetNext(c)
  <2> PICK t \in Targets : \E s \in NextSegments(t) :
         /\ downloads' = downloads \cup {[seg |-> s, d |-> NoConn]}
         /\ seg' = [seg EXCEPT ![c] = s]
    BY <1>1 DEF GetNext
  <2> PICK s \in NextSegments(t) :
         /\ downloads' = downloads \cup {[seg |-> s, d |-> NoConn]}
         /\ seg' = [seg EXCEPT ![c] = s]
    OBVIOUS
  <2>1. s \in Segment
    BY SearchFree
  <2> QED BY <1>1, <2>1 DEF GetNext, Goto, TypeOK, DoneReceived, Entry, PCs, item, tth, user
<1>2. CASE TreeFound(c)
  BY ZenonT(40), <1>2, BlockAssumption
  DEF TreeFound, Goto, TypeOK, DoneReceived, PCs, item, segs, user
<1>3. CASE TreeMissing(c)
  BY <1>3 DEF TreeMissing, Goto, TypeOK, DoneReceived, PCs, item, segs, tth, user
<1>4. CASE Unreserve(c)
  BY <1>4 DEF Unreserve, Goto, TypeOK, DoneReceived, PCs, item, tth, user
<1>5. CASE SelectAgain(c)
  <2>1. seg' \in [Conns -> Segment \cup {Whole}]
    BY <1>5, SearchFree DEF SelectAgain, Leave, TypeOK
  <2> QED BY ZenonT(30), <1>5, <2>1
          DEF SelectAgain, Leave, Goto, TypeOK, DoneReceived, PCs, item, segs, user
<1>6. CASE Attach(c)
  <2>1. downloads' \subseteq Entry
    BY <1>6 DEF Attach, TypeOK, Entry, SegmentEntries
  <2> QED BY <1>6, <2>1 DEF Attach, Goto, TypeOK, DoneReceived, PCs, item, tth, user
<1>7. CASE Register(c)
  BY <1>7 DEF Register, Goto, TypeOK, DoneReceived, PCs, item, segs, tth, user
<1> QED BY <1>1, <1>2, <1>3, <1>4, <1>5, <1>6, <1>7 DEF GetDownload

\* A step of the transfer or of putDownload keeps DataInv.
LEMMA PutDownloadKeepsData ==
    ASSUME DataInv, NEW c \in Conns,
           StartData(c) \/ PutDownload(c) \/ Reconnect(c)
    PROVE  DataInv'
<1> USE DEF DataInv
<1>1. CASE StartData(c) \/ Reconnect(c)
  BY ZenonT(40), <1>1 DEF StartData, Reconnect, Goto, TypeOK, DoneReceived, PCs, item, segs, tth, user, local
<1>2. CASE FinishFile(c)
  <2>1. seg[c] \in Segment \cup {Whole}
    BY DEF TypeOK
  <2>2. Units(<<0, Size>>) = Units(Whole)
    BY SizeAssumption DEF Units, Whole
  <2>3. Units(seg[c]) \subseteq AllUnits
    BY <2>1, UnitsInFile
  <2>4. CASE queued
    <3> DEFINE s == IF seg[c] = Whole THEN <<0, Size>> ELSE seg[c]
    <3> DEFINE n == SizeOf(seg[c])
    <3>1. AddSegment(s, "first") /\ received' = received \cup Units(seg[c]) /\ GoOn(c, "check", n)
      BY <1>2, <2>4 DEF FinishFile
    <3>2. Units(s) = Units(seg[c])
      BY <2>2
    <3> HIDE DEF s
    <3>3. done' = done \cup Units(seg[c]) /\ miscounted' \subseteq {"first", "again"}
      BY <3>1, <3>2, AddSegmentUnits DEF TypeOK
    <3>4. Kept(c, n) \in Segment \cup {Whole}
      BY UnitCount, KeptType
    <3> HIDE DEF n
    <3> QED BY <1>2, <2>3, <3>1, <3>3, <3>4
            DEF FinishFile, GoOn, Goto, TypeOK, DoneReceived, PCs, item, tth, user
  <2>5. CASE ~queued
    BY ZenonT(30), <1>2, <2>5 DEF FinishFile, Leave, TypeOK, DoneReceived, PCs, item, tth, user
  <2> QED BY <2>4, <2>5
<1>3. CASE FinishTree(c)
  BY ZenonT(40), <1>3 DEF FinishTree, Leave, Goto, TypeOK, DoneReceived, PCs, segs, user
<1>4. CASE Fail(c)
  <2>1. /\ done' \subseteq AllUnits /\ received' \subseteq AllUnits
        /\ miscounted' \subseteq {"first", "again"} /\ DoneReceived'
    BY ZenonT(40), <1>4, FailAfterKeeps DEF Fail, TypeOK, DoneReceived
  <2>2. PICK n \in 0 .. SizeOf(seg[c]) : PutBack(c, n)
    BY <1>4, UnitCount DEF Fail
  <2>3. Kept(c, n) \in Segment \cup {Whole}
    BY KeptType
  <2>4. /\ pc' \in [Conns -> PCs] /\ seg' \in [Conns -> Segment \cup {Whole}]
        /\ added' \in [Conns -> BOOLEAN] /\ kind' \in [Conns -> {"FILE", "TREE", "GOTTREE"}]
    <3>1. CASE GoOn(c, "release", n)
      BY <2>3, <3>1 DEF GoOn, Goto, TypeOK, PCs
    <3>2. CASE Leave(c)
      BY <3>2 DEF Leave, TypeOK, PCs
    <3> QED BY <2>2, <3>1, <3>2 DEF PutBack
  <2>5. UNCHANGED <<item, downloads, tth, running, closing, finished, user>>
    BY <1>4 DEF Fail
  <2> QED BY <2>1, <2>4, <2>5 DEF TypeOK, item, tth, user
<1>5. CASE BadSource(c)
  <2>1. /\ sources' \subseteq Conns /\ listed' \subseteq Conns /\ running' \subseteq Conns
        /\ downloads' \subseteq Entry
    BY <1>5 DEF BadSource, TakeSource, TypeOK
  <2>2. Kept(c, 0) = Whole
    BY KeptNothing
  <2> QED BY ZenonT(30), <1>5, <2>1, <2>2
          DEF BadSource, PutBack, GoOn, Leave, Goto, TypeOK, DoneReceived, PCs, tth, user
<1>6. CASE Release(c)
  BY ZenonT(40), <1>6 DEF Release, DropUser, Leave, Stay, Goto, TypeOK, DoneReceived, PCs, item, user
<1>7. CASE CheckFinished(c)
  BY <1>7 DEF CheckFinished, Goto, TypeOK, DoneReceived, PCs, item, segs, tth, user
<1>8. CASE Complete(c)
  <2>1. closing' \subseteq Conns
    BY <1>8 DEF Complete, TypeOK, Entry
  <2> QED BY <1>8, <2>1 DEF Complete, Goto, TypeOK, DoneReceived, PCs, item, segs, tth, user
<1>9. CASE CompleteUnlist(c)
  BY <1>9 DEF CompleteUnlist, Unlist, Goto, TypeOK, DoneReceived, PCs, tth, user
<1>10. CASE CompleteUnqueue(c)
  BY ZenonT(40), <1>10 DEF CompleteUnqueue, Unqueue, Leave, TypeOK, DoneReceived, PCs, tth, user
<1>11. CASE PutAgain(c)
  <2>1. Units(seg[c]) \subseteq AllUnits
    BY UnitsInFile DEF TypeOK
  <2>2. CASE queued
    <3>1. AddSegment(seg[c], "again") /\ received' = received \cup Units(seg[c])
      BY <1>11, <2>2 DEF PutAgain
    <3>2. done' = done \cup Units(seg[c]) /\ miscounted' \subseteq {"first", "again"}
      BY ZenonT(40), <3>1, AddSegmentUnits DEF TypeOK
    <3>3. Kept(c, 0) = Whole
      BY KeptNothing
    <3> QED BY <1>11, <2>1, <2>2, <3>1, <3>2, <3>3
            DEF PutAgain, GoOn, Goto, TypeOK, DoneReceived, PCs, item, tth, user
  <2>3. CASE ~queued
    BY ZenonT(30), <1>11, <2>3 DEF PutAgain, Leave, TypeOK, DoneReceived, PCs, item, tth, user
  <2> QED BY <2>2, <2>3
<1> QED BY <1>1, <1>2, <1>3, <1>4, <1>5, <1>6, <1>7, <1>8, <1>9, <1>10, <1>11 DEF PutDownload

\* A step of the user's requests keeps DataInv.
LEMMA UserStepKeepsData ==
    ASSUME DataInv, UserStep
    PROVE  DataInv'
<1> USE DEF DataInv
<1>1. ASSUME NEW c \in Conns, RemoveSource(c) \/ AddSource(c) PROVE DataInv'
  BY ZenonT(40), <1>1 DEF RemoveSource, TakeSource, AddSource, TypeOK, DoneReceived, segs, tth, local, user
<1>2. CASE RemoveTarget
  <2>1. doomed' \subseteq Conns
    BY <1>2 DEF RemoveTarget, TypeOK, Entry
  <2> QED BY <1>2, <2>1 DEF RemoveTarget, TypeOK, DoneReceived, segs, tth, local
<1>3. CASE RemoveTargetUnlist \/ RemoveTargetUnqueue
  BY ZenonT(40), <1>3 DEF RemoveTargetUnlist, RemoveTargetUnqueue, Unlist, Unqueue, TypeOK, DoneReceived,
              tth, local
<1>4. CASE Disconnect \/ Pause \/ AbortDownload \/ Resume
  BY ZenonT(30), <1>4
  DEF Disconnect, Pause, AbortDownload, Resume, TypeOK, DoneReceived, item, segs, tth,
              local, user
<1> QED BY <1>1, <1>2, <1>3, <1>4 DEF UserStep

\* DataInv is inductive.
LEMMA DataInvStep == DataInv /\ [Next]_vars => DataInv'
<1> SUFFICES ASSUME DataInv, [Next]_vars PROVE DataInv'
  OBVIOUS
<1>1. CASE UNCHANGED vars
  BY <1>1 DEF DataInv, TypeOK, DoneReceived, vars, item, segs, tth, local, user
<1> QED BY <1>1, GetDownloadKeepsData, PutDownloadKeepsData, UserStepKeepsData DEF Next

\* The queued item starts out well typed.
LEMMA DataInvInit == Init => DataInv
<1> SUFFICES ASSUME Init PROVE DataInv
  OBVIOUS
<1>1. tree \in BOOLEAN
  BY FlagsAssumption DEF Init
<1> QED BY ZenonT(40), <1>1, BlockAssumption DEF Init, DataInv, TypeOK, DoneReceived, PCs

\* Every reachable state is well typed and only data that arrived is done.
THEOREM DataInvAlways == Spec => []DataInv
<1>1. Init => DataInv
  BY DataInvInit
<1>2. DataInv /\ [Next]_vars => DataInv'
  BY DataInvStep
<1> QED BY <1>1, <1>2, PTL DEF Spec

\* getDownload, putDownload and the user's operations keep every variable in its
\* type, for any file size, block sizes and connections.
THEOREM TypeOKAlways == Spec => []TypeOK
<1>1. DataInv => TypeOK
  BY DEF DataInv
<1> QED BY <1>1, DataInvAlways, PTL

\* Only data that arrived is ever marked as done.
THEOREM DoneReceivedAlways == Spec => []DoneReceived
<1>1. DataInv => DoneReceived
  BY DEF DataInv
<1> QED BY <1>1, DataInvAlways, PTL

-----------------------------------------------------------------------------
(* The running segments.                                                     *)

\* Two different running segments never overlap: GetNext takes what is free and
\* no other step adds anything but the default Segment(), which overlaps nothing.
LEMMA DisjointStep ==
    ASSUME TypeOK, ReservedDisjoint, [Next]_vars
    PROVE  ReservedDisjoint'
<1>w. ASSUME NEW s \in Segment \cup {Whole} PROVE ~Overlaps(Whole, s) /\ ~Overlaps(s, Whole)
  BY SizeAssumption DEF Overlaps, Whole, Segment
<1>1. CASE downloads' \subseteq downloads
  BY <1>1 DEF ReservedDisjoint
<1>2. ASSUME NEW c \in Conns, GetNext(c) PROVE ReservedDisjoint'
  <2> PICK t \in Targets : \E s \in NextSegments(t) :
         downloads' = downloads \cup {[seg |-> s, d |-> NoConn]}
    BY <1>2 DEF GetNext
  <2> PICK s \in NextSegments(t) : downloads' = downloads \cup {[seg |-> s, d |-> NoConn]}
    OBVIOUS
  <2>1. \A x \in downloads : ~Overlaps(s, x.seg)
    BY SearchFree DEF Unclaimed, SegsOf
  <2>2. \A x \in downloads : ~Overlaps(x.seg, s)
    BY <2>1 DEF Overlaps
  <2> QED BY <2>1, <2>2 DEF ReservedDisjoint
<1>3. ASSUME NEW c \in Conns, Attach(c) PROVE ReservedDisjoint'
  <2>1. CASE \E x \in SegmentEntries(seg[c]) :
                downloads' = (downloads \ {x}) \cup {[x EXCEPT !.d = c]}
    <3> PICK x \in SegmentEntries(seg[c]) :
           downloads' = (downloads \ {x}) \cup {[x EXCEPT !.d = c]}
      BY <2>1
    <3> DEFINE y == [x EXCEPT !.d = c]
    <3>1. x \in downloads /\ y.seg = x.seg
      BY DEF SegmentEntries, TypeOK, Entry
    <3> HIDE DEF y
    <3> QED BY ZenonT(40), <3>1 DEF ReservedDisjoint, y
  <2>2. CASE downloads' = downloads \cup {[seg |-> Whole, d |-> c]}
    <3>1. \A x \in downloads : x.seg \in Segment \cup {Whole}
      BY DEF TypeOK, Entry
    <3> QED BY <1>w, <2>2, <3>1 DEF ReservedDisjoint
  <2> QED BY <1>1, <1>3, <2>1, <2>2 DEF Attach
<1>4. ASSUME NEW c \in Conns,
             \/ TreeFound(c) \/ TreeMissing(c) \/ Unreserve(c) \/ SelectAgain(c) \/ Register(c)
             \/ StartData(c) \/ PutDownload(c) \/ Reconnect(c)
      PROVE  downloads' \subseteq downloads
  BY Zenon, <1>4
  DEF TreeFound, TreeMissing, Unreserve, SelectAgain, Register, StartData, PutDownload,
     FinishFile, FinishTree, Fail, BadSource, TakeSource, Release, DropUser, PutAgain,
     CheckFinished, Complete, CompleteUnlist, Unlist, CompleteUnqueue, Unqueue, Reconnect, segs
<1>5. CASE UserStep
  <2>1. downloads' \subseteq downloads
    BY <1>5 DEF UserStep, RemoveSource, TakeSource, AddSource, RemoveTarget,
       RemoveTargetUnlist, Unlist, RemoveTargetUnqueue, Unqueue, Disconnect, Pause,
       AbortDownload, Resume, segs
  <2> QED BY SMTT(30), <1>1, <2>1
<1>6. CASE UNCHANGED vars
  BY <1>1, <1>6 DEF vars, segs
<1> QED BY <1>1, <1>2, <1>3, <1>4, <1>5, <1>6 DEF Next, GetDownload

\* For any file, connections and requests: the segments recorded for running
\* downloads never overlap.
THEOREM ReservedDisjointAlways == Spec => []ReservedDisjoint
<1>1. Init => ReservedDisjoint
  BY DEF Init, ReservedDisjoint
<1>2. DataInv /\ ReservedDisjoint /\ [Next]_vars => ReservedDisjoint'
  BY DisjointStep DEF DataInv
<1> QED BY <1>1, <1>2, DataInvAlways, PTL DEF Spec

-----------------------------------------------------------------------------
(* Who owns the running segments.                                            *)

\* The thread of c holds a reservation that it has not attached to a Download.
Holds(c) == pc[c] \in Reserving /\ added[c]

\* What the local variables of getDownload say about each other.
LocalInv ==
    \A c \in Conns :
       /\ pc[c] \in {"tree", "regrow", "unreserve"} => added[c]
       /\ pc[c] = "again" => ~added[c]
       /\ Holds(c) => seg[c] \in Segment

\* Each reservation that a thread holds is recorded, no two threads hold the
\* same, each recorded one is held, an entry with a Download is of a connection
\* that has not put it back, and no connection has two.
OwnerInv ==
    /\ \A c \in Conns : Holds(c) => [seg |-> seg[c], d |-> NoConn] \in downloads
    /\ \A c, e \in Conns : (Holds(c) /\ Holds(e) /\ seg[c] = seg[e]) => c = e
    /\ \A x \in downloads : x.d = NoConn => \E c \in Conns : Holds(c) /\ seg[c] = x.seg
    /\ \A x \in downloads : x.d # NoConn => pc[x.d] \in Recorded
    /\ \A x, y \in downloads : (x.d = y.d /\ x.d # NoConn) => x = y

\* The inductive invariant behind EntriesOwned.
EntryInv ==
    /\ DataInv
    /\ ReservedDisjoint
    /\ LocalInv
    /\ queued => OwnerInv

\* A segment overlaps itself.
LEMMA SelfOverlap ==
    ASSUME NEW s \in Segment
    PROVE  Overlaps(s, s)
  BY SizeAssumption DEF Segment, Overlaps

\* A step that changes no reservation and takes at most entries with a Download
\* away keeps the ownership, if those that remain are of threads that have a
\* Download.
LEMMA OwnerKept ==
    ASSUME OwnerInv, TypeOK,
           \A e \in Conns : Holds(e)' <=> Holds(e),
           \A e \in Conns : Holds(e) => seg'[e] = seg[e],
           downloads' \subseteq downloads,
           \A x \in downloads : x.d = NoConn => x \in downloads',
           \A x \in downloads' : x.d # NoConn => pc'[x.d] \in Recorded
    PROVE  OwnerInv'
<1>1. \A e \in Conns : Holds(e)' => [seg |-> seg'[e], d |-> NoConn] \in downloads'
  <2> SUFFICES ASSUME NEW e \in Conns, Holds(e)'
               PROVE  [seg |-> seg'[e], d |-> NoConn] \in downloads'
    OBVIOUS
  <2> DEFINE x == [seg |-> seg[e], d |-> NoConn]
  <2>1. x \in downloads /\ x.d = NoConn
    BY DEF OwnerInv
  <2> QED BY <2>1
<1>2. \A e, f \in Conns : (Holds(e)' /\ Holds(f)' /\ seg'[e] = seg'[f]) => e = f
  BY DEF OwnerInv
<1>3. \A x \in downloads' : x.d = NoConn => \E e \in Conns : Holds(e)' /\ seg'[e] = x.seg
  BY DEF OwnerInv
<1>4. \A x, y \in downloads' : (x.d = y.d /\ x.d # NoConn) => x = y
  BY DEF OwnerInv
<1> QED BY Zenon, <1>1, <1>2, <1>3, <1>4 DEF OwnerInv

\* The entries with the segment that a thread holds are just its reservation.
LEMMA HeldEntry ==
    ASSUME OwnerInv, TypeOK, ReservedDisjoint, LocalInv, NEW c \in Conns, Holds(c)
    PROVE  SegmentEntries(seg[c]) = {[seg |-> seg[c], d |-> NoConn]}
<1> DEFINE x == [seg |-> seg[c], d |-> NoConn]
<1>1. x \in downloads /\ x.seg = seg[c]
  BY DEF OwnerInv
<1>2. Overlaps(x.seg, x.seg)
  BY <1>1, SelfOverlap DEF LocalInv
<1> HIDE DEF x
<1>3. \A y \in downloads : y.seg = seg[c] => y = x
  BY SMTT(30), <1>1, <1>2 DEF ReservedDisjoint
<1> QED BY <1>1, <1>3 DEF SegmentEntries, x

\* GetNext: the new reservation is held by c alone.
LEMMA GetNextOwner ==
    ASSUME OwnerInv, TypeOK, LocalInv, NEW c \in Conns, GetNext(c)
    PROVE  OwnerInv'
<1> PICK t \in Targets : \E s \in NextSegments(t) :
       /\ downloads' = downloads \cup {[seg |-> s, d |-> NoConn]}
       /\ seg' = [seg EXCEPT ![c] = s]
  BY DEF GetNext
<1> PICK s \in NextSegments(t) :
       /\ downloads' = downloads \cup {[seg |-> s, d |-> NoConn]}
       /\ seg' = [seg EXCEPT ![c] = s]
  OBVIOUS
<1>1. s \in Segment /\ \A x \in downloads : ~Overlaps(s, x.seg)
  BY SearchFree DEF Unclaimed, SegsOf
<1>2. ~Holds(c) /\ Holds(c)' /\ seg'[c] = s /\ pc[c] \notin Recorded
  BY DEF GetNext, Goto, Holds, TypeOK, Reserving, Recorded
<1>3. \A e \in Conns \ {c} : /\ Holds(e)' <=> Holds(e)
                             /\ seg'[e] = seg[e] /\ pc'[e] = pc[e] /\ added'[e] = added[e]
  BY SMTT(30) DEF GetNext, Goto, Holds, TypeOK
<1>5. \A e \in Conns : Holds(e) => ~Overlaps(s, seg[e]) /\ seg[e] \in Segment
  <2> SUFFICES ASSUME NEW e \in Conns, Holds(e)
               PROVE  ~Overlaps(s, seg[e]) /\ seg[e] \in Segment
    OBVIOUS
  <2> DEFINE x == [seg |-> seg[e], d |-> NoConn]
  <2>1. x \in downloads /\ x.seg = seg[e]
    BY DEF OwnerInv
  <2> QED BY <1>1, <2>1 DEF LocalInv
<1>6. \A e \in Conns : Holds(e) => seg[e] # s
  BY ZenonT(40), <1>1, <1>5, SelfOverlap
<1> HIDE DEF Holds
<1>7. ASSUME NEW e \in Conns, Holds(e)' PROVE [seg |-> seg'[e], d |-> NoConn] \in downloads'
  <2>1. CASE e = c
    BY <1>2, <2>1
  <2>2. CASE e # c
    <3>1. Holds(e) /\ seg'[e] = seg[e]
      BY Zenon, <1>3, <1>7, <2>2
    <3>2. [seg |-> seg[e], d |-> NoConn] \in downloads
      BY Zenon, <3>1 DEF OwnerInv
    <3> QED BY <3>1, <3>2
  <2> QED BY <2>1, <2>2
<1>8. ASSUME NEW e \in Conns, NEW f \in Conns, Holds(e)', Holds(f)', seg'[e] = seg'[f]
      PROVE  e = f
  <2>1. CASE e # c /\ f # c
    <3>1. Holds(e) /\ Holds(f) /\ seg[e] = seg[f]
      BY Zenon, <1>3, <1>8, <2>1
    <3> QED BY Zenon, <3>1 DEF OwnerInv
  <2>2. CASE e = c /\ f # c
    BY ZenonT(40), <1>2, <1>3, <1>6, <1>8, <2>2
  <2>3. CASE e # c /\ f = c
    BY ZenonT(40), <1>2, <1>3, <1>6, <1>8, <2>3
  <2> QED BY Zenon, <2>1, <2>2, <2>3
<1>9. \A x \in downloads' : x.d = NoConn => \E e \in Conns : Holds(e)' /\ seg'[e] = x.seg
  <2> SUFFICES ASSUME NEW x \in downloads', x.d = NoConn
               PROVE  \E e \in Conns : Holds(e)' /\ seg'[e] = x.seg
    OBVIOUS
  <2>1. CASE x \in downloads
    BY SMTT(40), <1>2, <1>3, <2>1 DEF OwnerInv
  <2>2. CASE x = [seg |-> s, d |-> NoConn]
    BY <1>2, <2>2
  <2> QED BY <2>1, <2>2
<1>10. \A x \in downloads' : x.d # NoConn => x \in downloads /\ x.d \in Conns
  BY SMTT(30) DEF TypeOK, Entry
<1>11. \A x \in downloads' : x.d # NoConn => pc'[x.d] \in Recorded
  <2> SUFFICES ASSUME NEW x \in downloads', x.d # NoConn
               PROVE  pc'[x.d] \in Recorded
    OBVIOUS
  <2>1. x \in downloads /\ x.d \in Conns
    BY <1>10
  <2>2. pc[x.d] \in Recorded
    BY Zenon, <2>1 DEF OwnerInv
  <2>3. x.d # c
    BY <1>2, <2>2
  <2>4. pc'[x.d] = pc[x.d]
    BY <1>3, <2>1, <2>3
  <2> QED BY <2>2, <2>4
<1>12. \A x, y \in downloads' : (x.d = y.d /\ x.d # NoConn) => x = y
  BY ZenonT(40), <1>10 DEF OwnerInv
<1> QED BY <1>7, <1>8, <1>9, <1>11, <1>12 DEF OwnerInv

\* Unreserve: just the reservation of c goes.
LEMMA UnreserveOwner ==
    ASSUME OwnerInv, TypeOK, ReservedDisjoint, LocalInv, NEW c \in Conns, Unreserve(c)
    PROVE  OwnerInv'
<1> DEFINE r == [seg |-> seg[c], d |-> NoConn]
<1>1. Holds(c) /\ pc[c] \notin Recorded
  BY DEF Unreserve, LocalInv, Holds, Reserving, Recorded
<1>2. r \in downloads /\ r.d = NoConn /\ r.seg = seg[c]
  BY <1>1 DEF OwnerInv
<1>3. downloads' = downloads \ {r}
  BY <1>1, HeldEntry DEF Unreserve
<1>4. ~Holds(c)' /\ pc'[c] \notin Recorded
  BY DEF Unreserve, Goto, Holds, TypeOK, Recorded
<1>5. \A e \in Conns \ {c} : /\ Holds(e)' <=> Holds(e)
                             /\ seg'[e] = seg[e] /\ pc'[e] = pc[e] /\ added'[e] = added[e]
  BY DEF Unreserve, Goto, Holds, TypeOK
<1> HIDE DEF Holds, r
<1>7. \A e \in Conns : Holds(e)' => /\ e # c /\ Holds(e) /\ seg'[e] = seg[e]
                                    /\ seg[e] # seg[c]
  BY Zenon, <1>1, <1>4, <1>5 DEF OwnerInv
<1>8. \A e \in Conns : Holds(e)' => [seg |-> seg'[e], d |-> NoConn] \in downloads'
  <2> SUFFICES ASSUME NEW e \in Conns, Holds(e)'
               PROVE  [seg |-> seg'[e], d |-> NoConn] \in downloads'
    OBVIOUS
  <2> DEFINE x == [seg |-> seg[e], d |-> NoConn]
  <2>1. x \in downloads /\ x.seg = seg[e]
    BY <1>7 DEF OwnerInv
  <2> QED BY Zenon, <1>2, <1>3, <1>7, <2>1
<1>9. \A e, f \in Conns : (Holds(e)' /\ Holds(f)' /\ seg'[e] = seg'[f]) => e = f
  BY <1>7 DEF OwnerInv
<1>10. \A x \in downloads' : x.d = NoConn => \E e \in Conns : Holds(e)' /\ seg'[e] = x.seg
  <2> SUFFICES ASSUME NEW x \in downloads', x.d = NoConn
               PROVE  \E e \in Conns : Holds(e)' /\ seg'[e] = x.seg
    OBVIOUS
  <2>1. PICK e \in Conns : Holds(e) /\ seg[e] = x.seg
    BY <1>3 DEF OwnerInv
  <2>2. x = [seg |-> x.seg, d |-> NoConn]
    BY <1>3 DEF TypeOK, Entry
  <2>3. e # c
    BY <1>3, <2>1, <2>2 DEF r
  <2> QED BY <1>5, <2>1, <2>3
<1>11. \A x \in downloads' : x.d # NoConn => x.d \in Conns /\ x \in downloads
  BY SMTT(30), <1>3 DEF TypeOK, Entry
<1>12. \A x \in downloads' : x.d # NoConn => pc'[x.d] \in Recorded
  <2> SUFFICES ASSUME NEW x \in downloads', x.d # NoConn
               PROVE  pc'[x.d] \in Recorded
    OBVIOUS
  <2>1. x.d \in Conns /\ x \in downloads
    BY Zenon, <1>11
  <2>2. pc[x.d] \in Recorded
    BY Zenon, <2>1 DEF OwnerInv
  <2>3. x.d # c
    BY Zenon, <1>1, <2>2
  <2> QED BY Zenon, <1>5, <2>1, <2>2, <2>3
<1>13. \A x, y \in downloads' : (x.d = y.d /\ x.d # NoConn) => x = y
  BY <1>11 DEF OwnerInv
<1> QED BY <1>8, <1>9, <1>10, <1>12, <1>13 DEF OwnerInv

\* Attach: the reservation of c, or none, becomes the entry of its Download.
LEMMA AttachOwner ==
    ASSUME OwnerInv, TypeOK, ReservedDisjoint, LocalInv, NEW c \in Conns, Attach(c)
    PROVE  OwnerInv'
<1> DEFINE r == [seg |-> seg[c], d |-> NoConn]
           n == [seg |-> IF added[c] THEN seg[c] ELSE Whole, d |-> c]
<1>1. pc[c] \notin Recorded /\ (Holds(c) <=> added[c])
  BY SMTT(30) DEF Attach, Holds, Reserving, Recorded
<1>2. downloads' = (downloads \ (IF added[c] THEN {r} ELSE {})) \cup {n}
  <2>1. CASE added[c]
    <3>1. SegmentEntries(seg[c]) = {r}
      BY <1>1, <2>1, HeldEntry
    <3>2. [r EXCEPT !.d = c] = n
      BY <2>1
    <3> QED BY <2>1, <3>1, <3>2 DEF Attach
  <2>2. CASE ~added[c]
    BY <2>2 DEF Attach
  <2> QED BY <2>1, <2>2
<1>3. ~Holds(c)' /\ pc'[c] \in Recorded
  BY DEF Attach, Goto, Holds, TypeOK, Reserving, Recorded
<1>4. \A e \in Conns : seg'[e] = seg[e] /\ added'[e] = added[e]
  BY DEF Attach
<1>5. \A e \in Conns \ {c} : (Holds(e)' <=> Holds(e)) /\ pc'[e] = pc[e]
  BY DEF Attach, Goto, Holds, TypeOK
<1>7. n.d = c /\ c # NoConn /\ r.d = NoConn /\ r.seg = seg[c]
  BY ConnsAssumption
<1>8. \A x \in downloads : x.d # c
  BY SMTT(30), <1>1, <1>7 DEF OwnerInv
<1> HIDE DEF Holds, n, r
<1>9. \A e \in Conns : Holds(e)' => /\ e # c /\ Holds(e) /\ seg'[e] = seg[e]
                                    /\ added[c] => seg[e] # seg[c]
  BY <1>1, <1>3, <1>4, <1>5 DEF OwnerInv
<1>10. \A e \in Conns : Holds(e)' => [seg |-> seg'[e], d |-> NoConn] \in downloads'
  <2> SUFFICES ASSUME NEW e \in Conns, Holds(e)'
               PROVE  [seg |-> seg'[e], d |-> NoConn] \in downloads'
    OBVIOUS
  <2> DEFINE x == [seg |-> seg[e], d |-> NoConn]
  <2>1. x \in downloads /\ x.seg = seg[e]
    BY <1>9 DEF OwnerInv
  <2> QED BY SMTT(30), <1>2, <1>7, <1>9, <2>1
<1>11. \A e, f \in Conns : (Holds(e)' /\ Holds(f)' /\ seg'[e] = seg'[f]) => e = f
  BY <1>9 DEF OwnerInv
<1>12. \A x \in downloads' : x.d = NoConn => \E e \in Conns : Holds(e)' /\ seg'[e] = x.seg
  <2> SUFFICES ASSUME NEW x \in downloads', x.d = NoConn
               PROVE  \E e \in Conns : Holds(e)' /\ seg'[e] = x.seg
    OBVIOUS
  <2>1. x \in downloads /\ (added[c] => x # r)
    BY SMTT(30), <1>2, <1>7
  <2>2. PICK e \in Conns : Holds(e) /\ seg[e] = x.seg
    BY <2>1 DEF OwnerInv
  <2>3. x = [seg |-> x.seg, d |-> NoConn]
    BY <2>1 DEF TypeOK, Entry
  <2>4. e # c
    BY <1>1, <2>1, <2>2, <2>3 DEF r
  <2> QED BY <1>4, <1>5, <2>2, <2>4
<1>13. \A x \in downloads' : x.d # NoConn => x = n \/ (x \in downloads /\ x.d \in Conns \ {c})
  BY SMTT(30), <1>2, <1>8 DEF TypeOK, Entry
<1>14. \A x \in downloads' : x.d # NoConn => pc'[x.d] \in Recorded
  BY <1>3, <1>5, <1>7, <1>13 DEF OwnerInv
<1>15. \A x, y \in downloads' : (x.d = y.d /\ x.d # NoConn) => x = y
  BY Zenon, <1>7, <1>13 DEF OwnerInv
<1> QED BY <1>10, <1>11, <1>12, <1>14, <1>15 DEF OwnerInv

\* The local variables of getDownload stay consistent.
LEMMA LocalStep ==
    ASSUME TypeOK, LocalInv, [Next]_vars
    PROVE  LocalInv'
<1> USE DEF LocalInv, Holds
<1>1. ASSUME NEW c \in Conns, GetNext(c) PROVE LocalInv'
  BY <1>1, SearchFree DEF GetNext, Goto, TypeOK
<1>2. ASSUME NEW c \in Conns, TreeFound(c) \/ TreeMissing(c) PROVE LocalInv'
  BY SMTT(30), <1>2 DEF TreeFound, TreeMissing, Goto, TypeOK, Reserving
<1>3. ASSUME NEW c \in Conns, Unreserve(c) \/ SelectAgain(c) PROVE LocalInv'
  BY <1>3 DEF Unreserve, SelectAgain, Leave, Goto, TypeOK
<1>4. ASSUME NEW c \in Conns, Attach(c) \/ Register(c) \/ StartData(c) PROVE LocalInv'
  BY <1>4 DEF Attach, Register, StartData, Goto, TypeOK, Reserving
<1>5. ASSUME NEW c \in Conns, PutDownload(c) PROVE LocalInv'
  <2>1. \/ Leave(c)
        \/ /\ seg' = seg \/ seg' = [seg EXCEPT ![c] = seg'[c]]
           /\ UNCHANGED added
           /\ \E l \in Recorded \cup {"stale"} : Goto(c, l)
    <3>1. \A l, n : GoOn(c, l, n) => seg' = [seg EXCEPT ![c] = seg'[c]] /\ Goto(c, l) /\ UNCHANGED added
      BY DEF GoOn, TypeOK
    <3>2. CASE FinishFile(c) \/ PutAgain(c)
      BY Zenon, <3>1, <3>2 DEF FinishFile, PutAgain, Recorded
    <3>3. CASE Fail(c) \/ BadSource(c)
      BY Zenon, <3>1, <3>3 DEF Fail, BadSource, PutBack, Recorded
    <3>4. CASE FinishTree(c) \/ Release(c) \/ CheckFinished(c) \/ Complete(c)
               \/ CompleteUnlist(c) \/ CompleteUnqueue(c)
      BY Zenon, <3>4 DEF FinishTree, Release, CheckFinished, Complete, CompleteUnlist,
         CompleteUnqueue, Stay, Recorded
    <3> QED BY ZenonT(40), <1>5, <3>2, <3>3, <3>4 DEF PutDownload
  <2>2. CASE Leave(c)
    BY <2>2 DEF Leave, TypeOK, Reserving
  <2>3. CASE /\ seg' = seg \/ seg' = [seg EXCEPT ![c] = seg'[c]]
             /\ UNCHANGED added
             /\ \E l \in Recorded \cup {"stale"} : Goto(c, l)
    BY <2>3 DEF Goto, TypeOK, Recorded, Reserving
  <2> QED BY <2>1, <2>2, <2>3
<1>6. CASE UserStep \/ UNCHANGED vars \/ \E c \in Conns : Reconnect(c)
  BY Zenon, <1>6 DEF UserStep, RemoveSource, AddSource, RemoveTarget, RemoveTargetUnlist,
     RemoveTargetUnqueue, Disconnect, Pause, AbortDownload, Resume, Reconnect, vars, local
<1> QED BY ZenonT(40), <1>1, <1>2, <1>3, <1>4, <1>5, <1>6 DEF Next, GetDownload

\* The item never comes back to the queue.
LEMMA StaysUnqueued ==
    ASSUME [Next]_vars, ~queued
    PROVE  ~queued'
  BY ZenonT(40) DEF Next, GetDownload, GetNext, TreeFound, TreeMissing, Unreserve, SelectAgain, Attach,
     Register, StartData, PutDownload, FinishFile, FinishTree, Fail, BadSource, Release,
     PutAgain, CheckFinished, Complete, CompleteUnlist, CompleteUnqueue, Unqueue, Reconnect, UserStep,
     RemoveSource, AddSource, RemoveTarget, RemoveTargetUnlist, RemoveTargetUnqueue,
     Disconnect, Pause, AbortDownload, Resume, vars, item

\* No step lets an entry outlive its owner while the item is queued.
LEMMA OwnerStep ==
    ASSUME TypeOK, ReservedDisjoint, LocalInv, OwnerInv, queued, queued', [Next]_vars
    PROVE  OwnerInv'
<1>d. \A x \in downloads : x.d # NoConn => x.d \in Conns /\ pc[x.d] \in Recorded
  BY DEF OwnerInv, TypeOK, Entry
<1>1. ASSUME NEW c \in Conns,
             TreeFound(c) \/ TreeMissing(c) \/ SelectAgain(c)
      PROVE  OwnerInv'
  <2>1. \A e \in Conns : (Holds(e)' <=> Holds(e)) /\ (Holds(e) => seg'[e] = seg[e])
    BY SMTT(30), <1>1 DEF TreeFound, TreeMissing, SelectAgain, Leave, Goto, Holds, LocalInv, TypeOK,
                Reserving
  <2>2. \A e \in Conns : pc[e] \in Recorded => pc'[e] \in Recorded
    BY <1>1 DEF TreeFound, TreeMissing, SelectAgain, Leave, Goto, TypeOK, Recorded
  <2>3. downloads' = downloads
    BY <1>1 DEF TreeFound, TreeMissing, SelectAgain, segs
  <2>4. \A x \in downloads' : x.d # NoConn => pc'[x.d] \in Recorded
    BY Zenon, <1>d, <2>2, <2>3
  <2> QED BY Zenon, <2>1, <2>3, <2>4, OwnerKept
<1>2. ASSUME NEW c \in Conns,
             \/ Register(c) \/ StartData(c) \/ FinishFile(c) \/ FinishTree(c) \/ Fail(c)
             \/ BadSource(c) \/ PutAgain(c) \/ CheckFinished(c) \/ Complete(c)
             \/ CompleteUnlist(c)
      PROVE  OwnerInv'
  <2>1. /\ \E l \in Recorded : Goto(c, l)
        /\ pc[c] \in Recorded \cup {"stale"} /\ added' = added
        /\ \A e \in Conns \ {c} : seg'[e] = seg[e]
    <3>1. \A l, n : GoOn(c, l, n) => /\ Goto(c, l) /\ UNCHANGED added
                                     /\ \A e \in Conns \ {c} : seg'[e] = seg[e]
      BY DEF GoOn, TypeOK
    <3>2. CASE FinishFile(c) \/ PutAgain(c)
      BY Zenon, <3>1, <3>2 DEF FinishFile, PutAgain, Recorded
    <3>3. CASE Fail(c) \/ BadSource(c)
      BY Zenon, <3>1, <3>3 DEF Fail, BadSource, PutBack, Recorded
    <3>4. CASE \/ Register(c) \/ StartData(c) \/ FinishTree(c) \/ CheckFinished(c)
               \/ Complete(c) \/ CompleteUnlist(c)
      BY Zenon, <3>4 DEF Register, StartData, FinishTree, CheckFinished, Complete,
         CompleteUnlist, Recorded
    <3> QED BY ZenonT(40), <1>2, <3>2, <3>3, <3>4
  <2>2. \A e \in Conns : pc[e] \in Recorded => pc'[e] \in Recorded
    BY <2>1 DEF Goto, TypeOK
  <2>3. \A e \in Conns : (Holds(e)' <=> Holds(e)) /\ (Holds(e) => seg'[e] = seg[e])
    BY <2>1 DEF Goto, Holds, TypeOK, Reserving, Recorded
  <2>4. /\ downloads' \subseteq downloads
        /\ \A x \in downloads : x.d = NoConn => x \in downloads'
    BY Zenon, <1>2, ConnsAssumption
    DEF Register, StartData, FinishFile, FinishTree, Fail, BadSource, TakeSource, UserEntries,
        PutAgain, CheckFinished, Complete, CompleteUnlist, Unlist, segs, TypeOK
  <2> QED BY Zenon, <1>d, <2>1, <2>2, <2>3, <2>4, OwnerKept
<1>3. ASSUME NEW c \in Conns, Release(c) PROVE OwnerInv'
  <2>1. /\ downloads' \subseteq downloads
        /\ \A x \in downloads : x.d = NoConn => x \in downloads'
        /\ \A x \in downloads' : x.d # c
    <3>1. \A x, y \in UserEntries(downloads, c) : x = y
      BY ConnsAssumption DEF UserEntries, OwnerInv
    <3>2. \/ UserEntries(downloads, c) = {} /\ downloads' = downloads
          \/ \E x \in UserEntries(downloads, c) : downloads' = downloads \ {x}
      BY ZenonT(40), <1>3 DEF Release, DropUser
    <3>3. CASE UserEntries(downloads, c) = {} /\ downloads' = downloads
      BY <3>3 DEF UserEntries
    <3>4. CASE \E x \in UserEntries(downloads, c) : downloads' = downloads \ {x}
      <4> PICK x \in UserEntries(downloads, c) : downloads' = downloads \ {x}
        BY <3>4
      <4>1. x.d = c /\ c # NoConn
        BY ConnsAssumption DEF UserEntries
      <4> QED BY <3>1, <4>1 DEF UserEntries
    <3> QED BY <3>2, <3>3, <3>4
  <2>2. \A e \in Conns : (Holds(e)' <=> Holds(e)) /\ (Holds(e) => seg'[e] = seg[e])
    BY <1>3 DEF Release, Leave, Stay, Goto, Holds, TypeOK, Reserving
  <2>3. \A e \in Conns \ {c} : pc'[e] = pc[e]
    BY <1>3 DEF Release, Leave, Stay, Goto, TypeOK
  <2> QED BY <1>d, <2>1, <2>2, <2>3, OwnerKept
<1>4. CASE UserStep \/ UNCHANGED vars \/ \E c \in Conns : Reconnect(c)
  <2>1. pc' = pc /\ seg' = seg /\ added' = added
    BY Zenon, <1>4 DEF UserStep, RemoveSource, AddSource, RemoveTarget, RemoveTargetUnlist,
       RemoveTargetUnqueue, Disconnect, Pause, AbortDownload, Resume, Reconnect, vars, local
  <2>2. /\ downloads' \subseteq downloads
        /\ \A x \in downloads : x.d = NoConn => x \in downloads'
    BY Zenon, <1>4, ConnsAssumption
    DEF UserStep, RemoveSource, TakeSource, UserEntries, AddSource, RemoveTarget,
        RemoveTargetUnlist, Unlist, RemoveTargetUnqueue, Unqueue, Disconnect, Pause,
        AbortDownload, Resume, Reconnect, vars, segs, TypeOK
  <2>3. \A e \in Conns : Holds(e)' <=> Holds(e)
    BY <2>1 DEF Holds
  <2> QED BY <1>d, <2>1, <2>2, <2>3, OwnerKept
<1>5. ASSUME NEW c \in Conns, CompleteUnqueue(c) PROVE FALSE
  BY <1>5 DEF CompleteUnqueue, Unqueue
<1> QED BY <1>1, <1>2, <1>3, <1>4, <1>5, GetNextOwner, UnreserveOwner, AttachOwner
        DEF Next, GetDownload, PutDownload

\* The invariant of the running segments.
LEMMA EntryInvAlways == Spec => []EntryInv
<1>1. Init => EntryInv
  <2>1. Init => ReservedDisjoint /\ LocalInv /\ OwnerInv
    BY DEF Init, ReservedDisjoint, LocalInv, OwnerInv, Holds, Reserving
  <2> QED BY <2>1, DataInvInit DEF EntryInv
<1>2. EntryInv /\ [Next]_vars => EntryInv'
  BY DataInvStep, DisjointStep, LocalStep, OwnerStep, StaysUnqueued DEF EntryInv, DataInv
<1> QED BY <1>1, <1>2, PTL DEF Spec

\* For any file, connections and requests: no running segment of a queued item
\* outlives its owner.
THEOREM EntriesOwnedAlways == Spec => []EntriesOwned
<1>1. EntryInv => EntriesOwned
  BY DEF EntryInv, OwnerInv, EntriesOwned, Holds, DataInv, TypeOK, Entry
<1> QED BY <1>1, EntryInvAlways, PTL

-----------------------------------------------------------------------------
(* Users that are running, and the end of the download.                      *)

\* runningMap names only users whose download has not been put back.
THEOREM RunningLiveAlways == Spec => []RunningLive
<1>1. Init => RunningLive
  BY DEF Init, RunningLive
<1>2. ASSUME TypeOK, RunningLive, [Next]_vars PROVE RunningLive'
  <2> SUFFICES ASSUME queued, queued' PROVE \A c \in running' : pc'[c] \in Recorded
    BY <1>2, StaysUnqueued DEF RunningLive
  <2>1. ASSUME NEW c \in Conns, GetDownload(c) PROVE RunningLive'
    BY <1>2, <2>1 DEF RunningLive, GetDownload, GetNext, TreeFound, TreeMissing, Unreserve,
       SelectAgain, Attach, Register, Leave, Goto, TypeOK, Recorded
  <2>2. ASSUME NEW c \in Conns, StartData(c) \/ PutDownload(c) \/ Reconnect(c)
        PROVE  RunningLive'
    <3>1. running' \subseteq running
      BY Zenon, <2>2
      DEF StartData, PutDownload, FinishFile, FinishTree, Fail, BadSource, TakeSource,
         Release, DropUser, PutAgain, CheckFinished, Complete, CompleteUnlist, Unlist,
         CompleteUnqueue, Reconnect
    <3>2. \A e \in Conns \ {c} : pc'[e] = pc[e]
      BY Zenon, <1>2, <2>2 DEF StartData, PutDownload, FinishFile, FinishTree, Fail, BadSource,
         Release, PutAgain, CheckFinished, Complete, CompleteUnlist, CompleteUnqueue,
         Reconnect, PutBack, GoOn, Stay, Leave, Goto, TypeOK, local
    <3>3. CASE Release(c)
      BY <1>2, <3>1, <3>2, <3>3 DEF Release, DropUser, RunningLive, TypeOK
    <3>4. CASE CompleteUnqueue(c)
      BY <3>4 DEF CompleteUnqueue, Unqueue
    <3>5. CASE ~Release(c) /\ ~CompleteUnqueue(c)
      <4>1. pc[c] \in Recorded => pc'[c] \in Recorded
        BY Zenon, <1>2, <2>2, <3>5 DEF StartData, PutDownload, FinishFile, FinishTree, Fail,
           BadSource, PutAgain, CheckFinished, Complete, CompleteUnlist, Reconnect, PutBack,
           GoOn, Goto, TypeOK, Recorded, local
      <4> QED BY <1>2, <3>1, <3>2, <4>1 DEF RunningLive, TypeOK
    <3> QED BY <3>3, <3>4, <3>5
  <2>3. CASE UserStep \/ UNCHANGED vars
    BY Zenon, <1>2, <2>3 DEF RunningLive, UserStep, RemoveSource, TakeSource, AddSource,
       RemoveTarget, RemoveTargetUnlist, Unlist, RemoveTargetUnqueue, Unqueue, Disconnect,
       Pause, AbortDownload, Resume, vars, local, TypeOK
  <2> QED BY Zenon, <1>2, <2>1, <2>2, <2>3 DEF Next, RunningLive
<1>3. DataInv => TypeOK
  BY DEF DataInv
<1> QED BY <1>1, <1>2, <1>3, DataInvAlways, PTL DEF Spec

\* A thread that found the file complete, and a Finished event, mean that all of
\* it is done; done never shrinks.
FinishInv ==
    /\ finished > 0 => done = AllUnits
    /\ \A c \in Conns : pc[c] = "complete" => done = AllUnits

\* What is done stays done.
LEMMA DoneGrows ==
    ASSUME TypeOK, [Next]_vars
    PROVE  done \subseteq done'
<1>1. ASSUME NEW c \in Conns, FinishFile(c) PROVE done \subseteq done'
  BY Zenon, <1>1 DEF FinishFile, AddSegment
<1>2. ASSUME NEW c \in Conns, Fail(c) PROVE done \subseteq done'
  BY Zenon, <1>2 DEF Fail, FailAfter, AddSegment
<1>3. ASSUME NEW c \in Conns, PutAgain(c) PROVE done \subseteq done'
  BY Zenon, <1>3 DEF PutAgain, AddSegment
<1> QED BY Zenon, <1>1, <1>2, <1>3
  DEF Next, GetDownload, GetNext, TreeFound, TreeMissing, Unreserve, SelectAgain, Attach,
     Register, StartData, PutDownload, FinishTree, BadSource, Release,
     CheckFinished, Complete, CompleteUnlist, CompleteUnqueue, Reconnect, UserStep,
     RemoveSource, AddSource, RemoveTarget, RemoveTargetUnlist, RemoveTargetUnqueue,
     Disconnect, Pause, AbortDownload, Resume, vars, segs

\* A file is reported as finished only when all of it has arrived.
THEOREM FinishedCompleteAlways == Spec => []FinishedComplete
<1>1. Init => FinishInv
  BY DEF Init, FinishInv
<1>2. ASSUME DataInv, DataInv', FinishInv, [Next]_vars PROVE FinishInv'
  <2>1. done = AllUnits => done' = AllUnits
    BY <1>2, DoneGrows DEF DataInv, TypeOK
  <2>2. ASSUME NEW c \in Conns, CheckFinished(c) PROVE FinishInv'
    BY <1>2, <2>1, <2>2 DEF FinishInv, CheckFinished, Goto, DataInv, TypeOK, segs
  <2>3. ASSUME NEW c \in Conns, Complete(c) PROVE FinishInv'
    BY Zenon, <1>2, <2>1, <2>3 DEF FinishInv, Complete, Goto, DataInv, TypeOK
  <2>4. ASSUME NEW c \in Conns,
               GetDownload(c) \/ StartData(c) \/ Reconnect(c)
        PROVE  FinishInv'
    BY <1>2, <2>1, <2>4 DEF FinishInv, GetDownload, GetNext, TreeFound, TreeMissing,
       Unreserve, SelectAgain, Attach, Register, StartData, Reconnect, Leave, Goto, DataInv,
       TypeOK, local
  <2>5. ASSUME NEW c \in Conns,
               \/ FinishFile(c) \/ FinishTree(c) \/ Fail(c) \/ BadSource(c) \/ Release(c)
               \/ PutAgain(c) \/ CompleteUnlist(c) \/ CompleteUnqueue(c)
        PROVE  FinishInv'
    <3>1. finished' = finished
      BY Zenon, <2>5 DEF FinishFile, FinishTree, Fail, BadSource, Release, PutAgain,
         CompleteUnlist, CompleteUnqueue
    <3>2. \A e \in Conns : pc'[e] = "complete" => pc[e] = "complete"
      BY Zenon, <1>2, <2>5 DEF FinishFile, FinishTree, Fail, BadSource, Release, PutAgain,
         CompleteUnlist, CompleteUnqueue, PutBack, GoOn, Stay, Leave, Goto, DataInv, TypeOK
    <3> QED BY <1>2, <2>1, <3>1, <3>2 DEF FinishInv
  <2>6. CASE UserStep \/ UNCHANGED vars
    BY Zenon, <1>2, <2>1, <2>6 DEF FinishInv, UserStep, RemoveSource, AddSource, RemoveTarget,
       RemoveTargetUnlist, RemoveTargetUnqueue, Disconnect, Pause, AbortDownload, Resume,
       vars, local
  <2> QED BY <1>2, <2>2, <2>3, <2>4, <2>5, <2>6 DEF Next, PutDownload
<1>3. DataInv /\ FinishInv => FinishedComplete
  BY DEF DataInv, TypeOK, DoneReceived, FinishInv, FinishedComplete
<1> QED BY <1>1, <1>2, <1>3, DataInvAlways, PTL DEF Spec

-----------------------------------------------------------------------------
(* What holds besides while the tree is in the database, its blocks are not  *)
(* larger than those of the item, and the user leaves the file alone.        *)

Calm == TreeKnown /\ TreeBlock <= BlockSize /\ UserOps = {}

\* Then every Download is for a segment that was reserved for it.
CalmInv ==
    /\ tree /\ blockSize = BlockSize /\ upc = "idle"
    /\ \A c \in Conns :
          /\ pc[c] \notin {"regrow", "again", "unreserve"} /\ kind[c] = "FILE"
          /\ pc[c] # "idle" => added[c]
          /\ pc[c] \in {"tree", "attach", "register", "requested", "data"} => seg[c] \in Segment

\* What a connection that is through with its Download would put back again is
\* there already.
Past == {"check", "complete", "unlist", "unqueue", "release", "stale"}

PutInv ==
    \A c \in Conns :
       /\ pc[c] \in Past /\ seg[c] # Whole => Units(seg[c]) \subseteq done
       /\ pc[c] = "stale" => seg[c] # Whole

\* The item goes away only after the file has been found complete and announced.
EndInv ==
    /\ ~queued => done = AllUnits
    /\ \A c \in Conns : pc[c] \in {"complete", "unlist", "unqueue"} => done = AllUnits
    /\ \A c \in Conns : pc[c] \in {"unlist", "unqueue"} => finished > 0

\* Until then a connection that may write holds the entry of its segment.
WriterInv ==
    /\ \A x \in downloads : x.seg \in Segment
    /\ \/ done = AllUnits
       \/ \A c \in Conns : pc[c] \in {"register", "requested", "data"}
                             => [seg |-> seg[c], d |-> c] \in downloads

\* The thread of c goes to l; its segment may become another.
Moves(c, l) ==
    /\ pc' = [pc EXCEPT ![c] = l]
    /\ \A e \in Conns \ {c} : seg'[e] = seg[e]
    /\ UNCHANGED <<added, kind>>

\* Putting a Download back ends the work on it.
LEMMA EndsPut ==
    ASSUME TypeOK, NEW c \in Conns, kind[c] = "FILE",
           \/ FinishFile(c) \/ FinishTree(c) \/ Fail(c) \/ BadSource(c) \/ Release(c)
           \/ PutAgain(c)
    PROVE  Leave(c) \/ \E l \in Past : Moves(c, l)
<1>1. \A l, n : GoOn(c, l, n) => Moves(c, l)
  BY DEF GoOn, Goto, Moves, TypeOK
<1>2. \A l : Stay(c, l) => Moves(c, l)
  BY DEF Stay, Goto, Moves, TypeOK
<1>3. ~FinishTree(c)
  BY DEF FinishTree
<1>4. CASE FinishFile(c) \/ PutAgain(c)
  BY Zenon, <1>1, <1>4 DEF FinishFile, PutAgain, Past
<1>5. CASE Fail(c) \/ BadSource(c)
  BY Zenon, <1>1, <1>5 DEF Fail, BadSource, PutBack, Past
<1>6. CASE Release(c)
  BY Zenon, <1>2, <1>6 DEF Release, Past
<1> QED BY <1>3, <1>4, <1>5, <1>6

\* No Download without a reservation, whatever the threads do.
LEMMA CalmStep ==
    ASSUME Calm, TypeOK, CalmInv, [Next]_vars
    PROVE  CalmInv'
<1> USE DEF CalmInv
<1>1. ASSUME NEW c \in Conns, GetNext(c) PROVE CalmInv'
  <2> PICK t \in Targets : \E s \in NextSegments(t) : seg' = [seg EXCEPT ![c] = s]
    BY Zenon, <1>1 DEF GetNext
  <2> PICK s \in NextSegments(t) : seg' = [seg EXCEPT ![c] = s]
    BY Zenon
  <2>1. s \in Segment
    BY SearchFree
  <2> QED BY <1>1, <2>1 DEF GetNext, Goto, TypeOK, tth, user
<1>2. ASSUME NEW c \in Conns, TreeFound(c) PROVE CalmInv'
  <2>1. ~(TreeBlock > blockSize)
    BY BlockAssumption DEF Calm
  <2> QED BY <1>2, <2>1 DEF TreeFound, Goto, TypeOK, user
<1>3. ASSUME NEW c \in Conns,
             TreeMissing(c) \/ Unreserve(c) \/ SelectAgain(c) \/ FinishTree(c)
      PROVE  CalmInv'
  BY Zenon, <1>3 DEF TreeMissing, Unreserve, SelectAgain, FinishTree
<1>4. ASSUME NEW c \in Conns,
             \/ Attach(c) \/ Register(c) \/ StartData(c) \/ CheckFinished(c) \/ Complete(c)
             \/ CompleteUnlist(c)
      PROVE  CalmInv'
  <2>1. /\ pc[c] # "idle" /\ UNCHANGED <<seg, added, kind, tree, blockSize, upc>>
        /\ \/ /\ pc[c] \in {"tree", "attach", "register", "requested", "data"}
              /\ \E l \in PCs \ {"regrow", "again", "unreserve"} : pc' = [pc EXCEPT ![c] = l]
           \/ \E l \in Past : pc' = [pc EXCEPT ![c] = l]
    BY Zenon, <1>4 DEF Attach, Register, StartData, CheckFinished, Complete, CompleteUnlist, Goto, PCs,
       Past, tth, user
  <2> QED BY <2>1 DEF TypeOK, Past
<1>5. ASSUME NEW c \in Conns,
             \/ FinishFile(c) \/ Fail(c) \/ BadSource(c) \/ Release(c) \/ PutAgain(c)
             \/ CompleteUnqueue(c)
      PROVE  CalmInv'
  <2>1. /\ pc[c] # "idle" /\ UNCHANGED <<tree, blockSize, upc>>
        /\ Leave(c) \/ \E l \in Past : Moves(c, l)
    BY Zenon, <1>5, EndsPut DEF CompleteUnqueue, tth, user, FinishFile, Fail, BadSource, Release, PutAgain
  <2>2. CASE Leave(c)
    BY <2>1, <2>2 DEF Leave, TypeOK
  <2>3. CASE \E l \in Past : Moves(c, l)
    BY <2>1, <2>3 DEF Moves, TypeOK, Past
  <2> QED BY <2>1, <2>2, <2>3
<1>6. ASSUME NEW c \in Conns, Reconnect(c) PROVE CalmInv'
  BY <1>6 DEF Reconnect, tth, local, user
<1>7. CASE UserStep
  BY Zenon, <1>7 DEF Calm, UserStep, RemoveSource, AddSource, RemoveTarget, RemoveTargetUnlist,
     RemoveTargetUnqueue, Disconnect, Pause, AbortDownload, Resume, tth, local, user
<1>8. CASE UNCHANGED vars
  BY <1>8 DEF vars, tth, local, user
<1> QED BY ZenonT(40), <1>1, <1>2, <1>3, <1>4, <1>5, <1>6, <1>7, <1>8 DEF Next, GetDownload, PutDownload

\* The item stays until the file is complete.
LEMMA EndStep ==
    ASSUME Calm, TypeOK, TypeOK', CalmInv, EndInv, [Next]_vars
    PROVE  EndInv'
<1>1. done = AllUnits => done' = AllUnits
  BY ZenonT(40), DoneGrows DEF TypeOK
<1>2. ASSUME NEW c \in Conns, CheckFinished(c) PROVE EndInv'
  BY <1>1, <1>2 DEF EndInv, CheckFinished, Goto, TypeOK, item, segs
<1>3. ASSUME NEW c \in Conns, Complete(c) PROVE EndInv'
  BY <1>1, <1>3 DEF EndInv, Complete, Goto, TypeOK, item
<1>4. ASSUME NEW c \in Conns, CompleteUnlist(c) PROVE EndInv'
  BY <1>1, <1>4 DEF EndInv, CompleteUnlist, Goto, TypeOK
<1>5. ASSUME NEW c \in Conns, CompleteUnqueue(c) PROVE EndInv'
  BY <1>1, <1>5 DEF EndInv, CompleteUnqueue, Unqueue, Leave, TypeOK
<1>6. CASE \/ UserStep \/ UNCHANGED vars
           \/ \E c \in Conns : \/ GetDownload(c) \/ StartData(c) \/ Reconnect(c) \/ FinishFile(c)
                               \/ FinishTree(c) \/ Fail(c) \/ BadSource(c) \/ Release(c)
                               \/ PutAgain(c)
  <2>1. UNCHANGED <<queued, finished>>
    <3>1. CASE UserStep \/ UNCHANGED vars
      BY <3>1 DEF CalmInv, Calm, UserStep, RemoveSource, AddSource, RemoveTarget,
         RemoveTargetUnlist, RemoveTargetUnqueue, Disconnect, Pause, AbortDownload, Resume,
         item, vars
    <3>2. CASE \E c \in Conns : GetDownload(c) \/ StartData(c) \/ Reconnect(c)
      BY Zenon, <3>2 DEF GetDownload, GetNext, TreeFound, TreeMissing, Unreserve, SelectAgain,
         Attach, Register, StartData, Reconnect, item
    <3>3. CASE \E c \in Conns : \/ FinishFile(c) \/ FinishTree(c) \/ Fail(c) \/ BadSource(c)
                               \/ Release(c) \/ PutAgain(c)
      BY Zenon, <3>3 DEF FinishFile, FinishTree, Fail, BadSource, Release, PutAgain, item
    <3> QED BY <1>6, <3>1, <3>2, <3>3
  <2>2. \A e \in Conns : pc'[e] \in {"complete", "unlist", "unqueue"} => pc'[e] = pc[e]
    <3>1. CASE UserStep \/ UNCHANGED vars
      BY ZenonT(30), <3>1 DEF CalmInv, Calm, UserStep, RemoveSource, AddSource, RemoveTarget,
         RemoveTargetUnlist, RemoveTargetUnqueue, Disconnect, Pause, AbortDownload, Resume,
         local, vars
    <3>2. CASE \E c \in Conns : GetDownload(c) \/ StartData(c) \/ Reconnect(c)
      BY SMTT(40), <3>2 DEF GetDownload, GetNext, TreeFound, TreeMissing, Unreserve, SelectAgain,
         Attach, Register, StartData, Reconnect, Goto, Leave, TypeOK, local
    <3>3. CASE \E c \in Conns : \/ FinishFile(c) \/ FinishTree(c) \/ Fail(c) \/ BadSource(c)
                               \/ Release(c) \/ PutAgain(c)
      <4>1. PICK c \in Conns : \/ FinishFile(c) \/ FinishTree(c) \/ Fail(c) \/ BadSource(c)
                              \/ Release(c) \/ PutAgain(c)
        BY <3>3
      <4>2. \E l \in {"idle", "check", "release", "stale"} : pc' = [pc EXCEPT ![c] = l]
        BY Zenon, <4>1 DEF FinishFile, FinishTree, Fail, BadSource, Release, PutAgain, PutBack, GoOn,
           Stay, Goto, Leave
      <4> QED BY <4>2 DEF TypeOK
    <3> QED BY <1>6, <3>1, <3>2, <3>3
  <2> QED BY <1>1, <2>1, <2>2 DEF EndInv
<1> QED BY <1>2, <1>3, <1>4, <1>5, <1>6 DEF Next, PutDownload

Writing == {"register", "requested", "data"}

\* The other connections keep their entries.
LEMMA WriterKept ==
    ASSUME TypeOK, WriterInv, done # AllUnits, NEW c \in Conns,
           \A e \in Conns \ {c} : pc'[e] = pc[e] /\ seg'[e] = seg[e],
           \A x \in downloads : x.d \in Conns \ {c} => x \in downloads',
           pc'[c] \in Writing => [seg |-> seg'[c], d |-> c] \in downloads'
    PROVE  \A e \in Conns : pc'[e] \in Writing => [seg |-> seg'[e], d |-> e] \in downloads'
<1> SUFFICES ASSUME NEW e \in Conns \ {c}, pc'[e] \in Writing
             PROVE  [seg |-> seg'[e], d |-> e] \in downloads'
  OBVIOUS
<1> DEFINE x == [seg |-> seg[e], d |-> e]
<1>1. x \in downloads /\ x.d \in Conns \ {c}
  BY DEF WriterInv, Writing
<1> QED BY <1>1

\* The entries are of segments of the file: the default Segment() is recorded
\* only for a Download without a reservation.
LEMMA SegsStep ==
    ASSUME TypeOK, CalmInv, WriterInv, [Next]_vars
    PROVE  \A x \in downloads' : x.seg \in Segment
<1>1. CASE downloads' \subseteq downloads
  BY <1>1 DEF WriterInv
<1>2. ASSUME NEW c \in Conns, GetNext(c) PROVE \A x \in downloads' : x.seg \in Segment
  <2> PICK t \in Targets : \E s \in NextSegments(t) :
         downloads' = downloads \cup {[seg |-> s, d |-> NoConn]}
    BY <1>2 DEF GetNext
  <2> PICK s \in NextSegments(t) : downloads' = downloads \cup {[seg |-> s, d |-> NoConn]}
    OBVIOUS
  <2>1. s \in Segment
    BY SearchFree
  <2> QED BY <2>1 DEF WriterInv
<1>3. ASSUME NEW c \in Conns, Attach(c) PROVE \A x \in downloads' : x.seg \in Segment
  <2>1. added[c]
    BY <1>3 DEF Attach, CalmInv
  <2>2. \/ downloads' = downloads
        \/ \E x \in SegmentEntries(seg[c]) : downloads' = (downloads \ {x}) \cup {[x EXCEPT !.d = c]}
    BY <1>3, <2>1 DEF Attach
  <2>3. \A x \in SegmentEntries(seg[c]) : x \in downloads /\ [x EXCEPT !.d = c].seg = x.seg
    BY DEF SegmentEntries, TypeOK, Entry
  <2> QED BY Zenon, <2>2, <2>3 DEF WriterInv
<1>4. ASSUME NEW c \in Conns,
             TreeFound(c) \/ TreeMissing(c) \/ Unreserve(c) \/ SelectAgain(c) \/ Register(c)
               \/ StartData(c) \/ Reconnect(c)
      PROVE  downloads' \subseteq downloads
  BY <1>4, Zenon DEF TreeFound, TreeMissing, Unreserve, SelectAgain, Register, StartData, Reconnect, segs
<1>5. ASSUME NEW c \in Conns, PutDownload(c) PROVE downloads' \subseteq downloads
  BY <1>5, Zenon DEF PutDownload, FinishFile, FinishTree, Fail, BadSource, TakeSource, Release, DropUser,
     PutAgain, CheckFinished, Complete, CompleteUnlist, Unlist, CompleteUnqueue, Unqueue, segs
<1>6. ASSUME UserStep \/ UNCHANGED vars PROVE downloads' \subseteq downloads
  BY <1>6, Zenon DEF UserStep, RemoveSource, TakeSource, AddSource, RemoveTarget, RemoveTargetUnlist, Unlist,
     RemoveTargetUnqueue, Unqueue, Disconnect, Pause, AbortDownload, Resume, segs, vars
<1> QED BY <1>1, <1>2, <1>3, <1>4, <1>5, <1>6 DEF Next, GetDownload

\* A connection that may write has the entry of its segment.
LEMMA WriterStep ==
    ASSUME Calm, EntryInv, TypeOK', CalmInv, EndInv, WriterInv, [Next]_vars
    PROVE  WriterInv'
<1> DEFINE Goal == \A e \in Conns : pc'[e] \in Writing => [seg |-> seg'[e], d |-> e] \in downloads'
<1>t. TypeOK
  BY DEF EntryInv, DataInv
<1>1. \A x \in downloads' : x.seg \in Segment
  BY <1>t, SegsStep
<1>2. CASE done = AllUnits
  <2>1. done' = AllUnits
    BY Zenon, <1>2, <1>t, DoneGrows DEF TypeOK
  <2> QED BY <1>1, <2>1 DEF WriterInv
<1>3. CASE done # AllUnits
  <2>1. queued /\ \A c \in Conns : pc[c] \notin {"complete", "unlist", "unqueue"}
    BY <1>3 DEF EndInv
  <2>2. OwnerInv /\ ReservedDisjoint /\ LocalInv
    BY <2>1 DEF EntryInv
  <2>3. ASSUME NEW c \in Conns, GetNext(c) PROVE Goal
    <3>1. /\ downloads \subseteq downloads' /\ pc'[c] = "tree"
          /\ \A e \in Conns \ {c} : pc'[e] = pc[e] /\ seg'[e] = seg[e]
      BY <1>t, <2>3 DEF GetNext, Goto, TypeOK
    <3> QED BY Zenon, <1>t, <1>3, <3>1, WriterKept DEF Writing
  <2>4. ASSUME NEW c \in Conns, Attach(c) PROVE Goal
    <3> DEFINE r == [seg |-> seg[c], d |-> NoConn]
               w == [seg |-> seg[c], d |-> c]
    <3>1. added[c] /\ Holds(c)
      BY <2>4 DEF Attach, CalmInv, Holds, Reserving
    <3>2. SegmentEntries(seg[c]) = {r}
      BY <1>t, <2>2, <3>1, HeldEntry
    <3>3. [r EXCEPT !.d = c] = w
      OBVIOUS
    <3>4. downloads' = (downloads \ {r}) \cup {w}
      BY <2>4, <3>1, <3>2, <3>3 DEF Attach
    <3>5. /\ seg' = seg
          /\ \A e \in Conns \ {c} : pc'[e] = pc[e]
      BY <1>t, <2>4 DEF Attach, Goto, TypeOK
    <3>6. \A x \in downloads : x.d \in Conns \ {c} => x \in downloads'
      BY <3>4, ConnsAssumption
    <3> HIDE DEF r, w
    <3>7. [seg |-> seg'[c], d |-> c] \in downloads'
      BY <3>4, <3>5 DEF w
    <3> QED BY <1>t, <1>3, <3>5, <3>6, <3>7, WriterKept
  <2>5. ASSUME NEW c \in Conns,
               \/ TreeFound(c) \/ TreeMissing(c) \/ Unreserve(c) \/ SelectAgain(c)
               \/ Register(c) \/ StartData(c) \/ CheckFinished(c) \/ Reconnect(c)
        PROVE  Goal
    <3>1. ~TreeMissing(c) /\ ~Unreserve(c) /\ ~SelectAgain(c)
      BY ZenonT(30) DEF TreeMissing, Unreserve, SelectAgain, CalmInv
    <3>4. UNCHANGED <<downloads, seg>>
      BY ZenonT(40), <2>5, <3>1 DEF TreeFound, Register, StartData, CheckFinished, Reconnect,
         segs, local
    <3>5. \/ UNCHANGED pc
          \/ \E l \in PCs : pc' = [pc EXCEPT ![c] = l] /\ (l \in Writing => pc[c] \in Writing)
      <4>1. CASE TreeFound(c) \/ CheckFinished(c)
        <5>1. \E l \in PCs \ Writing : Goto(c, l)
          BY <4>1 DEF TreeFound, CheckFinished, PCs, Writing
        <5> QED BY Zenon, <5>1 DEF Goto
      <4>2. CASE Register(c) \/ StartData(c)
        <5>1. pc[c] \in Writing /\ \E l \in PCs : Goto(c, l)
          BY Zenon, <4>2 DEF Register, StartData, PCs, Writing
        <5> QED BY Zenon, <5>1 DEF Goto
      <4>3. CASE Reconnect(c)
        BY Zenon, <4>3 DEF Reconnect, local
      <4> QED BY Zenon, <2>5, <3>1, <4>1, <4>2, <4>3
    <3>2. /\ UNCHANGED <<downloads, seg>>
          /\ pc'[c] \in Writing => pc[c] \in Writing
          /\ \A e \in Conns \ {c} : pc'[e] = pc[e]
      BY <1>t, <3>4, <3>5 DEF TypeOK
    <3>3. pc'[c] \in Writing => [seg |-> seg'[c], d |-> c] \in downloads'
      BY ZenonT(30), <1>3, <3>2 DEF WriterInv, Writing
    <3> QED BY <1>t, <1>3, <3>2, <3>3, WriterKept
  <2>6. ASSUME NEW c \in Conns,
               \/ FinishFile(c) \/ FinishTree(c) \/ Fail(c) \/ BadSource(c) \/ Release(c)
               \/ PutAgain(c)
        PROVE  Goal
    <3>1. Leave(c) \/ \E l \in Past : Moves(c, l)
      BY Zenon, <1>t, <2>6, EndsPut DEF CalmInv
    <3>2. /\ pc'[c] \notin Writing
          /\ \A e \in Conns \ {c} : pc'[e] = pc[e] /\ seg'[e] = seg[e]
      BY <1>t, <3>1 DEF Leave, Moves, Past, TypeOK, Writing
    <3>3. \A x \in downloads : x.d # c => x \in downloads'
      BY Zenon, <2>6 DEF FinishFile, FinishTree, Fail, BadSource, TakeSource, Release, DropUser, UserEntries,
         PutAgain, segs
    <3>4. \A x \in downloads : x.d \in Conns \ {c} => x \in downloads'
      BY <3>3
    <3> QED BY Zenon, <1>t, <1>3, <3>2, <3>4, WriterKept
  <2>7. ASSUME UserStep \/ UNCHANGED vars PROVE Goal
    <3>1. UNCHANGED <<pc, seg, downloads>>
      BY ZenonT(30), <2>7 DEF CalmInv, Calm, UserStep, RemoveSource, AddSource, RemoveTarget,
         RemoveTargetUnlist, RemoveTargetUnqueue, Disconnect, Pause, AbortDownload, Resume,
         local, segs, vars
    <3> QED BY <1>3, <3>1 DEF WriterInv, Writing
  <2>8. ASSUME NEW c \in Conns, Complete(c) \/ CompleteUnlist(c) \/ CompleteUnqueue(c) PROVE FALSE
    BY Zenon, <2>1, <2>8 DEF Complete, CompleteUnlist, CompleteUnqueue
  <2>9. Goal
    <3> HIDE DEF Goal
    <3>1. ASSUME NEW c \in Conns, GetDownload(c) \/ StartData(c) \/ Reconnect(c) PROVE Goal
      BY <2>3, <2>4, <2>5, <3>1 DEF GetDownload
    <3>2. ASSUME NEW c \in Conns, PutDownload(c) PROVE Goal
      BY <2>5, <2>6, <2>8, <3>2 DEF PutDownload
    <3> QED BY <2>7, <3>1, <3>2 DEF Next
  <2> QED BY <1>1, <2>9 DEF WriterInv, Writing
<1> QED BY <1>2, <1>3

\* What is put back again is done already.
LEMMA PutStep ==
    ASSUME TypeOK, CalmInv, PutInv, [Next]_vars
    PROVE  PutInv'
<1>g. done \subseteq done'
  BY DoneGrows
<1>1. ASSUME NEW c \in Conns, pc' = [pc EXCEPT ![c] = pc'[c]],
             \A e \in Conns \ {c} : seg'[e] = seg[e],
             pc'[c] \in Past /\ seg'[c] # Whole => Units(seg'[c]) \subseteq done',
             pc'[c] = "stale" => seg'[c] # Whole
      PROVE  PutInv'
  BY <1>g, <1>1 DEF PutInv, TypeOK
<1>2. ASSUME NEW c \in Conns, FinishFile(c) \/ Fail(c) PROVE PutInv'
  <2>1. pc[c] \in {"requested", "data"}
    BY <1>2 DEF FinishFile, Fail
  <2>2. seg[c] \in Segment /\ seg[c] # Whole
    <3>1. seg[c] \in Segment
      BY <2>1 DEF CalmInv
    <3> QED BY <3>1, SizeAssumption DEF Segment, Whole
  <2>3. CASE Leave(c)
    BY ZenonT(40), <1>1, <2>3 DEF Leave, TypeOK, Past
  <2>4. ASSUME NEW n \in 0 .. SizeOf(seg[c]), NEW l \in {"check", "release"}, GoOn(c, l, n),
               n - (n % TreeBlock) > 0
                  => Units(<<seg[c][1], seg[c][1] + (n - (n % TreeBlock))>>) \subseteq done'
        PROVE  PutInv'
    <3>1. pc' = [pc EXCEPT ![c] = l] /\ seg' = [seg EXCEPT ![c] = Kept(c, n)]
      BY <2>4 DEF GoOn, Goto
    <3>2. Kept(c, n) # Whole => Units(Kept(c, n)) \subseteq done'
      BY <2>2, <2>4 DEF Kept
    <3> QED BY ZenonT(40), <1>1, <3>1, <3>2 DEF TypeOK
  <2>5. CASE FinishFile(c) /\ queued
    <3> DEFINE n == SizeOf(seg[c])
    <3>1. done' = done \cup Units(seg[c]) /\ GoOn(c, "check", n)
      BY ZenonT(40), <2>2, <2>5 DEF FinishFile, AddSegment
    <3>2. n = seg[c][2] - seg[c][1] /\ n \in Nat
      BY <2>2, UnitsInFile, UnitCount
    <3>3. n - (n % TreeBlock) <= n /\ n - (n % TreeBlock) \in Int
      BY <3>2, BlockAssumption
    <3>4. seg[c][1] \in 0 .. Size /\ seg[c][2] \in 0 .. Size
      BY <2>2 DEF Segment
    <3> HIDE DEF n
    <3> DEFINE k == n - (n % TreeBlock)
    <3>5. k \in Int /\ k <= n
      BY <3>3
    <3> HIDE DEF k
    <3>6. k > 0 => Units(<<seg[c][1], seg[c][1] + k>>) \subseteq Units(seg[c])
      BY <2>2, <3>2, <3>4, <3>5, SizeAssumption DEF Units, Whole
    <3>7. n \in 0 .. SizeOf(seg[c])
      BY <3>2 DEF n
    <3>8. n - (n % TreeBlock) > 0
            => Units(<<seg[c][1], seg[c][1] + (n - (n % TreeBlock))>>) \subseteq done'
      BY Zenon, <3>1, <3>6 DEF k
    <3> QED BY Zenon, <2>4, <3>1, <3>7, <3>8
  <2>6. CASE Fail(c) /\ queued
    <3>1. CASE PutBack(c, 0)
      <4>1. Kept(c, 0) = Whole /\ GoOn(c, "release", 0)
        BY <2>6, <3>1, KeptNothing DEF PutBack
      <4> QED BY ZenonT(40), <1>1, <4>1 DEF GoOn, Goto, TypeOK
    <3>2. CASE \E n \in 0 .. SizeOf(seg[c]) : FailAfter(c, n) /\ PutBack(c, n)
      <4> PICK n \in 0 .. SizeOf(seg[c]) : FailAfter(c, n) /\ PutBack(c, n)
        BY <3>2
      <4>1. GoOn(c, "release", n)
        BY <2>6 DEF PutBack
      <4>2. n - (n % TreeBlock) > 0
              => Units(<<seg[c][1], seg[c][1] + (n - (n % TreeBlock))>>) \subseteq done'
        BY <2>2, <2>6 DEF FailAfter, AddSegment
      <4> QED BY <2>4, <4>1, <4>2
    <3> QED BY Zenon, <2>6, <3>1, <3>2 DEF Fail
  <2>7. CASE ~queued
    BY Zenon, <1>2, <2>3, <2>7 DEF FinishFile, Fail, PutBack
  <2> QED BY <1>2, <2>5, <2>6, <2>7
<1>3. ASSUME NEW c \in Conns, BadSource(c) \/ PutAgain(c) PROVE PutInv'
  <2>1. Leave(c) \/ GoOn(c, "release", 0)
    BY Zenon, <1>3 DEF BadSource, PutAgain, PutBack
  <2>2. Kept(c, 0) = Whole
    BY KeptNothing
  <2> QED BY <1>1, <2>1, <2>2 DEF Leave, GoOn, Goto, TypeOK, Past
<1>4. ASSUME NEW c \in Conns,
             Release(c) \/ CheckFinished(c) \/ Complete(c) \/ CompleteUnlist(c) \/ CompleteUnqueue(c)
      PROVE  PutInv'
  <2>1. pc[c] \in Past
    BY Zenon, <1>4 DEF Release, CheckFinished, Complete, CompleteUnlist, CompleteUnqueue, Past
  <2>2. \/ Leave(c)
        \/ \E l \in Past : Goto(c, l) /\ UNCHANGED seg /\ (l = "stale" => seg[c] # Whole)
    BY Zenon, <1>4 DEF Release, CheckFinished, Complete, CompleteUnlist, CompleteUnqueue, Stay, Past
  <2> QED BY <1>1, <1>g, <2>1, <2>2 DEF Leave, Goto, TypeOK, PutInv, Past
<1>5. ASSUME NEW c \in Conns, GetDownload(c) \/ StartData(c) \/ FinishTree(c) PROVE PutInv'
  <2>1. ~TreeMissing(c) /\ ~Unreserve(c) /\ ~SelectAgain(c) /\ ~FinishTree(c)
    BY ZenonT(30) DEF TreeMissing, Unreserve, SelectAgain, FinishTree, CalmInv
  <2>2. /\ \E l \in {"tree", "regrow", "attach", "register", "requested", "data"} : Goto(c, l)
        /\ \A e \in Conns \ {c} : seg'[e] = seg[e]
    BY <1>5, <2>1 DEF GetDownload, GetNext, TreeFound, Attach, Register, StartData, TypeOK
  <2> QED BY ZenonT(40), <1>1, <2>2 DEF Goto, TypeOK, Past
<1>6. CASE UserStep \/ UNCHANGED vars \/ \E c \in Conns : Reconnect(c)
  <2>1. UNCHANGED <<pc, seg>>
    BY ZenonT(30), <1>6 DEF UserStep, RemoveSource, AddSource, RemoveTarget, RemoveTargetUnlist,
       RemoveTargetUnqueue, Disconnect, Pause, AbortDownload, Resume, Reconnect, local, vars
  <2> QED BY <1>g, <2>1 DEF PutInv
<1> QED BY <1>2, <1>3, <1>4, <1>5, <1>6 DEF Next, PutDownload

=============================================================================
