---------------------------- MODULE QueueDownload ----------------------------
(***************************************************************************)
(* How the connections to the sources of one queued file share out its      *)
(* segments: QueueManager::getDownload and putDownload, with the parts of   *)
(* QueueItem, UserQueue, FileQueue and DownloadManager they use.            *)
(*                                                                          *)
(* Each connection is served by a socket thread of its own; pc[c] is where  *)
(* the thread of connection c is.  A step is what happens under one lock:   *)
(* getNextL under QueueItem::g_cs, each operation on the segments of the    *)
(* item under csSegments, each on runningMap under csRunningMap.  One more  *)
(* thread carries out what the user asks for: removing the file or a        *)
(* source, pausing and resuming.                                            *)
(*                                                                          *)
(* A user has at most one download connection, so users and connections are *)
(* one set.  The item is a file with a known size and a TTH that is not     *)
(* small.  Left out: partial sources, file lists, other items of the queue  *)
(* (a slot they take makes GetNext refuse), deletion of the temporary file  *)
(* by other programs.                                                       *)
(***************************************************************************)
EXTENDS Segments, FiniteSets

CONSTANTS
    Conns,        \* download connections, one per user
    NoConn,       \* RunningSegment::d is null
    BlockSize,    \* initial block size of the item, in units
    TreeBlock,    \* block size of the file's hash tree, in units
    Targets,      \* chunk sizes, in units, that connections ask for
    MaxSegments,  \* maxSegments of the item
    MultiChunk,   \* values that the setting ENABLE_MULTI_CHUNK takes
    TreeKnown,    \* the hash database holds the tree from the start
    Compressed,   \* data is sent compressed (flag ZL)
    UserOps       \* what the user does: "removeSource", "removeTarget", "pause"

ASSUME ConnsAssumption == NoConn \notin Conns
ASSUME BlockAssumption == BlockSize \in Nat \ {0} /\ TreeBlock \in Nat \ {0}
ASSUME TargetsAssumption == Targets \subseteq Nat \ {0}
ASSUME LimitsAssumption == MaxSegments \in Nat
ASSUME FlagsAssumption == MultiChunk \subseteq BOOLEAN /\ TreeKnown \in BOOLEAN /\ Compressed \in BOOLEAN
ASSUME SingleAssumption == FALSE \in MultiChunk => Size % BlockSize = 0 /\ Size % TreeBlock = 0

VARIABLES
    queued,         \* fileQueue holds the item
    removed,        \* XFLAG_REMOVED
    sources,        \* users that are sources of the item
    listed,         \* users for whom userQueueMap holds the item
    paused,         \* priority PAUSED
    noTree,         \* sources whose tree is not to be asked for
    done,           \* units covered by doneSegments
    miscounted,     \* the puts that made doneSegmentsSize differ from the size of
                    \* doneSegments: "first" or "again"
    downloads,      \* the RunningSegment entries: [seg, d]
    blockSize,      \* blockSize of the item
    allowSegments,  \* XFLAG_ALLOW_SEGMENTS
    tree,           \* the hash database holds the tree of the file
    running,        \* users whose runningMap entry is the item
    pc,             \* pc[c]: where the thread of connection c is
    seg,            \* seg[c]: the segment of c's Download
    added,          \* added[c]: getDownload's segmentAdded
    kind,           \* kind[c]: type of c's Download
    closing,        \* connections told to disconnect
    received,       \* units that arrived and were not thrown away again
    finished,       \* number of Finished events fired
    upc,            \* where the thread of the user's request is
    doomed          \* connections that request will disconnect

item == <<queued, removed, sources, listed, paused, noTree>>
segs == <<done, miscounted, downloads>>
tth == <<blockSize, allowSegments, tree>>
local == <<pc, seg, added, kind>>
user == <<upc, doomed>>
vars == <<item, segs, tth, running, local, closing, received, finished, user>>

PCs == {"idle", "tree", "regrow", "again", "unreserve", "attach", "register",
        "requested", "data", "check", "complete", "unlist", "unqueue", "release", "stale"}

Entry == [seg : Segment \cup {Whole}, d : Conns \cup {NoConn}]
SegsOf(D) == {x.seg : x \in D}

TypeOK ==
    /\ queued \in BOOLEAN /\ removed \in BOOLEAN /\ paused \in BOOLEAN
    /\ sources \subseteq Conns /\ listed \subseteq Conns /\ noTree \subseteq Conns
    /\ done \subseteq AllUnits /\ miscounted \subseteq {"first", "again"}
    /\ downloads \subseteq Entry
    /\ blockSize \in Nat \ {0} /\ allowSegments \in BOOLEAN /\ tree \in BOOLEAN
    /\ running \subseteq Conns
    /\ pc \in [Conns -> PCs]
    /\ seg \in [Conns -> Segment \cup {Whole}]
    /\ added \in [Conns -> BOOLEAN]
    /\ kind \in [Conns -> {"FILE", "TREE", "GOTTREE"}]
    /\ closing \subseteq Conns /\ received \subseteq AllUnits
    /\ finished \in Nat
    /\ upc \in {"idle", "abort", "unlist", "unqueue", "disconnect"}
    /\ doomed \subseteq Conns

Init ==
    /\ queued = TRUE /\ removed = FALSE /\ paused = FALSE
    /\ sources = Conns /\ listed = Conns
    /\ noTree \in SUBSET Conns
    /\ done = {} /\ miscounted = {} /\ downloads = {}
    /\ blockSize = BlockSize /\ allowSegments = FALSE /\ tree = TreeKnown
    /\ running = {}
    /\ pc = [c \in Conns |-> "idle"]
    /\ seg = [c \in Conns |-> Whole]
    /\ added = [c \in Conns |-> FALSE]
    /\ kind = [c \in Conns |-> "FILE"]
    /\ closing = {} /\ received = {}
    /\ finished = 0
    /\ upc = "idle" /\ doomed = {}

Goto(c, l) == pc' = [pc EXCEPT ![c] = l]

\* The thread of c is through with its Download; its local variables are gone.
Leave(c) ==
    /\ pc' = [pc EXCEPT ![c] = "idle"]
    /\ seg' = [seg EXCEPT ![c] = Whole]
    /\ added' = [added EXCEPT ![c] = FALSE]
    /\ kind' = [kind EXCEPT ![c] = "FILE"]

Stay(c, l) == Goto(c, l) /\ UNCHANGED <<seg, added, kind>>

-----------------------------------------------------------------------------
\* QueueItem's operations on the running segments.
SegmentEntries(s) == {x \in downloads : x.seg = s}
UserEntries(D, c) == {x \in D : x.d = c}

\* A search that does not look at what others are downloading.
SearchIgnoringRunning(t) ==
    {NextForward(done, {}, blockSize, Greater(blockSize, roundDown(t, blockSize)))}

\* The file has its beginning and not (all of) its end; whether enough of them
\* depends on sizes that are not modelled, as does FLAG_WANT_END.
shouldSearchBackward == 0 \in done /\ done # AllUnits

\* getNextSegmentL: what the search may return for a connection that asks for t
\* units, each result a set of at most one segment.  The setting is read for
\* every search.
SearchResult(t, multi) ==
    IF ~multi
    THEN {NextSingle(done, SegsOf(downloads), blockSize)}
    ELSE IF Cardinality(downloads) >= MaxSegments
         THEN {{}}
         ELSE LET target == Greater(blockSize, roundDown(t, blockSize))
              IN  {NextForward(done, SegsOf(downloads), blockSize, target)}
                  \cup IF shouldSearchBackward
                       THEN {NextBackward(done, SegsOf(downloads), blockSize, target)}
                       ELSE {}

SearchResults(t) == UNION {SearchResult(t, multi) : multi \in MultiChunk}

NextSegments(t) == UNION SearchResults(t)

\* addSegmentL: doneSegmentsSize counts a segment again when it is exactly a
\* member of doneSegments, because the set does not take it a second time.  In
\* all other cases the consolidation makes up for what overlaps.
AddSegment(s, put) ==
    LET new == Units(s)
        isMember == /\ new \subseteq done
                    /\ (s[1] - 1) \notin done /\ s[2] \notin done
    IN  /\ done' = done \cup new
        /\ miscounted' = IF isMember THEN miscounted \cup {put} ELSE miscounted

-----------------------------------------------------------------------------
(* QueueManager::getDownload, called by DownloadManager::checkDownloads.     *)

\* UserQueue::getNextL under g_cs: reserve a segment.  The caller may find all
\* download slots taken and give it back before it unlocks, which changes
\* nothing.
GetNext(c) ==
    /\ pc[c] = "idle" /\ c \notin closing
    /\ c \in listed /\ c \in sources /\ ~paused
    /\ downloads = {} \/ allowSegments
    /\ \E t \in Targets : \E s \in NextSegments(t) :
          /\ downloads' = downloads \cup {[seg |-> s, d |-> NoConn]}
          /\ seg' = [seg EXCEPT ![c] = s]
    /\ added' = [added EXCEPT ![c] = TRUE]
    /\ kind' = [kind EXCEPT ![c] = "FILE"]
    /\ Goto(c, "tree")
    /\ UNCHANGED <<item, done, miscounted, tth, running, closing, received, finished, user>>

\* The tree is looked up in the database, after g_cs is released.
TreeFound(c) ==
    /\ pc[c] = "tree" /\ tree
    /\ IF TreeBlock > blockSize
       THEN /\ blockSize' = TreeBlock
            /\ Goto(c, "regrow")
            /\ UNCHANGED allowSegments
       ELSE /\ allowSegments' = TRUE
            /\ Goto(c, "attach")
            /\ UNCHANGED blockSize
    /\ UNCHANGED <<item, segs, tree, running, seg, added, kind, closing, received,
                   finished, user>>

TreeMissing(c) ==
    /\ pc[c] = "tree" /\ ~tree
    /\ kind' = [kind EXCEPT ![c] = IF c \in noTree THEN "FILE" ELSE "TREE"]
    /\ Goto(c, "unreserve")
    /\ UNCHANGED <<item, segs, tth, running, seg, added, closing, received, finished, user>>

\* removeDownload(seg): the reservation is given up, either because the block
\* size grew or because the tree or the whole file is fetched instead.
Unreserve(c) ==
    /\ pc[c] \in {"regrow", "unreserve"}
    /\ \/ SegmentEntries(seg[c]) = {} /\ UNCHANGED downloads
       \/ \E x \in SegmentEntries(seg[c]) : downloads' = downloads \ {x}
    /\ added' = [added EXCEPT ![c] = FALSE]
    /\ seg' = [seg EXCEPT ![c] = Whole]
    /\ Goto(c, IF pc[c] = "regrow" THEN "again" ELSE "attach")
    /\ UNCHANGED <<item, done, miscounted, tth, running, kind, closing, received,
                   finished, user>>

\* Another segment is chosen with the new block size, under the read lock.
SelectAgain(c) ==
    /\ pc[c] = "again"
    /\ allowSegments' = TRUE
    /\ \/ /\ c \in sources
          /\ \E t \in Targets : \E s \in NextSegments(t) : seg' = [seg EXCEPT ![c] = s]
          /\ Goto(c, "attach")
          /\ UNCHANGED <<added, kind>>
       \/ /\ c \notin sources \/ \E t \in Targets : {} \in SearchResults(t)
          /\ Leave(c)
    /\ UNCHANGED <<item, segs, blockSize, tree, running, closing, received, finished,
                   user>>

\* setDownloadForSegment, or addDownload(d): the latter records the segment of
\* the Download before getDownload sets it, the default Segment().
Attach(c) ==
    /\ pc[c] = "attach"
    /\ \/ /\ added[c]
          /\ \/ SegmentEntries(seg[c]) = {} /\ UNCHANGED downloads
             \/ \E x \in SegmentEntries(seg[c]) :
                   downloads' = (downloads \ {x}) \cup {[x EXCEPT !.d = c]}
       \/ /\ ~added[c]
          /\ downloads' = downloads \cup {[seg |-> Whole, d |-> c]}
    /\ Goto(c, "register")
    /\ UNCHANGED <<item, done, miscounted, tth, running, seg, added, kind, closing,
                   received, finished, user>>

\* setRunningDownload, and checkDownloads sends the request.
Register(c) ==
    /\ pc[c] = "register"
    /\ running' = running \cup {c}
    /\ Goto(c, "requested")
    /\ UNCHANGED <<item, segs, tth, seg, added, kind, closing, received, finished, user>>

-----------------------------------------------------------------------------
(* The transfer, and QueueManager::putDownload.                              *)

\* DownloadManager::startData and QueueManager::setFile: the answer arrives.
StartData(c) ==
    /\ pc[c] = "requested"
    /\ kind[c] = "FILE" => ~removed
    /\ Goto(c, "data")
    /\ UNCHANGED <<item, segs, tth, running, seg, added, kind, closing, received,
                   finished, user>>

\* What putDownload(d, false) keeps of a Download of which n units arrived: whole
\* blocks of the tree the Download was given (units if it has none).  Nothing is
\* the segment Whole.
Kept(c, n) ==
    LET k == IF seg[c] = Whole THEN n ELSE n - (n % TreeBlock)
    IN  IF k > 0 THEN <<seg[c][1], seg[c][1] + k>> ELSE Whole

\* The thread goes on to l.  The connection keeps its pointer to the Download: if
\* it is put back a second time, seg[c] is what is added then.
GoOn(c, l, n) ==
    /\ Goto(c, l)
    /\ seg' = [seg EXCEPT ![c] = Kept(c, n)]
    /\ UNCHANGED <<added, kind>>

PutBack(c, n) == IF queued THEN GoOn(c, "release", n) ELSE Leave(c)

\* putDownload(d, true) for a segment of the file.
FinishFile(c) ==
    /\ pc[c] = "data" /\ kind[c] = "FILE"
    /\ \/ /\ queued
          /\ AddSegment(IF seg[c] = Whole THEN <<0, Size>> ELSE seg[c], "first")
          /\ received' = received \cup Units(seg[c])
          /\ GoOn(c, "check", SizeOf(seg[c]))
       \/ /\ ~queued
          /\ Leave(c)
          /\ UNCHANGED <<done, miscounted, received>>
    /\ UNCHANGED <<item, downloads, tth, running, closing, finished, user>>

\* putDownload(d, true) for the hash tree: it is stored, or it has too few
\* leaves to be of use and is not asked for again.
FinishTree(c) ==
    /\ pc[c] = "data" /\ kind[c] = "TREE"
    /\ \/ /\ queued
          /\ \/ tree' = TRUE /\ kind' = [kind EXCEPT ![c] = "GOTTREE"] /\ UNCHANGED noTree
             \/ noTree' = noTree \cup (sources \cap {c}) /\ UNCHANGED <<tree, kind>>
          /\ Goto(c, "release")
          /\ UNCHANGED <<seg, added>>
       \/ /\ ~queued
          /\ Leave(c)
          /\ UNCHANGED <<tree, noTree>>
    /\ UNCHANGED <<queued, removed, sources, listed, paused, segs, blockSize,
                   allowSegments, running, closing, received, finished, user>>

\* The rest of a broken block is counted as well.
FailAfterRoundedUp(c, n) ==
    LET s == seg[c][1]
        kept == IF seg[c] = Whole THEN n ELSE roundUp(n, TreeBlock)
    IN  IF queued /\ kept > 0
        THEN /\ AddSegment(<<s, s + kept>>, "first")
             /\ received' = received \cup ((s .. (s + n - 1)) \cap done')
        ELSE UNCHANGED <<done, miscounted, received>>

\* putDownload(d, false) after n units arrived: they are kept up to a block of
\* the tree; the rest is going to be fetched again.  The end of a plain transfer
\* is its last unit; that of a compressed one may come after it, so that all
\* units can be there before.
FailAfter(c, n) ==
    LET s == seg[c][1]
        kept == IF seg[c] = Whole THEN n ELSE n - (n % TreeBlock)
    IN  IF queued /\ kept > 0
        THEN /\ AddSegment(<<s, s + kept>>, "first")
             /\ received' = received \cup ((s .. (s + n - 1)) \cap done')
        ELSE UNCHANGED <<done, miscounted, received>>

\* All units may be there before the transfer fails.
FailAtEnd(c) ==
    /\ \/ /\ pc[c] = "data" /\ kind[c] = "FILE"
          /\ \E n \in 0 .. SizeOf(seg[c]) :
                FailAfter(c, n) /\ PutBack(c, n)
       \/ /\ pc[c] = "requested" \/ (pc[c] = "data" /\ kind[c] = "TREE")
          /\ PutBack(c, 0)
          /\ UNCHANGED <<done, miscounted, received>>
    /\ UNCHANGED <<item, downloads, tth, running, closing, finished, user>>

Fail(c) ==
    /\ \/ /\ pc[c] = "data" /\ kind[c] = "FILE"
          /\ \E n \in 0 .. SizeOf(seg[c]) :
                /\ n < SizeOf(seg[c]) \/ Compressed
                /\ FailAfter(c, n) /\ PutBack(c, n)
       \/ /\ pc[c] = "requested" \/ (pc[c] = "data" /\ kind[c] = "TREE")
          /\ PutBack(c, 0)
          /\ UNCHANGED <<done, miscounted, received>>
    /\ UNCHANGED <<item, downloads, tth, running, closing, finished, user>>

\* The user's segment stays in the item.
DropUserKeepingSegment(c) ==
    /\ UNCHANGED downloads
    /\ running' = running \ {c}

\* The user stays in runningMap.
DropUserKeepingRunning(c) ==
    /\ downloads' = downloads \ UserEntries(downloads, c)
    /\ UNCHANGED running

\* UserQueue::removeDownload(q, user).
DropUser(c) ==
    /\ \/ UserEntries(downloads, c) = {} /\ UNCHANGED downloads
       \/ \E x \in UserEntries(downloads, c) : downloads' = downloads \ {x}
    /\ running' = running \ {c}

\* The connection either gets another Download next (if any), or it is going to
\* fail before that, with the pointer to this one: it is stale.
Release(c) ==
    /\ pc[c] = "release"
    /\ DropUser(c)
    /\ allowSegments' = (allowSegments \/ kind[c] = "GOTTREE")
    /\ \/ Leave(c)
       \/ seg[c] # Whole /\ Stay(c, "stale")
    /\ UNCHANGED <<item, done, miscounted, blockSize, tree, closing, received, finished,
                   user>>

\* A connection that fails before it is given another Download puts the one it
\* still points to back again, as one that failed (failDownload).
PutAgain(c) ==
    /\ pc[c] = "stale"
    /\ \/ /\ queued
          /\ AddSegment(seg[c], "again")
          /\ received' = received \cup Units(seg[c])
          /\ GoOn(c, "release", 0)
       \/ /\ ~queued
          /\ Leave(c)
          /\ UNCHANGED <<done, miscounted, received>>
    /\ UNCHANGED <<item, downloads, tth, running, closing, finished, user>>

\* The file is taken as complete when its last unit is there.
CheckFinishedAtLastUnit(c) ==
    /\ pc[c] = "check"
    /\ Goto(c, IF Size - 1 \in done THEN "complete" ELSE "release")
    /\ UNCHANGED <<item, segs, tth, running, seg, added, kind, closing, received,
                   finished, user>>

\* isFinished, under csSegments again.
CheckFinished(c) ==
    /\ pc[c] = "check"
    /\ Goto(c, IF done = AllUnits THEN "complete" ELSE "release")
    /\ UNCHANGED <<item, segs, tth, running, seg, added, kind, closing, received,
                   finished, user>>

\* disconnectOthers, the move of the file, and the Finished event.
Complete(c) ==
    /\ pc[c] = "complete"
    /\ closing' = closing \cup {x.d : x \in {y \in downloads : y.d \notin {c, NoConn}}}
    /\ finished' = finished + 1
    /\ Goto(c, "unlist")
    /\ UNCHANGED <<item, segs, tth, running, seg, added, kind, received, user>>

\* removeItem: UserQueue::removeQueueItem, then FileQueue::remove, which clears
\* what is left in downloads.
Unlist ==
    /\ listed' = listed \ sources
    /\ downloads' = {x \in downloads : x.d \notin sources}
    /\ running' = running \ sources

Unqueue ==
    /\ queued' = FALSE
    /\ downloads' = {}

CompleteUnlist(c) ==
    /\ pc[c] = "unlist"
    /\ Unlist
    /\ Goto(c, "unqueue")
    /\ UNCHANGED <<queued, removed, sources, paused, noTree, done, miscounted, tth, seg,
                   added, kind, closing, received, finished, user>>

CompleteUnqueue(c) ==
    /\ pc[c] = "unqueue"
    /\ Unqueue
    /\ Leave(c)
    /\ UNCHANGED <<removed, sources, listed, paused, noTree, done, miscounted, tth, running,
                   closing, received, finished, user>>

\* The user connects again after the connection was closed.
Reconnect(c) ==
    /\ pc[c] = "idle" /\ c \in closing
    /\ closing' = closing \ {c}
    /\ UNCHANGED <<item, segs, tth, running, local, received, finished, user>>

-----------------------------------------------------------------------------
(* Sources and the user's requests.                                          *)

\* What removeSource(target, user, reason) does under g_cs.
TakeSource(c) ==
    /\ sources' = sources \ {c}
    /\ listed' = listed \ {c}
    /\ downloads' = downloads \ UserEntries(downloads, c)
    /\ running' = running \ {c}

\* endData finds that the tree is of another file, or the source answers that
\* it has no such file: the source is removed, then the download is put back.
BadSource(c) ==
    /\ \/ pc[c] = "data" /\ kind[c] = "TREE"
       \/ pc[c] = "requested"
    /\ \/ queued /\ c \in sources /\ TakeSource(c)
       \/ ~(queued /\ c \in sources) /\ UNCHANGED <<sources, listed, downloads, running>>
    /\ noTree' = IF queued /\ c \in sources /\ kind[c] = "TREE" /\ pc[c] = "requested"
                 THEN noTree \cup {c} ELSE noTree
    /\ PutBack(c, 0)
    /\ UNCHANGED <<queued, removed, paused, done, miscounted, tth, closing, received,
                   finished, user>>

\* removeSource by the user: a source that is running is disconnected after
\* g_cs is released.
RemoveSource(c) ==
    /\ "removeSource" \in UserOps
    /\ upc = "idle" /\ queued /\ c \in sources
    /\ TakeSource(c)
    /\ IF downloads # {} /\ c \in running
       THEN upc' = "disconnect" /\ doomed' = {c}
       ELSE UNCHANGED user
    /\ UNCHANGED <<queued, removed, paused, noTree, done, miscounted, tth, local, closing,
                   received, finished>>

\* addSourceL: a user is found to have the file (again).
AddSource(c) ==
    /\ queued /\ c \notin sources
    /\ sources' = sources \cup {c}
    /\ listed' = IF done = AllUnits THEN listed ELSE listed \cup {c}
    /\ UNCHANGED <<queued, removed, paused, noTree, segs, tth, running, local, closing,
                   received, finished, user>>

\* removeTarget: getUsers notes who is downloading, removeItem takes the item
\* out of both queues, and the noted connections are disconnected at the end.
RemoveTarget ==
    /\ "removeTarget" \in UserOps
    /\ upc = "idle" /\ queued
    /\ removed' = TRUE
    /\ doomed' = {x.d : x \in {y \in downloads : y.d # NoConn}}
    /\ upc' = "unlist"
    /\ UNCHANGED <<queued, sources, listed, paused, noTree, segs, tth, running, local,
                   closing, received, finished>>

RemoveTargetUnlist ==
    /\ upc = "unlist"
    /\ Unlist
    /\ upc' = "unqueue"
    /\ UNCHANGED <<queued, removed, sources, paused, noTree, done, miscounted, tth, local,
                   closing, received, finished, doomed>>

RemoveTargetUnqueue ==
    /\ upc = "unqueue"
    /\ Unqueue
    /\ upc' = "disconnect"
    /\ UNCHANGED <<removed, sources, listed, paused, noTree, done, miscounted, tth, running,
                   local, closing, received, finished, doomed>>

\* ConnectionManager::disconnect for each of them.
Disconnect ==
    /\ upc = "disconnect"
    /\ closing' = closing \cup doomed
    /\ doomed' = {}
    /\ upc' = "idle"
    /\ UNCHANGED <<item, segs, tth, running, local, received, finished>>

\* setPriority(PAUSED): setQIPriority takes the running segments of the sources
\* out of the item; abortDownload then disconnects those that are transferring.
Pause ==
    /\ "pause" \in UserOps
    /\ upc = "idle" /\ queued /\ ~paused /\ done # AllUnits
    /\ paused' = TRUE
    /\ listed' = sources
    /\ downloads' = {x \in downloads : x.d \notin sources}
    /\ running' = running \ sources
    /\ upc' = IF downloads = {} THEN "idle" ELSE "abort"
    /\ UNCHANGED <<queued, removed, sources, noTree, done, miscounted, tth, local, closing,
                   received, finished, doomed>>

AbortDownload ==
    /\ upc = "abort"
    /\ closing' = closing \cup {c \in Conns : pc[c] \in {"requested", "data"}}
    /\ upc' = "idle"
    /\ UNCHANGED <<item, segs, tth, running, local, received, finished, doomed>>

Resume ==
    /\ upc = "idle" /\ queued /\ paused /\ done # AllUnits
    /\ paused' = FALSE
    /\ listed' = sources
    /\ UNCHANGED <<queued, removed, sources, noTree, segs, tth, running, local, closing,
                   received, finished, user>>

UserStep ==
    \/ \E c \in Conns : RemoveSource(c) \/ AddSource(c)
    \/ RemoveTarget \/ RemoveTargetUnlist \/ RemoveTargetUnqueue \/ Disconnect
    \/ Pause \/ AbortDownload \/ Resume

GetDownload(c) ==
    \/ GetNext(c) \/ TreeFound(c) \/ TreeMissing(c) \/ Unreserve(c)
    \/ SelectAgain(c) \/ Attach(c) \/ Register(c)

PutDownload(c) ==
    \/ FinishFile(c) \/ FinishTree(c) \/ Fail(c) \/ BadSource(c) \/ Release(c)
    \/ PutAgain(c) \/ CheckFinished(c) \/ Complete(c) \/ CompleteUnlist(c) \/ CompleteUnqueue(c)

Next ==
    \/ \E c \in Conns : GetDownload(c) \/ StartData(c) \/ PutDownload(c) \/ Reconnect(c)
    \/ UserStep

Spec == Init /\ [][Next]_vars
-----------------------------------------------------------------------------
(* Properties.                                                               *)

\* Where a connection's thread holds a reservation without a Download, and
\* where it has a Download that is recorded in the item.
Reserving == {"tree", "regrow", "unreserve", "attach"}
Recorded == {"register", "requested", "data", "check", "complete", "unlist", "unqueue",
             "release"}

\* The segments recorded for running downloads never overlap (the default
\* Segment(), of size -1, overlaps nothing), whatever the threads of the
\* connections and the user do in between.
ReservedDisjoint ==
    \A x, y \in downloads : x # y => ~Overlaps(x.seg, y.seg)

\* No running segment outlives its owner: a reservation belongs to exactly one
\* thread inside getDownload, and an entry with a Download to a connection that
\* has not put it back yet.  A leaked entry would keep its segment from ever
\* being fetched.
EntriesOwned ==
    queued => \A x \in downloads :
       \/ /\ x.d = NoConn
          /\ \E c \in Conns : /\ pc[c] \in Reserving /\ added[c] /\ seg[c] = x.seg
                              /\ \A e \in Conns : (pc[e] \in Reserving /\ added[e]
                                                     /\ seg[e] = x.seg) => e = c
       \/ x.d \in Conns /\ pc[x.d] \in Recorded

\* runningMap names no user whose download of the item has been put back: such
\* a user would take a file slot (FILE_SLOTS) for nothing.
RunningLive ==
    queued => \A c \in running : pc[c] \in Recorded

\* Only data that arrived is marked as done, although a broken transfer is
\* rounded to blocks and the block size may grow meanwhile.
DoneReceived == done \subseteq received

\* The Finished event is fired only for a file that is complete.
FinishedComplete == finished > 0 => done = AllUnits /\ received = AllUnits

\* As long as something is missing and nothing is being fetched, the search
\* offers a segment to whoever asks for one.
NeverStuck ==
    (queued /\ downloads = {} /\ done # AllUnits /\ MaxSegments > 0)
       => \A t \in Targets : {} \notin SearchResults(t)

\* Connections that fetch data of the file and are not being disconnected.
Fetching == {c \in Conns \ closing : pc[c] \in {"requested", "data"} /\ kind[c] = "FILE"}

\* "Next segment that is not done and not being downloaded" (QueueItem.h):
\* as long as the user keeps the file, no two connections fetch the same unit
\* at the same time.
FetchedOnce ==
    ~removed => \A c, e \in Fetching : c # e => Units(seg[c]) \cap Units(seg[e]) = {}

\* doneSegmentsSize, which the choice of the next chunk and the progress are
\* computed from, is the size of what is done, except for what is put back a
\* second time (PutAgain): a first put never brings what is done already.
DoneSizeExact == "first" \notin miscounted

\* "Disallow multiple segments when getting a tree, file list or file of unknown
\* size" (getNextL): while one connection fetches the tree, or the whole file
\* because there is no tree, no other fetches anything of the file.
ExclusiveWithoutTree ==
    \A c, e \in Conns :
       (/\ c # e
        /\ {pc[c], pc[e]} \subseteq {"requested", "data"}
        /\ {c, e} \cap closing = {})
         => kind[c] = "FILE" /\ seg[c] # Whole

\* A complete file that is still queued is in the hands of a thread that goes on
\* to finish or remove it; putDownload looks only after a transfer that succeeds.
CompletionPending ==
    (queued /\ done = AllUnits)
       => \/ upc \in {"unlist", "unqueue"}
          \/ \E c \in Conns : pc[c] \in {"check", "complete", "unlist", "unqueue"}

-----------------------------------------------------------------------------
(* The abstract view: the entries of downloads are leases, doneSegments is   *)
(* what was gained under them.                                               *)
Leases == INSTANCE SegmentLeases
              WITH have <- done, leases <- SegsOf(downloads), complete <- finished > 0

\* With the tree at hand and the file left alone by the user, the threads of the
\* connections together work like the leases: what is done was written under a
\* segment that no other connection was given, and the file is finished and its
\* segments called off only when all of it is there.
RefinesLeases == Leases!Spec

-----------------------------------------------------------------------------
(* Liveness.  The program's threads keep running; a connection that is idle  *)
(* is polled by ConnectionManager::checkConnections; a closed one is opened  *)
(* again by the timer.  Of the sources it is assumed that one that is asked  *)
(* again and again answers in the end, and delivers in the end.              *)

Fairness ==
    \A c \in Conns :
       /\ WF_vars(GetDownload(c)) /\ WF_vars(Reconnect(c))
       /\ WF_vars(Release(c) \/ PutAgain(c) \/ CheckFinished(c) \/ Complete(c)
                    \/ CompleteUnlist(c) \/ CompleteUnqueue(c))
       /\ SF_vars(StartData(c)) /\ SF_vars(FinishFile(c)) /\ SF_vars(FinishTree(c))

FairSpec == Spec /\ Fairness

\* A file that keeps having a source is finished in the end: no reservation,
\* tree request, growth of the block size or broken transfer blocks it forever.
Completes == ([]<>(sources # {})) => <>(finished > 0)
=============================================================================
