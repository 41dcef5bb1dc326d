---------------------------- MODULE UploadSlots ----------------------------
(***************************************************************************)
(* How UploadManager shares out its upload slots and keeps the queue of     *)
(* users waiting for one (client/UploadManager.cpp).                        *)
(*                                                                          *)
(* Every connection is served by its own socket thread.  The requests of    *)
(* all of them go through prepareFile, which holds no lock from its look at *)
(* the counters to their update: pc[c] says how far the thread of           *)
(* connection c has come.  The timer notifies waiting users and lets        *)
(* entries expire; the user of the program grants and withdraws slots.      *)
(*                                                                          *)
(* Times are abstracted to whether they have passed, the list slotQueue to   *)
(* the users in it and who is ahead of whom.  Left out: which file          *)
(* is asked for beyond its kind, the list of uploads kept for logging       *)
(* (finishedUploads), extra slots by address (ipGrant).                     *)
(***************************************************************************)
EXTENDS Integers, FiniteSets

CONSTANTS
    Users,         \* remote users
    Conns,         \* UserConnection objects; each is used for one connection
    NoUser,        \* the connection has no user yet
    Slots,         \* getSlots()
    ExtraSlots,    \* setting EXTRA_SLOTS: mini slots
    PartialSlots,  \* setting EXTRA_PARTIAL_SLOTS
    AutoSlots,     \* setting AUTO_SLOTS
    AutoGrant,     \* BOOLEAN: setting AUTO_SLOT_MIN_UL_SPEED is not 0
    Favorites,     \* users with hasAutoGrantSlot
    Kinds,         \* kinds of requests: "file", "mini" (list, small file), "partial"
    Granted,       \* users whom reserveSlot may give an extra slot, or who are downloaded from
    PeerErrors,    \* BOOLEAN: peers send $Error or a fatal STA
    MaxLost        \* bound on what lost updates of a counter add up to

ASSUME UsersAssumption == NoUser \notin Users /\ Favorites \subseteq Users
                          /\ Granted \subseteq Users
ASSUME FiniteAssumption == IsFiniteSet(Conns) /\ IsFiniteSet(Users)
ASSUME SlotsAssumption == /\ Slots \in Nat /\ ExtraSlots \in Nat
                          /\ PartialSlots \in Nat /\ AutoSlots \in Nat
                          /\ MaxLost \in Nat
ASSUME KindsAssumption == Kinds \subseteq {"file", "mini", "partial"}
ASSUME SlotFlagsAssumption == AutoGrant \in BOOLEAN /\ PeerErrors \in BOOLEAN

VARIABLES
    pc,            \* pc[c]: where the socket thread of c is
    user,          \* user[c]
    slotType,      \* slotType[c] of the UserConnection
    grant,         \* grant[c]: prepareFile's local slotType
    saw,           \* saw[c]: prepareFile's hasReserved and hasFreeSlot, and the request
    uploads,       \* connections whose Upload is in the list uploads
    count,         \* the counters g_running, extra and extraPartial
    waiting,       \* users in slotQueue
    ahead,         \* pairs <<u, v>> such that u comes before v in slotQueue
    notified,      \* notifiedUsers: "fresh" or "passed" for who is in it, else "none"
    reserved,      \* reservedSlots, likewise
    lost,          \* history: lost[k], what updates of count[k] that were lost add up to
    recent,        \* less than 30 s since lastGrant
    online         \* users that are online

slotQueue == <<waiting, ahead>>
queue == <<slotQueue, notified>>
conn == <<pc, user, slotType, grant, saw, uploads>>
counters == <<count, lost>>
vars == <<conn, counters, queue, reserved, recent, online>>

SlotTypes == {"NOSLOT", "STDSLOT", "RESSLOT", "MINISLOT", "PFS_SLOT"}
Counters == {"running", "extra", "extraPartial"}
Ages == {"none", "fresh", "passed"}
PCs == {"new", "get", "asked", "consulted", "clear", "list", "swap", "swapped", "send",
        "running", "closing", "unused"}
Nothing == [kind |-> "file", hasReserved |-> FALSE, hasFreeSlot |-> FALSE]
Saw == [kind : {"file", "mini", "partial"}, hasReserved : BOOLEAN, hasFreeSlot : BOOLEAN]

TypeOK ==
    /\ pc \in [Conns -> PCs]
    /\ user \in [Conns -> Users \cup {NoUser}]
    /\ slotType \in [Conns -> SlotTypes]
    /\ grant \in [Conns -> SlotTypes]
    /\ saw \in [Conns -> Saw]
    /\ uploads \subseteq Conns
    /\ count \in [Counters -> Int] /\ lost \in [Counters -> -MaxLost .. MaxLost]
    /\ waiting \subseteq Users /\ ahead \subseteq waiting \X waiting
    /\ notified \in [Users -> Ages]
    /\ reserved \in [Users -> Ages]
    /\ recent \in BOOLEAN
    /\ online \subseteq Users

Init ==
    /\ pc = [c \in Conns |-> "new"]
    /\ user = [c \in Conns |-> NoUser]
    /\ slotType = [c \in Conns |-> "NOSLOT"]
    /\ grant = [c \in Conns |-> "NOSLOT"]
    /\ saw = [c \in Conns |-> Nothing]
    /\ uploads = {}
    /\ count = [k \in Counters |-> 0] /\ lost = [k \in Counters |-> 0]
    /\ waiting = {} /\ ahead = {}
    /\ notified = [u \in Users |-> "none"]
    /\ reserved = [u \in Users |-> "none"]
    /\ recent = FALSE
    /\ online = Users

Goto(c, l) == pc' = [pc EXCEPT ![c] = l]
Live(c) == pc[c] \notin {"new", "unused"}
Notified == {u \in Users : notified[u] # "none"}

\* The users of S leave slotQueue.
LeaveQueue(S) ==
    /\ waiting' = waiting \ S
    /\ ahead' = {p \in ahead : p[1] \notin S /\ p[2] \notin S}

getFreeSlots == IF Slots > count["running"] THEN Slots - count["running"] ELSE 0
getFreeExtraSlots == IF ExtraSlots > count["extra"] THEN ExtraSlots - count["extra"] ELSE 0

\* The counters that a slot of some type is counted in, at most one.
CounterOf(type) ==
    {k \in Counters : \/ k = "running" /\ type \in {"STDSLOT", "RESSLOT"}
                      \/ k = "extra" /\ type = "MINISLOT"
                      \/ k = "extraPartial" /\ type = "PFS_SLOT"}
Counted(k) == {c \in Conns : pc[c] # "swapped" /\ k \in CounterOf(slotType[c])}

-----------------------------------------------------------------------------
\* addUploadConnection takes at most one connection of a user; then
\* UploadManager::addConnection.
AddConnection(c) ==
    /\ pc[c] = "new"
    /\ \E u \in online :
          /\ \A e \in Conns : Live(e) => user[e] # u
          /\ user' = [user EXCEPT ![c] = u]
    /\ Goto(c, "get")
    /\ UNCHANGED <<slotType, grant, saw, uploads, counters, queue, reserved, recent, online>>

(* prepareFile, from the choice of the slot on.                              *)

\* The reservation is looked up, or the user is one the program downloads from
\* (EXTRA_SLOT_TO_DL), and the number of free slots is read.  A connection with
\* a slot that needs no new one goes on at once.
Ask(c) ==
    /\ pc[c] = "get"
    /\ \E k \in Kinds : \E dl \in (IF user[c] \in Granted THEN BOOLEAN ELSE {FALSE}) :
          LET hasReserved == reserved[user[c]] = "fresh" \/ dl
              own == IF slotType[c] = "RESSLOT" /\ ~hasReserved THEN "NOSLOT" ELSE slotType[c]
          IN  /\ saw' = [saw EXCEPT ![c] = [kind |-> k, hasReserved |-> hasReserved,
                                            hasFreeSlot |-> getFreeSlots > 0]]
              /\ grant' = [grant EXCEPT ![c] = own]
              /\ Goto(c, IF own \in {"STDSLOT", "RESSLOT"} /\ ~hasReserved
                         THEN "clear" ELSE "asked")
    /\ UNCHANGED <<user, slotType, uploads, counters, queue, reserved, recent, online>>

\* Under csQueue: a free slot is for those who were notified, if anyone waits.
Consult(c) ==
    /\ pc[c] = "asked"
    /\ saw' = [saw EXCEPT ![c].hasFreeSlot =
                  @ /\ \/ waiting = {} /\ Notified = {}
                       \/ user[c] \in Notified]
    /\ Goto(c, "consulted")
    /\ UNCHANGED <<user, slotType, grant, uploads, counters, queue, reserved, recent, online>>

\* getAutoSlot: the speed is below the threshold or not.
getAutoSlot ==
    IF AutoGrant /\ ~(Slots + AutoSlots < count["running"]) /\ ~recent THEN BOOLEAN ELSE {FALSE}

\* hasUpload: another upload may go to the same address.
hasUpload(c) == IF uploads = {} THEN {FALSE} ELSE BOOLEAN

\* The slot, if any, the connection gets.
SlotFor(c, isAutoSlot, isLeecher) ==
    LET isFavGrant == user[c] \in Favorites
        ok == saw[c].hasReserved \/ isFavGrant \/ isAutoSlot \/ saw[c].hasFreeSlot
    IN  IF ok /\ ~isLeecher
        THEN {IF saw[c].hasReserved THEN "RESSLOT" ELSE "STDSLOT"}
        ELSE IF saw[c].kind = "mini" /\ (grant[c] = "MINISLOT" \/ getFreeExtraSlots > 0)
             THEN {"MINISLOT"}
             ELSE IF saw[c].kind = "partial"
                       /\ (grant[c] = "PFS_SLOT" \/ count["extraPartial"] < PartialSlots)
                  THEN {"PFS_SLOT"}
                  ELSE {}

\* A user that is refused again goes to the end of the queue, leaving its place.
AddToQueueAgain(u) ==
    /\ waiting' = waiting \cup {u}
    /\ ahead' = ahead \cup (waiting \X {u})

\* addToQueue: a user that is refused again keeps its place.
AddToQueue(u) ==
    /\ waiting' = waiting \cup {u}
    /\ ahead' = IF u \in waiting THEN ahead ELSE ahead \cup (waiting \X {u})

Decide(c) ==
    /\ pc[c] = "consulted"
    /\ \E auto \in getAutoSlot : \E lee \in hasUpload(c) :
          LET favoured == saw[c].hasReserved \/ user[c] \in Favorites
              slot == SlotFor(c, auto, lee /\ ~favoured)
          IN  \/ /\ slot = {}
                 /\ AddToQueue(user[c])
                 /\ Goto(c, "get")
                 /\ grant' = [grant EXCEPT ![c] = "NOSLOT"]
                 /\ saw' = [saw EXCEPT ![c] = Nothing]
                 /\ UNCHANGED recent
              \/ \E s \in slot :
                 /\ grant' = [grant EXCEPT ![c] = s]
                 /\ saw' = [saw EXCEPT ![c] = Nothing]
                 /\ recent' = TRUE
                 /\ Goto(c, "clear")
                 /\ UNCHANGED slotQueue
    /\ UNCHANGED <<user, slotType, uploads, counters, notified, reserved, online>>

\* The user is taken out of the queue only.
ClearQueueOnly(c) ==
    /\ pc[c] = "clear"
    /\ LeaveQueue({user[c]})
    /\ Goto(c, "list")
    /\ UNCHANGED <<user, slotType, grant, saw, uploads, counters, notified, reserved, recent,
                   online>>

\* The user's place in the queue is not given up.
ClearNotPlace(c) ==
    /\ pc[c] = "clear"
    /\ waiting' = waiting \ {user[c]} /\ ahead' = ahead
    /\ notified' = [notified EXCEPT ![user[c]] = "none"]
    /\ Goto(c, "list")
    /\ UNCHANGED <<user, slotType, grant, saw, uploads, counters, reserved, recent, online>>

\* Under csQueue: the user waits no longer and needs no slot kept for it.
ClearUser(c) ==
    /\ pc[c] = "clear"
    /\ LeaveQueue({user[c]})
    /\ notified' = [notified EXCEPT ![user[c]] = "none"]
    /\ Goto(c, "list")
    /\ UNCHANGED <<user, slotType, grant, saw, uploads, counters, reserved, recent, online>>

\* The Upload is created and listed.
ListUpload(c) ==
    /\ pc[c] = "list"
    /\ uploads' = uploads \cup {c}
    /\ Goto(c, IF slotType[c] # grant[c] THEN "swap" ELSE "send")
    /\ UNCHANGED <<user, slotType, grant, saw, counters, queue, reserved, recent, online>>

\* The counter the thread of e is about to update.
Updating(e) ==
    IF pc[e] = "swapped" THEN CounterOf(grant[e])
    ELSE IF pc[e] \in {"swap", "closing"} THEN CounterOf(slotType[e]) ELSE {}

\* The counters are plain integers that no lock protects: the update by c's
\* thread is lost when another thread reads the counter before it and writes it
\* after it.
processSlot(c, type, delta) ==
    LET Add(f, n) == [k \in Counters |-> IF k \in CounterOf(type) THEN f[k] + n ELSE f[k]]
    IN  \/ count' = Add(count, delta) /\ UNCHANGED lost
        \/ /\ \E e \in Conns \ {c} : CounterOf(type) \cap Updating(e) # {}
           /\ lost' = Add(lost, -delta)
           /\ \A k \in Counters : lost'[k] \in -MaxLost .. MaxLost
           /\ UNCHANGED count

\* The old slot is not given back.
KeepSlot(c) ==
    /\ pc[c] = "swap"
    /\ Goto(c, "swapped")
    /\ UNCHANGED <<user, slotType, grant, saw, uploads, counters, queue, reserved, recent,
                   online>>

\* The old slot is given back, then the new one is taken.
ReturnSlot(c) ==
    /\ pc[c] = "swap"
    /\ processSlot(c, slotType[c], -1)
    /\ Goto(c, "swapped")
    /\ UNCHANGED <<user, slotType, grant, saw, uploads, queue, reserved, recent, online>>

TakeSlot(c) ==
    /\ pc[c] = "swapped"
    /\ processSlot(c, grant[c], 1)
    /\ slotType' = [slotType EXCEPT ![c] = grant[c]]
    /\ Goto(c, "send")
    /\ UNCHANGED <<user, grant, saw, uploads, queue, reserved, recent, online>>

-----------------------------------------------------------------------------
\* processGET, processGetBlock, or processGet followed by processSend.
Send(c) ==
    /\ pc[c] = "send"
    /\ grant' = [grant EXCEPT ![c] = "NOSLOT"]
    /\ saw' = [saw EXCEPT ![c] = Nothing]
    /\ Goto(c, "running")
    /\ UNCHANGED <<user, slotType, uploads, counters, queue, reserved, recent, online>>

\* transmitDone; the connection keeps its slot for the next request.
TransmitDone(c) ==
    /\ pc[c] = "running"
    /\ uploads' = uploads \ {c}
    /\ Goto(c, "get")
    /\ UNCHANGED <<user, slotType, grant, saw, counters, queue, reserved, recent, online>>

\* UserConnection::failed: the socket is closed by either side or times out;
\* UploadManager::failed calls removeUpload and then removeConnectionSlot.
Fail(c) ==
    /\ pc[c] \in {"get", "send", "running"}
    /\ uploads' = uploads \ {c}
    /\ Goto(c, "closing")
    /\ UNCHANGED <<user, slotType, grant, saw, counters, queue, reserved, recent, online>>

RemoveConnectionSlot(c) ==
    /\ pc[c] = "closing"
    /\ processSlot(c, slotType[c], -1)
    /\ slotType' = [slotType EXCEPT ![c] = "NOSLOT"]
    /\ Goto(c, "unused")
    /\ UNCHANGED <<user, grant, saw, uploads, queue, reserved, recent, online>>

\* UserConnection::protocolError, for an $Error or a fatal STA: the connection is
\* given up without a call of UploadManager::failed, and the closing of the socket
\* that follows finds the connection UNUSED and does nothing.
ProtocolError(c) ==
    /\ PeerErrors
    /\ pc[c] \in {"get", "send", "running"}
    /\ Goto(c, "unused")
    /\ UNCHANGED <<user, slotType, grant, saw, uploads, counters, queue, reserved, recent,
                   online>>

-----------------------------------------------------------------------------
\* Any n users are popped.
PoppedUnordered(n) ==
    {P \in SUBSET waiting : Cardinality(P \cap online) <= n /\ P # {}}

\* The users popped from slotQueue to notify n of them that are online: those
\* that are offline are dropped on the way.
Popped(n) ==
    {P \in SUBSET waiting :
        /\ \A v \in P : \A u \in waiting : <<u, v>> \in ahead => u \in P
        /\ Cardinality(P \cap online) <= n
        /\ \/ P = waiting
           \/ /\ Cardinality(P \cap online) = n
              /\ \E v \in P \cap online : \A u \in P \ {v} : <<u, v>> \in ahead}

\* notifyQueuedUsers, every second, under csQueue.
NotifyQueuedUsers ==
    /\ waiting # {}
    /\ getFreeSlots > Cardinality(Notified)
    /\ \E P \in Popped(getFreeSlots - Cardinality(Notified)) :
          /\ notified' = [u \in Users |-> IF u \in P \cap online THEN "fresh" ELSE notified[u]]
          /\ LeaveQueue(P)
    /\ UNCHANGED <<conn, counters, reserved, recent, online>>

\* on(Minute): notified users that did not come within 90 s are dropped, from
\* the queue as well, and so are entries of the queue that expired.
ExpireNotified ==
    /\ \E old \in SUBSET waiting :
          LeaveQueue(old \cup {u \in waiting : notified[u] = "passed"})
    /\ notified' = [u \in Users |-> IF notified[u] = "passed" THEN "none" ELSE notified[u]]
    /\ UNCHANGED <<conn, counters, reserved, recent, online>>

\* testSlotTimeout.
ExpireReserved ==
    /\ \E u \in Users : reserved[u] = "passed"
    /\ reserved' = [u \in Users |-> IF reserved[u] = "passed" THEN "none" ELSE reserved[u]]
    /\ UNCHANGED <<conn, counters, queue, recent, online>>

\* Time goes by: the 90 s of a notified user, the time of a reservation, the
\* 30 s after a grant.
TimePasses ==
    /\ \/ \E u \in Users : /\ notified[u] = "fresh"
                           /\ notified' = [notified EXCEPT ![u] = "passed"]
                           /\ UNCHANGED <<reserved, recent>>
       \/ \E u \in Users : /\ reserved[u] = "fresh"
                           /\ reserved' = [reserved EXCEPT ![u] = "passed"]
                           /\ UNCHANGED <<notified, recent>>
       \/ AutoGrant /\ recent /\ recent' = FALSE /\ UNCHANGED <<notified, reserved>>
    /\ UNCHANGED <<conn, counters, slotQueue, online>>

\* reserveSlot and unreserveSlot.
ReserveSlot(u) ==
    /\ u \in Granted
    /\ reserved' = [reserved EXCEPT ![u] = "fresh"]
    /\ UNCHANGED <<conn, counters, queue, recent, online>>

UnreserveSlot(u) ==
    /\ reserved[u] # "none"
    /\ reserved' = [reserved EXCEPT ![u] = "none"]
    /\ UNCHANGED <<conn, counters, queue, recent, online>>

\* A user leaves the hubs, on(UserDisconnected), or comes back.
UserDisconnected(u) ==
    /\ u \in online
    /\ online' = online \ {u}
    /\ LeaveQueue({u})
    /\ UNCHANGED <<conn, counters, notified, reserved, recent>>

UserConnected(u) ==
    /\ u \notin online
    /\ online' = online \cup {u}
    /\ UNCHANGED <<conn, counters, queue, reserved, recent>>

PrepareFile(c) ==
    \/ Ask(c) \/ Consult(c) \/ Decide(c) \/ ClearUser(c) \/ ListUpload(c)
    \/ ReturnSlot(c) \/ TakeSlot(c)

Next ==
    \/ \E c \in Conns : \/ AddConnection(c) \/ PrepareFile(c) \/ Send(c) \/ TransmitDone(c)
                        \/ Fail(c) \/ RemoveConnectionSlot(c) \/ ProtocolError(c)
    \/ NotifyQueuedUsers \/ ExpireNotified \/ ExpireReserved \/ TimePasses
    \/ \E u \in Users : \/ ReserveSlot(u) \/ UnreserveSlot(u)
                        \/ UserDisconnected(u) \/ UserConnected(u)

Spec == Init /\ [][Next]_vars

-----------------------------------------------------------------------------
\* The connections that were given a slot and have not yet asked for more.
Served == {c \in Conns : pc[c] \in {"list", "swap", "swapped", "send", "running"}}

\* A user who is being served neither waits for a slot nor has one kept back by
\* an old notification, although the timer moves users from the queue to
\* notifiedUsers at any time.  A stale entry would keep a free slot from all
\* others until it expires.
ServedNotWaiting ==
    \A c \in Served : user[c] \notin waiting /\ user[c] \notin Notified

\* slotQueue is a queue: its users are in one line, each with one place in it,
\* however often they are refused, notified, served or dropped.
QueueIsLine ==
    /\ \A u, v \in waiting : u # v => (<<u, v>> \in ahead) # (<<v, u>> \in ahead)
    /\ \A p \in ahead : p[1] # p[2]
    /\ \A p, q \in ahead : p[2] = q[1] => <<p[1], q[2]>> \in ahead

InOrder ==
    \A p \in ahead :
       (p[1] \in online /\ p[2] \in waiting \ waiting' /\ p[2] \notin Notified
          /\ notified'[p[2]] = "fresh")
         => notified'[p[1]] = "fresh"

\* notifyQueuedUsers passes over nobody: when a waiting user is notified, so are
\* all users ahead of it that are online.
NotifiedInOrder == [][InOrder]_vars

\* The counters that decide whether a slot is free say how many connections hold
\* one, but for the updates that were lost: every path from the grant of a slot
\* through changes of its type to the end of the connection counts it once.
SlotsCounted ==
    \A k \in Counters : count[k] = Cardinality(Counted(k)) + lost[k]

\* "Number of uploads" (getUploadCount): every element of uploads belongs to a
\* connection that is in use.
UploadsLive == \A c \in uploads : pc[c] # "unused"
=============================================================================
