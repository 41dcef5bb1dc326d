--------------------------- MODULE ConnectionQueue ---------------------------
(***************************************************************************)
(* The ConnectionQueueItems of ConnectionManager and the connections that   *)
(* are associated with them (client/ConnectionManager.cpp).                 *)
(*                                                                          *)
(* A download item is made when the queue wants a user; the timer asks the  *)
(* user for a connection, again after a timeout, and removes the item of a  *)
(* user that is gone or not wanted.  A connection that arrives is attached  *)
(* to the item of its user on its own socket thread.  An upload item lives  *)
(* as long as its connection.                                               *)
(*                                                                          *)
(* csDownloads is a readers-writer lock.  The timer and the socket threads  *)
(* look at the state of an item and then change it under the READ lock, so  *)
(* they may interleave; the writers wait until no reader is left.           *)
(*                                                                          *)
(* Delays and error counts are abstracted to the timer acting at any time.  *)
(* The handshake of a connection is abstracted to its outcome, a user and a *)
(* direction: on ADC the token decides it, on NMDC the item and $Direction. *)
(***************************************************************************)
EXTENDS FiniteSets, Naturals

CONSTANTS
    Users,    \* remote users
    Conns,    \* UserConnection objects; one that is erased may be used again
    NoUser    \* no user

ASSUME ConnectionUsersAssumption == NoUser \notin Users

VARIABLES
    item,       \* item[u]: state of u's item in downloads, or "none"
    asked,      \* users that know the token of their download item
    uploads,    \* users with an item in uploads
    pc,         \* pc[c]: where connection c is
    user,       \* user[c]
    dir,        \* dir[c]: FLAG_DOWNLOAD, FLAG_UPLOAD or neither
    assoc,      \* connections with FLAG_ASSOCIATED
    timer,      \* what the timer is doing
    todo,       \* users whose item its loop has not come to
    write,      \* the state it is about to write into an item, and whose
    condemned,  \* users whose item is in the timer's list removed
    online,     \* users that are online
    wanted,     \* users that the queue has something to download from
    requested,  \* history: online users for whom a connection was requested since
                \* they came online and were wanted
    dropped     \* history: users of a download connection that processMSG put away

items == <<item, asked, uploads>>
conns == <<pc, user, dir, assoc>>
timing == <<timer, todo, write, condemned>>
env == <<online, wanted, requested>>
vars == <<items, conns, timing, env, dropped>>

Pending == {"WAITING", "CONNECTING", "NO_DOWNLOAD_SLOTS"}
NoWrite == [user |-> NoUser, state |-> "none"]

TypeOK ==
    /\ item \in [Users -> Pending \cup {"ACTIVE", "none"}]
    /\ asked \subseteq {u \in Users : item[u] # "none"} /\ uploads \subseteq Users
    /\ pc \in [Conns -> {"none", "ready", "looked", "active", "unused"}]
    /\ user \in [Conns -> Users \cup {NoUser}]
    /\ dir \in [Conns -> {"none", "DOWNLOAD", "UPLOAD"}]
    /\ assoc \subseteq Conns
    /\ timer \in {"idle", "loop", "remove"}
    /\ todo \subseteq Users /\ condemned \subseteq Users
    /\ write \in [user : Users \cup {NoUser}, state : Pending \cup {"none"}]
    /\ online \subseteq Users /\ wanted \subseteq Users
    /\ requested \subseteq online \cap wanted /\ dropped \subseteq Users

Init ==
    /\ item = [u \in Users |-> "none"]
    /\ asked = {} /\ uploads = {}
    /\ pc = [c \in Conns |-> "none"]
    /\ user = [c \in Conns |-> NoUser]
    /\ dir = [c \in Conns |-> "none"]
    /\ assoc = {}
    /\ timer = "idle" /\ todo = {} /\ write = NoWrite /\ condemned = {}
    /\ online = Users /\ wanted = {} /\ requested = {} /\ dropped = {}

\* No thread holds the READ lock of csDownloads: a writer may go on.
NoReaders == timer # "loop" /\ \A c \in Conns : pc[c] # "looked"

-----------------------------------------------------------------------------
\* QueueManager finds something to download from u.  getDownloadConnection makes
\* an item if there is none.
GetDownloadConnection(u) ==
    /\ NoReaders
    /\ wanted' = wanted \cup {u}
    /\ requested' = requested \cup ({u} \cap online)
    /\ item' = [item EXCEPT ![u] = IF @ = "none" THEN "WAITING" ELSE @]
    /\ UNCHANGED <<asked, uploads, conns, timing, online, dropped>>

\* Nothing is left to download from u; u leaves or enters the hubs.
Unwant(u) ==
    /\ u \in wanted
    /\ wanted' = wanted \ {u}
    /\ requested' = requested \ {u}
    /\ UNCHANGED <<items, conns, timing, online, dropped>>

GoOffline(u) ==
    /\ u \in online
    /\ online' = online \ {u}
    /\ requested' = requested \ {u}
    /\ UNCHANGED <<items, conns, timing, wanted, dropped>>

GoOnline(u) ==
    /\ u \notin online
    /\ online' = online \cup {u}
    /\ UNCHANGED <<items, conns, timing, wanted, requested, dropped>>

-----------------------------------------------------------------------------
(* on(Second): the loop over downloads under the READ lock.                  *)

StartLoop ==
    /\ timer = "idle" /\ write = NoWrite
    /\ timer' = "loop"
    /\ todo' = {u \in Users : item[u] # "none"}
    /\ UNCHANGED <<items, conns, write, condemned, env, dropped>>

\* The timer has looked at u's item and goes on to write state s into it.
Look(u, s) ==
    /\ timer = "loop" /\ u \in todo /\ write = NoWrite
    /\ todo' = todo \ {u}
    /\ write' = [user |-> u, state |-> s]
    /\ UNCHANGED <<items, conns, timer, condemned, env, dropped>>

\* The next attempt is due: a download slot is free or not.
LookConnect(u) == item[u] = "WAITING" /\ u \in online \cap wanted /\ Look(u, "CONNECTING")
LookNoSlots(u) ==
    item[u] = "WAITING" /\ u \in online \cap wanted /\ Look(u, "NO_DOWNLOAD_SLOTS")

\* A slot is taken as lost for good.
LookNever(u) == FALSE

\* A slot has become free.
LookSlot(u) ==
    item[u] = "NO_DOWNLOAD_SLOTS" /\ u \in online \cap wanted /\ Look(u, "WAITING")

\* The user did not connect in time.
LookTimeout(u) == item[u] = "CONNECTING" /\ u \in online \cap wanted /\ Look(u, "WAITING")

\* Nothing is due, or the item is ACTIVE.
LookNothing(u) ==
    /\ timer = "loop" /\ u \in todo /\ write = NoWrite
    /\ item[u] = "ACTIVE" \/ u \in online \cap wanted
    /\ todo' = todo \ {u}
    /\ UNCHANGED <<items, conns, timer, write, condemned, env, dropped>>

\* The user is offline or has nothing to download any more.
LookCondemn(u) ==
    /\ timer = "loop" /\ u \in todo /\ write = NoWrite
    /\ item[u] # "ACTIVE" /\ u \notin online \cap wanted
    /\ todo' = todo \ {u}
    /\ condemned' = condemned \cup {u}
    /\ UNCHANGED <<items, conns, timer, write, env, dropped>>

\* The state is written, whatever it has become; CONNECTING goes with the
\* request to the user, which carries the token.
Write ==
    /\ write # NoWrite
    /\ item' = [item EXCEPT ![write.user] = write.state]
    /\ asked' = IF write.state = "CONNECTING" THEN asked \cup {write.user} ELSE asked
    /\ write' = NoWrite
    /\ UNCHANGED <<uploads, conns, timer, todo, condemned, env, dropped>>

EndLoop ==
    /\ timer = "loop" /\ todo = {} /\ write = NoWrite
    /\ timer' = "remove"
    /\ UNCHANGED <<items, conns, todo, write, condemned, env, dropped>>

\* The tokens of the items stay behind.
RemoveKeepingToken(u) ==
    /\ timer = "remove" /\ u \in condemned /\ NoReaders
    /\ item' = [item EXCEPT ![u] = "none"]
    /\ condemned' = condemned \ {u}
    /\ UNCHANGED <<asked, uploads, conns, timer, todo, write, env, dropped>>

\* The items that were found are removed afterwards, each under the WRITE lock.
Remove(u) ==
    /\ timer = "remove" /\ u \in condemned /\ NoReaders
    /\ item' = [item EXCEPT ![u] = "none"]
    /\ asked' = asked \ {u}
    /\ condemned' = condemned \ {u}
    /\ UNCHANGED <<uploads, conns, timer, todo, write, env, dropped>>

EndRemove ==
    /\ timer = "remove" /\ condemned = {}
    /\ timer' = "idle"
    /\ UNCHANGED <<items, conns, todo, write, condemned, env, dropped>>

Timer ==
    \/ StartLoop \/ Write \/ EndLoop \/ EndRemove
    \/ \E u \in Users : \/ LookConnect(u) \/ LookNoSlots(u) \/ LookSlot(u) \/ LookTimeout(u)
                        \/ LookNothing(u) \/ LookCondemn(u) \/ Remove(u)

-----------------------------------------------------------------------------
(* Connections.                                                              *)

\* putConnection.
PutAway(c) == pc' = [pc EXCEPT ![c] = "unused"]

\* processMyNick and $Direction, or processINF: the connection is for a download
\* if the user answers with the token of its item (ADC), or if its item is
\* pending (NMDC) and the other side does not insist on downloading itself.
Handshake(c) ==
    /\ pc[c] = "none"
    /\ \E u \in Users :
          /\ user' = [user EXCEPT ![c] = u]
          /\ \/ /\ item[u] \in {"CONNECTING", "WAITING"} \/ u \in asked
                /\ dir' = [dir EXCEPT ![c] = "DOWNLOAD"]
             \/ dir' = [dir EXCEPT ![c] = "UPLOAD"]
    /\ pc' = [pc EXCEPT ![c] = "ready"]
    /\ UNCHANGED <<items, assoc, timing, env, dropped>>

\* addDownloadConnection, under the READ lock: the item is found and its state
\* looked at ...
FindItem(c) ==
    /\ pc[c] = "ready" /\ dir[c] = "DOWNLOAD"
    /\ IF item[user[c]] \in {"WAITING", "CONNECTING"}
       THEN pc' = [pc EXCEPT ![c] = "looked"]
       ELSE PutAway(c)
    /\ UNCHANGED <<items, user, dir, assoc, timing, env, dropped>>

\* ... and then changed; the connection goes to DownloadManager.
Associate(c) ==
    /\ pc[c] = "looked"
    /\ item' = [item EXCEPT ![user[c]] = "ACTIVE"]
    /\ assoc' = assoc \cup {c}
    /\ pc' = [pc EXCEPT ![c] = "active"]
    /\ UNCHANGED <<asked, uploads, user, dir, timing, env, dropped>>

\* A user may have several upload connections.
AddAnyUploadConnection(c) ==
    /\ pc[c] = "ready" /\ dir[c] = "UPLOAD"
    /\ uploads' = uploads \cup {user[c]}
    /\ assoc' = assoc \cup {c}
    /\ pc' = [pc EXCEPT ![c] = "active"]
    /\ UNCHANGED <<item, asked, user, dir, timing, env, dropped>>

\* addUploadConnection, under csUploads.
AddUploadConnection(c) ==
    /\ pc[c] = "ready" /\ dir[c] = "UPLOAD"
    /\ IF user[c] \in uploads
       THEN PutAway(c) /\ UNCHANGED <<uploads, assoc>>
       ELSE /\ uploads' = uploads \cup {user[c]}
            /\ assoc' = assoc \cup {c}
            /\ pc' = [pc EXCEPT ![c] = "active"]
    /\ UNCHANGED <<item, asked, user, dir, timing, env, dropped>>

\* The item of a download that failed is left as it is.
FailedKeepingItem(c) ==
    /\ pc[c] \in {"ready", "active"}
    /\ uploads' = IF c \in assoc /\ dir[c] = "UPLOAD" THEN uploads \ {user[c]} ELSE uploads
    /\ PutAway(c)
    /\ UNCHANGED <<item, asked, user, dir, assoc, timing, env, dropped>>

\* The connection is closed by either side, times out or sends $Error or a fatal
\* STA: ConnectionManager::failed.
Failed(c) ==
    /\ pc[c] \in {"ready", "active"}
    /\ \/ /\ c \in assoc /\ dir[c] = "DOWNLOAD"
          /\ NoReaders
          /\ item' = [item EXCEPT ![user[c]] = IF @ = "none" THEN "none" ELSE "WAITING"]
          /\ UNCHANGED uploads
       \/ /\ c \in assoc /\ dir[c] = "UPLOAD"
          /\ uploads' = uploads \ {user[c]}
          /\ UNCHANGED item
       \/ /\ c \notin assoc
          /\ UNCHANGED <<item, uploads>>
    /\ PutAway(c)
    /\ UNCHANGED <<asked, user, dir, assoc, timing, env, dropped>>

\* processMSG: a private message on a connection for transfers puts it away
\* without ConnectionManager::failed.  It is handled in STATE_IDLE only, where a
\* connection for uploads never is.
ProcessMSG(c) ==
    /\ pc[c] = "active" /\ dir[c] = "DOWNLOAD"
    /\ PutAway(c)
    /\ dropped' = dropped \cup {user[c]}
    /\ UNCHANGED <<items, user, dir, assoc, timing, env>>

\* checkConnections forgets a connection that is not used.
Erase(c) ==
    /\ pc[c] = "unused"
    /\ pc' = [pc EXCEPT ![c] = "none"]
    /\ user' = [user EXCEPT ![c] = NoUser]
    /\ dir' = [dir EXCEPT ![c] = "none"]
    /\ assoc' = assoc \ {c}
    /\ UNCHANGED <<items, timing, env, dropped>>

Thread(c) == FindItem(c) \/ Associate(c) \/ AddUploadConnection(c)

Next ==
    \/ Timer
    \/ \E c \in Conns : Handshake(c) \/ Thread(c) \/ Failed(c) \/ ProcessMSG(c) \/ Erase(c)
    \/ \E u \in Users : \/ GetDownloadConnection(u) \/ Unwant(u)
                        \/ GoOffline(u) \/ GoOnline(u)

Spec == Init /\ [][Next]_vars

-----------------------------------------------------------------------------
\* The connections in the hands of DownloadManager for u, of UploadManager.
Downloading(u) ==
    {c \in Conns : pc[c] = "active" /\ dir[c] = "DOWNLOAD" /\ user[c] = u /\ c \in assoc}
Uploading(u) ==
    {c \in Conns : pc[c] = "active" /\ dir[c] = "UPLOAD" /\ user[c] = u /\ c \in assoc}

\* The timer passes over ACTIVE items for good.  However it and several socket
\* threads overwrite each other's states, an item is ACTIVE only while a
\* connection downloads from its user, so that its end will revive the item.
ActiveServed ==
    \A u \in Users \ dropped : item[u] = "ACTIVE" => Downloading(u) # {}

\* A user has at most one upload connection, and an upload item exactly while there
\* is one: failed finds what it asserts, and the user can come back afterwards.
UploadOwned ==
    \A u \in Users :
       /\ \A c, e \in Uploading(u) : c = e
       /\ u \in uploads <=> Uploading(u) # {}

\* "DownloadManager::addConnection will be called as soon as the connection is
\* ready for downloading" (getDownloadConnection): a user for whom a connection
\* was requested, and who stays online and wanted, has an item.
RequestKept == \A u \in requested : item[u] # "none"

-----------------------------------------------------------------------------
(* Liveness.  The timer and the socket threads keep running, and the lock    *)
(* lets a waiting writer in; download slots become free and delays pass      *)
(* again and again.                                                          *)
Fairness ==
    /\ WF_vars(Timer)
    /\ \A c \in Conns : WF_vars(Thread(c))
    /\ \A u \in Users : /\ SF_vars(LookConnect(u)) /\ SF_vars(LookSlot(u))
                        /\ SF_vars(LookTimeout(u)) /\ SF_vars(Remove(u))

FairSpec == Spec /\ Fairness

\* An item is never forgotten: as long as its user stays online and wanted, a
\* connection is asked for or serves again and again.
NotForgotten ==
    \A u \in Users :
       (<>[](u \in online \cap wanted /\ item[u] # "none" /\ u \notin dropped))
         => []<>(item[u] = "CONNECTING" \/ Downloading(u) # {})
=============================================================================
