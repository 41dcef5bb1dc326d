------------------------ MODULE ConnectionQueueProofs ------------------------
(***************************************************************************)
(* Proofs about ConnectionQueue, for any users and connections.  The        *)
(* invariants become inductive with what the READ lock keeps: while a       *)
(* reader is between its look and its write the item it is going to write   *)
(* cannot be removed.                                                       *)
(***************************************************************************)
EXTENDS ConnectionQueue, TLAPS

\* What a reader of csDownloads has looked at is still there when it writes.
ReadersOK ==
    /\ write # NoWrite => /\ timer = "loop" /\ write.user \in Users
                          /\ write.state \in Pending /\ item[write.user] # "none"
    /\ timer = "loop" => \A u \in todo : item[u] # "none"
    /\ \A c \in Conns : pc[c] = "looked" => item[user[c]] # "none"

\* A connection that is worked on has a user and a direction; it is associated
\* exactly while a manager has it.
ConnsOK ==
    \A c \in Conns :
       /\ pc[c] \in {"ready", "looked", "active"} => user[c] \in Users
       /\ pc[c] = "looked" => dir[c] = "DOWNLOAD"
       /\ pc[c] = "active" => c \in assoc /\ dir[c] \in {"DOWNLOAD", "UPLOAD"}
       /\ pc[c] \in {"none", "ready", "looked"} => c \notin assoc

IInv == TypeOK /\ ReadersOK /\ ConnsOK /\ ActiveServed /\ UploadOwned

\* The invariant holds before anything is wanted.
LEMMA InitIInv == Init => IInv
  BY ConnectionUsersAssumption
  DEF Init, IInv, TypeOK, ReadersOK, ConnsOK, ActiveServed, UploadOwned, Downloading,
      Uploading, Pending, NoWrite

\* What the queue and the hubs do touches no connection, and makes WAITING items
\* only (getDownloadConnection).
LEMMA EnvironmentSteps ==
  ASSUME IInv, NEW u \in Users,
         GetDownloadConnection(u) \/ Unwant(u) \/ GoOffline(u) \/ GoOnline(u)
  PROVE  IInv'
<1>1. UNCHANGED <<conns, timing, uploads, dropped, asked>>
  BY DEF GetDownloadConnection, Unwant, GoOffline, GoOnline, items
<1>2. \/ UNCHANGED item
      \/ item' = [item EXCEPT ![u] = IF @ = "none" THEN "WAITING" ELSE @]
  BY DEF GetDownloadConnection, Unwant, GoOffline, GoOnline, items
<1>3. TypeOK'
  BY DEF IInv, TypeOK, GetDownloadConnection, Unwant, GoOffline, GoOnline, items, conns,
     timing, Pending
<1>4. ReadersOK'
  <2>1. \A v \in Users : item[v] # "none" => item'[v] # "none"
    BY <1>2 DEF IInv, TypeOK
  <2> QED BY <1>1, <2>1 DEF IInv, TypeOK, ReadersOK, ConnsOK, conns, timing
<1>5. ConnsOK'
  BY <1>1 DEF IInv, ConnsOK, conns
<1>6. ActiveServed' /\ UploadOwned'
  BY <1>1, <1>2 DEF IInv, TypeOK, ActiveServed, UploadOwned, Downloading, Uploading, conns
<1> QED BY <1>3, <1>4, <1>5, <1>6 DEF IInv

\* The timer never writes ACTIVE, and removes an item only when nobody reads
\* (on(Second), putCQI_L).
LEMMA TimerSteps ==
  ASSUME IInv, Timer
  PROVE  IInv'
<1>1. UNCHANGED <<conns, uploads, env, dropped>>
  BY DEF Timer, StartLoop, Write, EndLoop, EndRemove, LookConnect, LookNoSlots, LookSlot,
     LookTimeout, LookNothing, LookCondemn, Remove, Look, items
<1>2. CASE StartLoop \/ EndLoop \/ EndRemove
  BY <1>1, <1>2
  DEF StartLoop, EndLoop, EndRemove, items, conns, env, IInv, TypeOK, ReadersOK, ConnsOK,
      ActiveServed, UploadOwned, Downloading, Uploading
<1>3. CASE \E u \in Users : \/ LookConnect(u) \/ LookNoSlots(u) \/ LookSlot(u)
                            \/ LookTimeout(u) \/ LookNothing(u) \/ LookCondemn(u)
  <2>1. PICK u \in Users : \/ LookConnect(u) \/ LookNoSlots(u) \/ LookSlot(u)
                           \/ LookTimeout(u) \/ LookNothing(u) \/ LookCondemn(u)
    BY <1>3
  <2>2. /\ timer = "loop" /\ u \in todo /\ UNCHANGED <<items, timer>>
        /\ todo' = todo \ {u}
        /\ condemned' \in {condemned, condemned \cup {u}}
        /\ \/ write' = write
           \/ \E s \in Pending : write' = [user |-> u, state |-> s]
    BY <2>1 DEF LookConnect, LookNoSlots, LookSlot, LookTimeout, LookNothing, LookCondemn,
       Look, Pending
  <2>3. TypeOK'
    BY <1>1, <2>2 DEF IInv, TypeOK, items, conns, env
  <2>4. ReadersOK'
    BY <1>1, <2>2 DEF IInv, TypeOK, ReadersOK, items, conns, NoWrite
  <2>5. ConnsOK' /\ ActiveServed' /\ UploadOwned'
    BY <1>1, <2>2 DEF IInv, ConnsOK, ActiveServed, UploadOwned, Downloading, Uploading,
       items, conns
  <2> QED BY <2>3, <2>4, <2>5 DEF IInv
<1>4. CASE Write
  <2>1. /\ write.user \in Users /\ write.state \in Pending
        /\ item' = [item EXCEPT ![write.user] = write.state]
        /\ asked' \subseteq asked \cup {write.user}
        /\ write' = NoWrite /\ UNCHANGED <<timer, todo, condemned>>
    BY <1>4 DEF Write, IInv, ReadersOK
  <2>2. /\ item' \in [Users -> Pending \cup {"ACTIVE", "none"}]
        /\ \A u \in Users : item[u] # "none" => item'[u] # "none"
        /\ item'[write.user] # "none"
        /\ \A u \in Users : item'[u] = "ACTIVE" => item[u] = "ACTIVE"
    BY <2>1 DEF IInv, TypeOK, Pending
  <2>3. TypeOK'
    BY <1>1, <2>1, <2>2 DEF IInv, TypeOK, NoWrite, conns, env
  <2>4. ReadersOK'
    BY <1>1, <2>1, <2>2 DEF IInv, TypeOK, ReadersOK, ConnsOK, conns
  <2>5. ConnsOK' /\ ActiveServed' /\ UploadOwned'
    BY <1>1, <2>2 DEF IInv, ConnsOK, ActiveServed, UploadOwned, Downloading, Uploading, conns
  <2> QED BY <2>3, <2>4, <2>5 DEF IInv
<1>5. CASE \E u \in Users : Remove(u)
  <2>1. PICK u \in Users : Remove(u)
    BY <1>5
  <2>2. /\ timer = "remove" /\ \A c \in Conns : pc[c] # "looked"
        /\ item' = [item EXCEPT ![u] = "none"] /\ asked' = asked \ {u}
        /\ condemned' = condemned \ {u} /\ UNCHANGED <<timer, todo, write>>
    BY <2>1 DEF Remove, NoReaders
  <2>3. TypeOK'
    BY <1>1, <2>2 DEF IInv, TypeOK, conns, env
  <2>4. ReadersOK'
    BY <1>1, <2>2 DEF IInv, ReadersOK, conns
  <2>5. ConnsOK' /\ ActiveServed' /\ UploadOwned'
    BY <1>1, <2>2 DEF IInv, TypeOK, ConnsOK, ActiveServed, UploadOwned, Downloading,
       Uploading, conns
  <2> QED BY <2>3, <2>4, <2>5 DEF IInv
<1> QED BY <1>2, <1>3, <1>4, <1>5 DEF Timer

\* A new connection is nobody's yet, and one that is looking for its item or
\* has been put away serves nobody (processMyNick, processINF, FindItem, Erase).
LEMMA QuietSteps ==
  ASSUME IInv, NEW c \in Conns, Handshake(c) \/ FindItem(c) \/ Erase(c)
  PROVE  IInv'
<1>1. UNCHANGED <<items, timing, env, dropped>>
  BY DEF Handshake, FindItem, Erase
<1>2. /\ pc' \in [Conns -> {"none", "ready", "looked", "active", "unused"}]
      /\ pc[c] # "active" /\ pc'[c] # "active"
      /\ \A e \in Conns \ {c} :
            pc'[e] = pc[e] /\ user'[e] = user[e] /\ dir'[e] = dir[e] /\ (e \in assoc' <=> e \in assoc)
  BY DEF Handshake, FindItem, Erase, PutAway, IInv, TypeOK
<1>3. TypeOK'
  <2>1. CASE Handshake(c)
    BY <1>1, <2>1 DEF Handshake, IInv, TypeOK, items, timing, env
  <2>2. CASE FindItem(c)
    BY <1>1, <2>2 DEF FindItem, PutAway, IInv, TypeOK, items, timing, env
  <2>3. CASE Erase(c)
    BY <1>1, <2>3 DEF Erase, IInv, TypeOK, items, timing, env
  <2> QED BY <2>1, <2>2, <2>3
<1>4. /\ pc'[c] = "looked" => item'[user'[c]] # "none"
      /\ pc'[c] \in {"ready", "looked", "active"} => user'[c] \in Users
      /\ pc'[c] = "looked" => dir'[c] = "DOWNLOAD"
      /\ pc'[c] \in {"none", "ready", "looked"} => c \notin assoc'
  <2>1. CASE Handshake(c)
    BY <2>1 DEF Handshake, IInv, TypeOK, ConnsOK
  <2>2. CASE FindItem(c)
    BY <2>2 DEF FindItem, PutAway, IInv, TypeOK, ConnsOK, items
  <2>3. CASE Erase(c)
    BY <2>3 DEF Erase, IInv, TypeOK, ConnsOK
  <2> QED BY <2>1, <2>2, <2>3
<1>5. ReadersOK'
  BY <1>1, <1>2, <1>4 DEF IInv, ReadersOK, items, timing
<1>6. ConnsOK'
  BY <1>2, <1>4 DEF IInv, ConnsOK
<1>7. \A u \in Users : Downloading(u)' = Downloading(u) /\ Uploading(u)' = Uploading(u)
  BY <1>2 DEF Downloading, Uploading
<1>8. ActiveServed' /\ UploadOwned'
  BY <1>1, <1>7 DEF IInv, ActiveServed, UploadOwned, items
<1> QED BY <1>3, <1>5, <1>6, <1>8 DEF IInv

\* The connection that makes an item ACTIVE serves it (addDownloadConnection).
LEMMA AssociateStep ==
  ASSUME IInv, NEW c \in Conns, Associate(c)
  PROVE  IInv'
<1>1. /\ pc[c] = "looked" /\ user[c] \in Users /\ dir[c] = "DOWNLOAD"
      /\ item' = [item EXCEPT ![user[c]] = "ACTIVE"]
      /\ assoc' = assoc \cup {c} /\ pc' = [pc EXCEPT ![c] = "active"]
      /\ UNCHANGED <<asked, uploads, user, dir, timing, env, dropped>>
  BY DEF Associate, IInv, ConnsOK
<1>2. TypeOK'
  BY <1>1 DEF IInv, TypeOK, timing, env
<1>3. ReadersOK'
  <2>1. \A v \in Users : item[v] # "none" => item'[v] # "none"
    BY <1>1 DEF IInv, TypeOK
  <2> QED BY <1>1, <2>1 DEF IInv, TypeOK, ReadersOK, ConnsOK, timing
<1>4. ConnsOK'
  BY <1>1 DEF IInv, TypeOK, ConnsOK
<1>5. c \in Downloading(user[c])'
  BY <1>1 DEF Downloading, IInv, TypeOK
<1>6. \A u \in Users : Downloading(u) \subseteq Downloading(u)' /\ Uploading(u)' = Uploading(u)
  BY <1>1 DEF Downloading, Uploading, IInv, TypeOK
<1>7. ActiveServed'
  BY <1>1, <1>5, <1>6 DEF IInv, TypeOK, ActiveServed
<1>8. UploadOwned'
  BY <1>1, <1>6 DEF IInv, UploadOwned
<1> QED BY <1>2, <1>3, <1>4, <1>7, <1>8 DEF IInv

\* An upload connection is taken only if its user has no upload item, so no
\* other connection of the user is one (addUploadConnection).
LEMMA AddUploadStep ==
  ASSUME IInv, NEW c \in Conns, AddUploadConnection(c)
  PROVE  IInv'
<1>1. /\ pc[c] = "ready" /\ user[c] \in Users /\ dir[c] = "UPLOAD"
      /\ UNCHANGED <<item, asked, user, dir, timing, env, dropped>>
  BY DEF AddUploadConnection, IInv, ConnsOK
<1>2. \A u \in Users : Downloading(u)' = Downloading(u)
  BY <1>1 DEF AddUploadConnection, PutAway, Downloading, IInv, TypeOK
<1>3. CASE user[c] \in uploads
  <2>1. pc' = [pc EXCEPT ![c] = "unused"] /\ UNCHANGED <<uploads, assoc>>
    BY <1>3 DEF AddUploadConnection, PutAway
  <2>2. TypeOK' /\ ConnsOK'
    BY <1>1, <2>1 DEF IInv, TypeOK, ConnsOK, timing, env
  <2>3. ReadersOK'
    BY <1>1, <2>1 DEF IInv, TypeOK, ReadersOK, timing
  <2>4. \A u \in Users : Uploading(u)' = Uploading(u)
    BY <1>1, <2>1 DEF Uploading, IInv, TypeOK
  <2> QED BY <1>1, <1>2, <2>1, <2>2, <2>3, <2>4 DEF IInv, ActiveServed, UploadOwned
<1>4. CASE user[c] \notin uploads
  <2>1. /\ uploads' = uploads \cup {user[c]} /\ assoc' = assoc \cup {c}
        /\ pc' = [pc EXCEPT ![c] = "active"]
    BY <1>4 DEF AddUploadConnection
  <2>2. TypeOK'
    BY <1>1, <2>1 DEF IInv, TypeOK, timing, env
  <2>3. ConnsOK'
    BY <1>1, <2>1 DEF IInv, TypeOK, ConnsOK
  <2>4. ReadersOK'
    BY <1>1, <2>1 DEF IInv, TypeOK, ReadersOK, timing
  <2>5. \A u \in Users \ {user[c]} : Uploading(u)' = Uploading(u)
    BY <1>1, <2>1 DEF Uploading, IInv, TypeOK
  <2>6. ASSUME NEW u \in Users, u = user[c] PROVE Uploading(u)' = {c}
    <3>1. Uploading(u) = {}
      BY <1>1, <1>4, <2>6 DEF IInv, UploadOwned
    <3> QED BY <1>1, <2>1, <2>6, <3>1 DEF Uploading, IInv, TypeOK
  <2>7. UploadOwned'
    <3> SUFFICES ASSUME NEW u \in Users
                 PROVE  /\ \A e, f \in Uploading(u)' : e = f
                        /\ u \in uploads' <=> Uploading(u)' # {}
      BY DEF UploadOwned
    <3>1. CASE u = user[c]
      <4>1. Uploading(u)' = {c} /\ u \in uploads'
        BY <2>1, <2>6, <3>1
      <4> QED BY <4>1
    <3>2. CASE u # user[c]
      <4>1. Uploading(u)' = Uploading(u) /\ (u \in uploads' <=> u \in uploads) /\ dropped' = dropped
        BY <1>1, <2>1, <2>5, <3>2
      <4> QED BY <4>1 DEF IInv, UploadOwned
    <3> QED BY <3>1, <3>2
  <2> QED BY <1>1, <1>2, <2>2, <2>3, <2>4, <2>7 DEF IInv, ActiveServed
<1> QED BY <1>3, <1>4

\* The end of a download revives its item; the end of an upload, the only one
\* of its user, removes its item (ConnectionManager::failed).
LEMMA FailedStep ==
  ASSUME IInv, NEW c \in Conns, Failed(c)
  PROVE  IInv'
<1>1. /\ pc[c] \in {"ready", "active"} /\ user[c] \in Users
      /\ pc[c] = "active" <=> c \in assoc
      /\ pc' = [pc EXCEPT ![c] = "unused"]
      /\ UNCHANGED <<asked, user, dir, assoc, timing, env, dropped>>
  BY DEF Failed, PutAway, IInv, ConnsOK
<1>2. /\ item' \in [Users -> Pending \cup {"ACTIVE", "none"}]
      /\ \A u \in Users : item[u] # "none" => item'[u] # "none"
      /\ \A u \in Users : item'[u] = "ACTIVE" =>
            item[u] = "ACTIVE" /\ ~(u = user[c] /\ c \in assoc /\ dir[c] = "DOWNLOAD")
      /\ uploads' = IF c \in assoc /\ dir[c] = "UPLOAD" THEN uploads \ {user[c]} ELSE uploads
  <2>1. CASE c \in assoc /\ dir[c] = "DOWNLOAD"
    BY <1>1, <2>1 DEF Failed, IInv, TypeOK, Pending
  <2>2. CASE c \in assoc /\ dir[c] = "UPLOAD"
    BY <1>1, <2>2 DEF Failed, IInv, TypeOK
  <2>3. CASE c \notin assoc
    BY <1>1, <2>3 DEF Failed, IInv, TypeOK
  <2> QED BY <1>1, <2>1, <2>2, <2>3 DEF IInv, ConnsOK
<1>3. TypeOK'
  BY <1>1, <1>2 DEF IInv, TypeOK, timing, env
<1>4. ConnsOK'
  BY <1>1 DEF IInv, TypeOK, ConnsOK
<1>5. ReadersOK'
  BY <1>1, <1>2 DEF IInv, TypeOK, ReadersOK, ConnsOK, timing
<1>6. \A u \in Users : /\ Downloading(u)' = Downloading(u) \ {c}
                       /\ Uploading(u)' = Uploading(u) \ {c}
  BY <1>1 DEF Downloading, Uploading, IInv, TypeOK
<1>7. ActiveServed'
  <2> SUFFICES ASSUME NEW u \in Users \ dropped, item'[u] = "ACTIVE"
               PROVE  Downloading(u)' # {}
    BY <1>1 DEF ActiveServed
  <2>1. Downloading(u) # {} /\ c \notin Downloading(u)
    BY <1>2 DEF IInv, ActiveServed, Downloading
  <2> QED BY <1>6, <2>1
<1>8. UploadOwned'
  <2> SUFFICES ASSUME NEW u \in Users
               PROVE  /\ \A e, f \in Uploading(u)' : e = f
                      /\ u \in uploads' <=> Uploading(u)' # {}
    BY DEF UploadOwned
  <2>1. CASE c \in Uploading(u)
    <3>1. Uploading(u)' = {} /\ u \notin uploads'
      BY <1>2, <1>6, <2>1 DEF IInv, UploadOwned, Uploading
    <3> QED BY <3>1
  <2>2. CASE c \notin Uploading(u)
    <3>1. u \in uploads' <=> u \in uploads
      BY <1>1, <1>2, <2>2 DEF Uploading
    <3> QED BY <1>1, <1>6, <2>2, <3>1 DEF IInv, UploadOwned
  <2> QED BY <2>1, <2>2
<1> QED BY <1>3, <1>4, <1>5, <1>7, <1>8 DEF IInv

\* A private message puts a download connection away and leaves the items as
\* they are: the user is recorded as dropped (processMSG).
LEMMA MessageStep ==
  ASSUME IInv, NEW c \in Conns, ProcessMSG(c)
  PROVE  IInv'
<1>1. /\ pc[c] = "active" /\ dir[c] = "DOWNLOAD" /\ user[c] \in Users
      /\ pc' = [pc EXCEPT ![c] = "unused"] /\ dropped' = dropped \cup {user[c]}
      /\ UNCHANGED <<items, user, dir, assoc, timing, env>>
  BY DEF ProcessMSG, PutAway, IInv, ConnsOK
<1>2. TypeOK' /\ ConnsOK'
  BY <1>1 DEF IInv, TypeOK, ConnsOK, items, timing, env
<1>3. ReadersOK'
  BY <1>1 DEF IInv, TypeOK, ReadersOK, items, timing
<1>4. \A u \in Users : /\ Downloading(u)' = Downloading(u) \ {c}
                       /\ Uploading(u)' = Uploading(u)
                       /\ u # user[c] => c \notin Downloading(u)
  BY <1>1 DEF Downloading, Uploading, IInv, TypeOK
<1>5. ActiveServed'
  BY <1>1, <1>4 DEF IInv, ActiveServed, items
<1>6. UploadOwned'
  BY <1>1, <1>4 DEF IInv, UploadOwned, items
<1> QED BY <1>2, <1>3, <1>5, <1>6 DEF IInv

\* The invariant is inductive.
LEMMA Inductive == IInv /\ [Next]_vars => IInv'
<1> SUFFICES ASSUME IInv, [Next]_vars PROVE IInv'
  OBVIOUS
<1>1. CASE UNCHANGED vars
  BY <1>1 DEF vars, items, conns, timing, env, IInv, TypeOK, ReadersOK, ConnsOK,
     ActiveServed, UploadOwned, Downloading, Uploading
<1>2. CASE Next
  BY <1>2, EnvironmentSteps, TimerSteps, QuietSteps, AssociateStep, AddUploadStep, FailedStep,
     MessageStep DEF Next, Thread
<1> QED BY <1>1, <1>2

\* Type correctness; the users that know a token are users with an item.
THEOREM ItemsTypeOKAlways == Spec => []TypeOK
<1>1. IInv => TypeOK
  BY DEF IInv
<1> QED BY <1>1, InitIInv, Inductive, PTL DEF Spec

\* An item is ACTIVE only while a connection downloads from its user, however the
\* timer and the socket threads overwrite each other's states.
THEOREM ActiveServedAlways == Spec => []ActiveServed
<1>1. IInv => ActiveServed
  BY DEF IInv
<1> QED BY <1>1, InitIInv, Inductive, PTL DEF Spec

\* A user has at most one upload connection, and an upload item exactly while
\* there is one.
THEOREM UploadOwnedAlways == Spec => []UploadOwned
<1>1. IInv => UploadOwned
  BY DEF IInv
<1> QED BY <1>1, InitIInv, Inductive, PTL DEF Spec
=============================================================================
