------------------------- MODULE UploadSlotsProofs -------------------------
(***************************************************************************)
(* Proofs about UploadSlots, for any numbers of users, connections and      *)
(* slots.  The inductive invariant adds to the properties that a user has   *)
(* at most one connection: the thread that puts a user back into slotQueue  *)
(* is then the only one that could be serving it.                           *)
(***************************************************************************)
EXTENDS UploadSlots, FiniteSetTheorems, TLAPS

\* addUploadConnection: a connection in use has a user, and no other has the same.
UserOK ==
    \A c \in Conns : Live(c) => /\ user[c] \in Users
                                /\ \A e \in Conns : Live(e) /\ user[e] = user[c] => e = c

IInv == TypeOK /\ UserOK /\ ServedNotWaiting /\ QueueIsLine /\ SlotsCounted

-----------------------------------------------------------------------------
\* The program starts in a state of the invariant.
LEMMA InitInv == Init => IInv
<1> SUFFICES ASSUME Init PROVE IInv
  OBVIOUS
<1>1. TypeOK
  <2>1. NoUser \in Users \cup {NoUser} /\ Nothing \in Saw
    BY DEF Nothing, Saw
  <2>2. 0 \in -MaxLost .. MaxLost
    BY SlotsAssumption
  <2>3. pc \in [Conns -> PCs] /\ user \in [Conns -> Users \cup {NoUser}] /\ saw \in [Conns -> Saw]
    BY <2>1 DEF Init, PCs
  <2>4. slotType \in [Conns -> SlotTypes] /\ grant \in [Conns -> SlotTypes]
    BY DEF Init, SlotTypes
  <2>5. count \in [Counters -> Int] /\ lost \in [Counters -> -MaxLost .. MaxLost]
    BY <2>2 DEF Init
  <2>6. notified \in [Users -> Ages] /\ reserved \in [Users -> Ages]
    BY DEF Init, Ages
  <2>7. /\ uploads \subseteq Conns /\ waiting \subseteq Users /\ ahead \subseteq waiting \X waiting
        /\ online \subseteq Users
    BY DEF Init
  <2>8. recent \in BOOLEAN
    BY DEF Init
  <2> QED BY <2>3, <2>4, <2>5, <2>6, <2>7, <2>8 DEF TypeOK
<1>2. UserOK
  BY DEF Init, UserOK, Live
<1>3. ServedNotWaiting
  BY DEF Init, ServedNotWaiting, Served
<1>4. QueueIsLine
  BY DEF Init, QueueIsLine
<1>5. SlotsCounted
  <2>1. \A k \in Counters : Counted(k) = {}
    BY DEF Init, Counted, CounterOf
  <2> QED BY <2>1, FS_EmptySet DEF Init, SlotsCounted
<1> QED BY <1>1, <1>2, <1>3, <1>4, <1>5 DEF IInv

-----------------------------------------------------------------------------
\* Users that leave slotQueue leave a queue behind, and wait no longer.
LEMMA LeaveQueueLine ==
    ASSUME TypeOK, QueueIsLine, NEW S, LeaveQueue(S)
    PROVE  /\ waiting' \subseteq waiting
           /\ waiting' \subseteq Users
           /\ ahead' \subseteq waiting' \X waiting'
           /\ QueueIsLine'
<1>1. /\ waiting' = waiting \ S
      /\ ahead' = {p \in ahead : p[1] \notin S /\ p[2] \notin S}
      /\ waiting \subseteq Users /\ ahead \subseteq waiting \X waiting
  BY DEF LeaveQueue, TypeOK
<1>2. ahead' \subseteq waiting' \X waiting'
  BY <1>1
<1>3. QueueIsLine'
  BY <1>1 DEF QueueIsLine
<1> QED BY <1>1, <1>2, <1>3

\* A user that is refused joins the end of slotQueue or keeps its place.
LEMMA AddToQueueLine ==
    ASSUME TypeOK, QueueIsLine, NEW u \in Users, AddToQueue(u)
    PROVE  /\ waiting' = waiting \cup {u}
           /\ ahead' \subseteq waiting' \X waiting'
           /\ QueueIsLine'
<1>1. /\ waiting' = waiting \cup {u}
      /\ ahead' = IF u \in waiting THEN ahead ELSE ahead \cup (waiting \X {u})
      /\ ahead \subseteq waiting \X waiting
  BY DEF AddToQueue, TypeOK
<1>2. CASE u \in waiting
  <2>1. waiting' = waiting /\ ahead' = ahead
    BY <1>1, <1>2
  <2> QED BY <2>1, <1>1 DEF QueueIsLine
<1>3. CASE u \notin waiting
  <2>1. ahead' = ahead \cup (waiting \X {u})
    BY <1>1, <1>3
  <2>2. \A p \in ahead : p = <<p[1], p[2]>> /\ p[1] \in waiting /\ p[2] \in waiting
    BY <1>1
  <2>3. \A v, w : <<v, w>> \in ahead' <=> \/ <<v, w>> \in ahead
                                          \/ v \in waiting /\ w = u
    BY <2>1
  <2>4. \A p \in ahead' : p = <<p[1], p[2]>>
    BY <2>1, <2>2
  <2>5. ahead' \subseteq waiting' \X waiting'
    BY <1>1, <2>1
  <2>6. \A v, w \in waiting' : v # w => (<<v, w>> \in ahead') # (<<w, v>> \in ahead')
    <3> SUFFICES ASSUME NEW v \in waiting', NEW w \in waiting', v # w
                 PROVE  (<<v, w>> \in ahead') # (<<w, v>> \in ahead')
      OBVIOUS
    <3>1. CASE v = u
      BY <3>1, <1>1, <1>3, <2>2, <2>3
    <3>2. CASE w = u
      BY <3>2, <1>1, <1>3, <2>2, <2>3
    <3>3. CASE v # u /\ w # u
      <4>1. v \in waiting /\ w \in waiting
        BY <3>3, <1>1
      <4>2. (<<v, w>> \in ahead) # (<<w, v>> \in ahead)
        BY <4>1 DEF QueueIsLine
      <4> QED BY <4>2, <3>3, <2>3
    <3> QED BY <3>1, <3>2, <3>3
  <2>7. \A p \in ahead' : p[1] # p[2]
    BY <2>1, <1>3, <2>2 DEF QueueIsLine
  <2>8. \A p, q \in ahead' : p[2] = q[1] => <<p[1], q[2]>> \in ahead'
    <3> SUFFICES ASSUME NEW p \in ahead', NEW q \in ahead', p[2] = q[1]
                 PROVE  <<p[1], q[2]>> \in ahead'
      OBVIOUS
    <3>1. q[1] \in waiting
      BY <2>1, <2>2
    <3>2. p \in ahead
      BY <3>1, <2>1, <1>3
    <3>3. CASE q \in ahead
      BY <3>2, <3>3, <2>1 DEF QueueIsLine
    <3>4. CASE q \in waiting \X {u}
      BY <3>2, <3>4, <2>1, <2>2
    <3> QED BY <3>3, <3>4, <2>1
  <2> QED BY <1>1, <2>5, <2>6, <2>7, <2>8 DEF QueueIsLine
<1> QED BY <1>2, <1>3

\* An update of the counters, lost or not, changes what count and lost say
\* together by delta.
LEMMA ProcessSlotAdds ==
    ASSUME TypeOK, NEW c \in Conns, NEW type \in SlotTypes, NEW delta \in Int,
           processSlot(c, type, delta)
    PROVE  /\ count' \in [Counters -> Int]
           /\ lost' \in [Counters -> -MaxLost .. MaxLost]
           /\ \A k \in Counters :
                 count'[k] - lost'[k]
                   = count[k] - lost[k] + (IF k \in CounterOf(type) THEN delta ELSE 0)
<1> DEFINE Add(f, n) == [k \in Counters |-> IF k \in CounterOf(type) THEN f[k] + n ELSE f[k]]
<1>1. count \in [Counters -> Int] /\ lost \in [Counters -> -MaxLost .. MaxLost] /\ MaxLost \in Nat
  BY SlotsAssumption DEF TypeOK
<1>2. CASE count' = Add(count, delta) /\ lost' = lost
  BY <1>1, <1>2
<1>3. CASE /\ lost' = Add(lost, -delta) /\ count' = count
           /\ \A k \in Counters : lost'[k] \in -MaxLost .. MaxLost
  BY <1>1, <1>3
<1> QED BY <1>2, <1>3 DEF processSlot

\* The slots a counter counts are finitely many.
LEMMA CountedFinite == \A k : IsFiniteSet(Counted(k))
BY FiniteAssumption, FS_Subset DEF Counted

\* A step that changes no slot and no counter, and does not enter or leave the
\* middle of a swap, keeps the counters right.
LEMMA CountedSame ==
    ASSUME SlotsCounted, UNCHANGED <<slotType, count, lost>>,
           \A c \in Conns : pc'[c] = "swapped" <=> pc[c] = "swapped"
    PROVE  SlotsCounted'
<1>1. \A k : Counted(k)' = Counted(k)
  BY DEF Counted
<1> QED BY <1>1 DEF SlotsCounted

\* A step that neither starts serving a user nor lets one in keeps served users
\* out of the queue.
LEMMA ServedSame ==
    ASSUME ServedNotWaiting, Served' \subseteq Served,
           \A c \in Served' : user'[c] = user[c],
           waiting' \subseteq waiting, Notified' \subseteq Notified \cup waiting
    PROVE  ServedNotWaiting'
BY DEF ServedNotWaiting

\* So do the steps of one connection before it is served.
LEMMA NewConnection ==
    ASSUME IInv, NEW c \in Conns, AddConnection(c) PROVE IInv'
<1> USE DEF IInv
<1>1. PICK u \in online : /\ \A e \in Conns : Live(e) => user[e] # u
                          /\ user' = [user EXCEPT ![c] = u]
  BY ZenonT(40) DEF AddConnection
<1>2. /\ pc[c] = "new" /\ pc' = [pc EXCEPT ![c] = "get"]
      /\ UNCHANGED <<slotType, grant, saw, uploads, count, lost, waiting, ahead, notified,
                     reserved, recent, online>>
  BY DEF AddConnection, Goto, counters, queue, slotQueue
<1>3. u \in Users /\ pc \in [Conns -> PCs] /\ user \in [Conns -> Users \cup {NoUser}]
  BY <1>1 DEF TypeOK
<1>4. TypeOK'
  <2>1. pc' \in [Conns -> PCs]
    BY <1>2, <1>3 DEF PCs
  <2>2. user' \in [Conns -> Users \cup {NoUser}]
    BY <1>1, <1>3
  <2> QED BY <2>1, <2>2, <1>2 DEF TypeOK
<1>5. \A e \in Conns : /\ e # c => pc'[e] = pc[e] /\ user'[e] = user[e]
                       /\ pc'[c] = "get" /\ user'[c] = u
  BY <1>1, <1>2, <1>3
<1>6. UserOK'
  BY <1>1, <1>3, <1>5 DEF UserOK, Live
<1>7. ServedNotWaiting'
  BY <1>2, <1>5 DEF ServedNotWaiting, Served, Notified
<1>8. QueueIsLine'
  BY <1>2 DEF QueueIsLine
<1>9. SlotsCounted'
  BY <1>2, <1>5, CountedSame
<1> QED BY <1>4, <1>6, <1>7, <1>8, <1>9

\* A step of one live connection c that stays live and leaves the queue, the
\* slots and the counters alone: the invariant only asks that c is not served
\* before it was cleared.
LEMMA QuietStep ==
    ASSUME IInv, NEW c \in Conns, Live(c), NEW l \in PCs, Goto(c, l), l # "new",
           l # "swapped", pc[c] # "swapped",
           c \in Served' => c \in Served,
           grant' \in [Conns -> SlotTypes], saw' \in [Conns -> Saw], uploads' \subseteq Conns,
           UNCHANGED <<user, slotType, count, lost, waiting, ahead, notified, reserved, online>>,
           recent' \in BOOLEAN
    PROVE  IInv'
<1> USE DEF IInv
<1>1. pc \in [Conns -> PCs] /\ pc' = [pc EXCEPT ![c] = l]
  BY DEF TypeOK, Goto
<1>2. \A e \in Conns : (e # c => pc'[e] = pc[e]) /\ pc'[c] = l
  BY <1>1
<1>3. TypeOK'
  <2>1. pc' \in [Conns -> PCs]
    BY <1>1
  <2> QED BY <2>1 DEF TypeOK
<1>4. UserOK'
  BY <1>2 DEF UserOK, Live
<1>5. ServedNotWaiting'
  <2>1. Served' \subseteq Served
    BY <1>2 DEF Served
  <2> QED BY <2>1, ServedSame DEF Notified, Served
<1>6. QueueIsLine'
  BY DEF QueueIsLine
<1>7. SlotsCounted'
  BY <1>2, CountedSame
<1> QED BY <1>3, <1>4, <1>5, <1>6, <1>7

\* The parts of prepareFile that only look, and the steps of a connection that
\* neither wait nor swap.
LEMMA QuietSteps ==
    ASSUME IInv, NEW c \in Conns,
           Ask(c) \/ Consult(c) \/ ListUpload(c) \/ Send(c) \/ TransmitDone(c) \/ Fail(c)
           \/ ProtocolError(c)
    PROVE  IInv'
<1>1. /\ grant \in [Conns -> SlotTypes] /\ slotType \in [Conns -> SlotTypes]
      /\ saw \in [Conns -> Saw] /\ uploads \subseteq Conns /\ recent \in BOOLEAN
      /\ pc \in [Conns -> PCs]
  BY DEF IInv, TypeOK
<1>2. Nothing \in Saw /\ "NOSLOT" \in SlotTypes
  BY DEF Nothing, Saw, SlotTypes
<1>u. ASSUME UNCHANGED <<counters, queue>>
      PROVE  UNCHANGED <<count, lost, waiting, ahead, notified>>
  BY <1>u DEF counters, queue, slotQueue
<1>p. \A l : Goto(c, l) => pc'[c] = l
  BY <1>1 DEF Goto
<1>a. CASE Ask(c)
  <2>1. PICK k \in Kinds, dl \in BOOLEAN :
          LET hasReserved == reserved[user[c]] = "fresh" \/ dl
              own == IF slotType[c] = "RESSLOT" /\ ~hasReserved THEN "NOSLOT" ELSE slotType[c]
          IN  /\ saw' = [saw EXCEPT ![c] = [kind |-> k, hasReserved |-> hasReserved,
                                            hasFreeSlot |-> getFreeSlots > 0]]
              /\ grant' = [grant EXCEPT ![c] = own]
              /\ Goto(c, IF own \in {"STDSLOT", "RESSLOT"} /\ ~hasReserved
                         THEN "clear" ELSE "asked")
    BY <1>a, ZenonT(30) DEF Ask
  <2> DEFINE hasReserved == reserved[user[c]] = "fresh" \/ dl
             own == IF slotType[c] = "RESSLOT" /\ ~hasReserved THEN "NOSLOT" ELSE slotType[c]
             l == IF own \in {"STDSLOT", "RESSLOT"} /\ ~hasReserved THEN "clear" ELSE "asked"
  <2>2. own \in SlotTypes
    BY <1>1, <1>2
  <2>3. grant' \in [Conns -> SlotTypes]
    BY <2>1, <2>2, <1>1
  <2>4. [kind |-> k, hasReserved |-> hasReserved, hasFreeSlot |-> getFreeSlots > 0] \in Saw
    <3>1. k \in {"file", "mini", "partial"}
      BY KindsAssumption
    <3>2. hasReserved \in BOOLEAN /\ (getFreeSlots > 0) \in BOOLEAN
      OBVIOUS
    <3> HIDE DEF hasReserved
    <3> QED BY <3>1, <3>2 DEF Saw
  <2>5. saw' \in [Conns -> Saw]
    BY <2>1, <2>4, <1>1
  <2>6. l \in {"clear", "asked"} /\ Goto(c, l)
    BY <2>1
  <2> HIDE DEF l
  <2>7. c \notin Served'
    BY <2>6, <1>p DEF Served
  <2> QED BY ZenonT(40), <1>a, <2>3, <2>5, <2>6, <2>7, <1>1, <1>u, QuietStep DEF Ask, Live, PCs
<1>b. CASE Consult(c)
  <2>1. saw' \in [Conns -> Saw]
    BY <1>b, <1>1, ZenonT(60) DEF Consult, Saw
  <2>2. c \notin Served'
    BY <1>b, <1>p DEF Served, Consult
  <2> QED BY <1>b, <2>1, <2>2, <1>1, <1>u, QuietStep DEF Consult, Live, PCs
<1>c. CASE ListUpload(c)
  <2> DEFINE l == IF slotType[c] # grant[c] THEN "swap" ELSE "send"
  <2>1. l \in {"swap", "send"} /\ Goto(c, l)
    BY <1>c DEF ListUpload
  <2>2. c \in Served
    BY <1>c DEF ListUpload, Served
  <2> HIDE DEF l
  <2> QED BY <1>c, <2>1, <2>2, <1>1, <1>u, QuietStep DEF ListUpload, Live, PCs
<1>d. CASE Send(c)
  <2>1. saw' \in [Conns -> Saw] /\ grant' \in [Conns -> SlotTypes] /\ c \in Served
    BY <1>d, <1>1, <1>2 DEF Send, Served
  <2> QED BY <1>d, <2>1, <1>1, <1>u, QuietStep DEF Send, Live, PCs
<1>e. CASE TransmitDone(c)
  <2>1. c \in Served
    BY <1>e DEF TransmitDone, Served
  <2> QED BY <1>e, <2>1, <1>1, <1>u, QuietStep DEF TransmitDone, Live, PCs
<1>f. CASE Fail(c)
  <2>1. c \notin Served'
    BY <1>f, <1>p DEF Fail, Served
  <2> QED BY <1>f, <2>1, <1>1, <1>u, QuietStep DEF Fail, Live, PCs
<1>g. CASE ProtocolError(c)
  <2>1. c \notin Served'
    BY <1>g, <1>p DEF ProtocolError, Served
  <2> QED BY <1>g, <2>1, <1>1, <1>u, QuietStep DEF ProtocolError, Live, PCs
<1> QED BY <1>a, <1>b, <1>c, <1>d, <1>e, <1>f, <1>g

\* prepareFile decides: the user is refused and waits, or is to be cleared.
LEMMA DecideStep ==
    ASSUME IInv, NEW c \in Conns, Decide(c) PROVE IInv'
<1>1. /\ pc[c] = "consulted"
      /\ UNCHANGED <<user, slotType, uploads, count, lost, notified, reserved, online>>
  BY DEF Decide, counters
<1>2. PICK auto, lee :
          LET favoured == saw[c].hasReserved \/ user[c] \in Favorites
              slot == SlotFor(c, auto, lee /\ ~favoured)
          IN  \/ /\ slot = {}
                 /\ AddToQueue(user[c])
                 /\ Goto(c, "get")
                 /\ grant' = [grant EXCEPT ![c] = "NOSLOT"]
                 /\ saw' = [saw EXCEPT ![c] = Nothing]
                 /\ UNCHANGED recent
              \/ \E s \in slot :
                 /\ grant' = [grant EXCEPT ![c] = s]
                 /\ saw' = [saw EXCEPT ![c] = Nothing]
                 /\ recent' = TRUE
                 /\ Goto(c, "clear")
                 /\ UNCHANGED slotQueue
  BY Zenon DEF Decide
<1> DEFINE slot == SlotFor(c, auto, lee /\ ~(saw[c].hasReserved \/ user[c] \in Favorites))
<1>3. slot \subseteq SlotTypes
  BY DEF SlotFor, SlotTypes
<1>4. /\ grant \in [Conns -> SlotTypes] /\ saw \in [Conns -> Saw] /\ recent \in BOOLEAN
      /\ pc \in [Conns -> PCs] /\ uploads \subseteq Conns
  BY DEF IInv, TypeOK
<1>5. Nothing \in Saw /\ "NOSLOT" \in SlotTypes
  BY DEF Nothing, Saw, SlotTypes
<1>6. user[c] \in Users /\ \A e \in Conns : Live(e) /\ user[e] = user[c] => e = c
  BY <1>1 DEF IInv, UserOK, Live
<1> HIDE DEF slot
<1>7. CASE /\ AddToQueue(user[c])
           /\ Goto(c, "get")
           /\ grant' = [grant EXCEPT ![c] = "NOSLOT"]
           /\ saw' = [saw EXCEPT ![c] = Nothing]
           /\ UNCHANGED recent
  <2>1. /\ waiting' = waiting \cup {user[c]}
        /\ ahead' \subseteq waiting' \X waiting'
        /\ QueueIsLine'
    BY <1>6, <1>7, AddToQueueLine DEF IInv
  <2>2. \A e \in Conns : (e # c => pc'[e] = pc[e]) /\ pc'[c] = "get"
    BY <1>4, <1>7 DEF Goto
  <2>3. /\ pc' \in [Conns -> PCs] /\ grant' \in [Conns -> SlotTypes]
        /\ saw' \in [Conns -> Saw]
    BY <1>4, <1>5, <1>7 DEF Goto, PCs
  <2>4. TypeOK'
    BY <2>1, <2>3, <1>1, <1>4, <1>6, <1>7 DEF IInv, TypeOK
  <2>5. UserOK'
    BY <2>2, <1>1 DEF IInv, UserOK, Live
  <2>6. ServedNotWaiting'
    <3> SUFFICES ASSUME NEW e \in Served'
                 PROVE  user'[e] \notin waiting' /\ user'[e] \notin Notified'
      BY DEF ServedNotWaiting
    <3>1. e \in Served /\ e # c /\ e \in Conns
      BY <2>2 DEF Served
    <3>2. user[e] # user[c]
      BY <3>1, <1>6 DEF Served, Live
    <3>3. user[e] \notin waiting /\ user[e] \notin Notified
      BY <3>1 DEF IInv, ServedNotWaiting
    <3>4. Notified' = Notified
      BY <1>1 DEF Notified
    <3> QED BY <3>2, <3>3, <3>4, <2>1, <1>1
  <2>7. SlotsCounted'
    BY <2>2, <1>1, CountedSame DEF IInv
  <2> QED BY <2>1, <2>4, <2>5, <2>6, <2>7 DEF IInv
<1>8. ASSUME NEW s \in slot,
             grant' = [grant EXCEPT ![c] = s],
             saw' = [saw EXCEPT ![c] = Nothing],
             recent' = TRUE, Goto(c, "clear"), UNCHANGED slotQueue
      PROVE  IInv'
  <2>1. grant' \in [Conns -> SlotTypes] /\ saw' \in [Conns -> Saw]
    BY <1>3, <1>4, <1>5, <1>8
  <2>2. c \notin Served'
    BY <1>4, <1>8 DEF Goto, Served
  <2>3. UNCHANGED <<waiting, ahead>> /\ recent' \in BOOLEAN
    BY <1>8 DEF slotQueue
  <2> QED BY <1>1, <1>4, <1>8, <2>1, <2>2, <2>3, QuietStep DEF Live, PCs
<1> QED BY ZenonT(40), <1>2, <1>7, <1>8 DEF slot

\* prepareFile clears the user whom it is about to serve.
LEMMA ClearStep ==
    ASSUME IInv, NEW c \in Conns, ClearUser(c) PROVE IInv'
<1>1. /\ pc[c] = "clear" /\ LeaveQueue({user[c]}) /\ Goto(c, "list")
      /\ notified' = [notified EXCEPT ![user[c]] = "none"]
      /\ UNCHANGED <<user, slotType, grant, saw, uploads, count, lost, reserved, recent, online>>
  BY DEF ClearUser, counters
<1>2. /\ waiting' \subseteq waiting /\ waiting' \subseteq Users
      /\ ahead' \subseteq waiting' \X waiting'
      /\ QueueIsLine'
  BY <1>1, LeaveQueueLine DEF IInv
<1>3. pc \in [Conns -> PCs] /\ notified \in [Users -> Ages]
  BY DEF IInv, TypeOK
<1>4. \A e \in Conns : (e # c => pc'[e] = pc[e]) /\ pc'[c] = "list"
  BY <1>1, <1>3 DEF Goto
<1>5. TypeOK'
  <2>1. pc' \in [Conns -> PCs] /\ notified' \in [Users -> Ages]
    BY ZenonT(40), <1>1, <1>3 DEF Goto, PCs, Ages
  <2> QED BY <2>1, <1>1, <1>2 DEF IInv, TypeOK
<1>6. UserOK'
  BY <1>1, <1>4 DEF IInv, UserOK, Live
<1>7. ServedNotWaiting'
  <2>1. user[c] \notin waiting'
    BY <1>1 DEF LeaveQueue
  <2>2. Notified' \subseteq Notified \ {user[c]}
    BY <1>1, <1>3 DEF Notified
  <2>3. Served' \subseteq Served \cup {c}
    BY <1>4 DEF Served
  <2> QED BY <2>1, <2>2, <2>3, <1>1, <1>2 DEF IInv, ServedNotWaiting
<1>8. SlotsCounted'
  BY <1>1, <1>4, CountedSame DEF IInv
<1> QED BY <1>2, <1>5, <1>6, <1>7, <1>8 DEF IInv

\* A step of c that processes a slot, giving back or taking what c is counted
\* for, keeps the counters right.
LEMMA SlotMoved ==
    ASSUME IInv, NEW c \in Conns, NEW type \in SlotTypes, NEW delta \in {-1, 1},
           processSlot(c, type, delta),
           \A k \in Counters :
              /\ Counted(k)' \ {c} = Counted(k) \ {c}
              /\ c \in Counted(k) <=> delta = -1 /\ k \in CounterOf(type)
              /\ c \in Counted(k)' <=> delta = 1 /\ k \in CounterOf(type)
    PROVE  SlotsCounted'
<1> SUFFICES ASSUME NEW k \in Counters
             PROVE  count'[k] = Cardinality(Counted(k)') + lost'[k]
  BY DEF SlotsCounted
<1>1. /\ count' \in [Counters -> Int] /\ lost' \in [Counters -> -MaxLost .. MaxLost]
      /\ count'[k] - lost'[k]
           = count[k] - lost[k] + (IF k \in CounterOf(type) THEN delta ELSE 0)
  BY ProcessSlotAdds DEF IInv
<1>2. /\ count[k] \in Int /\ lost[k] \in Int /\ count'[k] \in Int /\ lost'[k] \in Int
      /\ count[k] = Cardinality(Counted(k)) + lost[k]
  BY <1>1, SlotsAssumption DEF IInv, TypeOK, SlotsCounted
<1>3. IsFiniteSet(Counted(k)) /\ Cardinality(Counted(k)) \in Nat
  BY CountedFinite, FS_CardinalityType
<1>4. CASE k \notin CounterOf(type)
  <2>1. Counted(k)' = Counted(k)
    BY <1>4
  <2> QED BY <2>1, <1>1, <1>2, <1>3, <1>4
<1>5. CASE k \in CounterOf(type) /\ delta = -1
  <2>1. c \in Counted(k) /\ Counted(k)' = Counted(k) \ {c}
    BY <1>5
  <2>2. Cardinality(Counted(k)') = Cardinality(Counted(k)) - 1
    BY <2>1, <1>3, FS_RemoveElement, ZenonT(30)
  <2> QED BY <2>2, <1>1, <1>2, <1>3, <1>5
<1>6. CASE k \in CounterOf(type) /\ delta = 1
  <2>1. c \notin Counted(k) /\ Counted(k)' = Counted(k) \cup {c}
    BY <1>6
  <2>2. Cardinality(Counted(k)') = Cardinality(Counted(k)) + 1
    BY <2>1, <1>3, FS_AddElement, ZenonT(30)
  <2> QED BY <2>2, <1>1, <1>2, <1>3, <1>6
<1> QED BY <1>4, <1>5, <1>6

\* The old slot is given back, the new one taken, and the last one given back
\* when the connection ends.
LEMMA SlotSteps ==
    ASSUME IInv, NEW c \in Conns, ReturnSlot(c) \/ TakeSlot(c) \/ RemoveConnectionSlot(c)
    PROVE  IInv'
<1>1. /\ pc \in [Conns -> PCs] /\ slotType \in [Conns -> SlotTypes]
      /\ grant \in [Conns -> SlotTypes]
  BY DEF IInv, TypeOK
<1>2. PICK l \in PCs, type \in SlotTypes, delta \in {-1, 1} :
         /\ processSlot(c, type, delta)
         /\ Goto(c, l)
         /\ \/ pc[c] = "swap" /\ l = "swapped" /\ type = slotType[c] /\ delta = -1
                  /\ slotType' = slotType
            \/ pc[c] = "swapped" /\ l = "send" /\ type = grant[c] /\ delta = 1
                  /\ slotType' = [slotType EXCEPT ![c] = grant[c]]
            \/ pc[c] = "closing" /\ l = "unused" /\ type = slotType[c] /\ delta = -1
                  /\ slotType' = [slotType EXCEPT ![c] = "NOSLOT"]
  <2>1. {"swapped", "send", "unused"} \subseteq PCs
    BY DEF PCs
  <2>2. CASE ReturnSlot(c)
    BY <2>1, <2>2, <1>1 DEF ReturnSlot
  <2>3. CASE TakeSlot(c)
    BY <2>1, <2>3, <1>1 DEF TakeSlot
  <2>4. CASE RemoveConnectionSlot(c)
    BY <2>1, <2>4, <1>1 DEF RemoveConnectionSlot
  <2> QED BY <2>2, <2>3, <2>4
<1>3. UNCHANGED <<user, grant, saw, uploads, waiting, ahead, notified, reserved, recent, online>>
  BY DEF ReturnSlot, TakeSlot, RemoveConnectionSlot, queue, slotQueue
<1>4. \A e \in Conns : (e # c => pc'[e] = pc[e] /\ slotType'[e] = slotType[e]) /\ pc'[c] = l
  BY <1>1, <1>2 DEF Goto
<1>5. TypeOK'
  <2>1. pc' \in [Conns -> PCs] /\ slotType' \in [Conns -> SlotTypes]
    BY <1>1, <1>2 DEF Goto, SlotTypes
  <2>2. count' \in [Counters -> Int] /\ lost' \in [Counters -> -MaxLost .. MaxLost]
    BY <1>2, ProcessSlotAdds DEF IInv
  <2> QED BY <2>1, <2>2, <1>3 DEF IInv, TypeOK
<1>6. UserOK'
  BY <1>2, <1>3, <1>4 DEF IInv, UserOK, Live
<1>7. ServedNotWaiting'
  <2>1. Served' \subseteq Served
    BY <1>2, <1>4 DEF Served
  <2> QED BY <2>1, <1>3, ServedSame DEF IInv, Notified
<1>8. QueueIsLine'
  BY <1>3 DEF IInv, QueueIsLine
<1>9. SlotsCounted'
  <2>1. ASSUME NEW k \in Counters
        PROVE  Counted(k)' \ {c} = Counted(k) \ {c}
    BY <1>4 DEF Counted
  <2>2. ASSUME NEW k \in Counters
        PROVE  c \in Counted(k) <=> delta = -1 /\ k \in CounterOf(type)
    BY <1>2 DEF Counted
  <2>3. ASSUME NEW k \in Counters
        PROVE  c \in Counted(k)' <=> delta = 1 /\ k \in CounterOf(type)
    <3>1. k \notin CounterOf("NOSLOT")
      BY DEF CounterOf
    <3> QED BY <3>1, <1>1, <1>2, <1>4 DEF Counted
  <2> QED BY <2>1, <2>2, <2>3, <1>2, SlotMoved
<1> QED BY <1>5, <1>6, <1>7, <1>8, <1>9 DEF IInv

\* The steps of the timer, of the program's user and of the hubs touch no
\* connection: it is enough that the queue stays a queue and that whoever is
\* notified waited or was notified before.
LEMMA OutsideStep ==
    ASSUME IInv, UNCHANGED <<conn, count, lost>>,
           waiting' \subseteq waiting, ahead' \subseteq waiting' \X waiting', QueueIsLine',
           notified' \in [Users -> Ages], Notified' \subseteq Notified \cup waiting,
           reserved' \in [Users -> Ages], recent' \in BOOLEAN, online' \subseteq Users
    PROVE  IInv'
<1>1. UNCHANGED <<pc, user, slotType, grant, saw, uploads>>
  BY DEF conn
<1>2. TypeOK'
  BY <1>1 DEF IInv, TypeOK
<1>3. UserOK'
  BY ZenonT(40), <1>1 DEF IInv, UserOK, Live
<1>4. ServedNotWaiting'
  BY <1>1, ServedSame DEF IInv, Served
<1>5. SlotsCounted'
  BY <1>1, CountedSame DEF IInv
<1> QED BY <1>2, <1>3, <1>4, <1>5 DEF IInv

\* Each of those steps is one.
LEMMA OutsideSteps ==
    ASSUME IInv,
           \/ NotifyQueuedUsers \/ ExpireNotified \/ ExpireReserved \/ TimePasses
           \/ \E u \in Users : \/ ReserveSlot(u) \/ UnreserveSlot(u)
                               \/ UserDisconnected(u) \/ UserConnected(u)
    PROVE  IInv'
<1>1. /\ notified \in [Users -> Ages] /\ reserved \in [Users -> Ages] /\ recent \in BOOLEAN
      /\ online \subseteq Users /\ waiting \subseteq Users /\ ahead \subseteq waiting \X waiting
      /\ QueueIsLine /\ TypeOK
  BY DEF IInv, TypeOK
<1>2. Notified \subseteq Notified \cup waiting /\ {"none", "fresh", "passed"} \subseteq Ages
  BY DEF Ages
<1>3. ASSUME NEW S, LeaveQueue(S)
      PROVE  waiting' \subseteq waiting /\ ahead' \subseteq waiting' \X waiting' /\ QueueIsLine'
  BY <1>1, <1>3, LeaveQueueLine
<1>4. ASSUME UNCHANGED slotQueue
      PROVE  waiting' \subseteq waiting /\ ahead' \subseteq waiting' \X waiting' /\ QueueIsLine'
  BY <1>1, <1>4 DEF slotQueue, QueueIsLine
<1>5. ASSUME UNCHANGED counters PROVE UNCHANGED <<count, lost>>
  BY <1>5 DEF counters
<1>6. ASSUME UNCHANGED notified
      PROVE  notified' \in [Users -> Ages] /\ Notified' \subseteq Notified \cup waiting
  BY <1>1, <1>6 DEF Notified
<1>a. CASE NotifyQueuedUsers
  <2>1. PICK P \in SUBSET waiting :
           /\ notified' = [u \in Users |-> IF u \in P \cap online THEN "fresh" ELSE notified[u]]
           /\ LeaveQueue(P)
    BY <1>a DEF NotifyQueuedUsers, Popped
  <2>2. notified' \in [Users -> Ages] /\ Notified' \subseteq Notified \cup waiting
    BY <2>1, <1>1, <1>2 DEF Notified
  <2>3. UNCHANGED <<conn, counters, reserved, recent, online>>
    BY <1>a DEF NotifyQueuedUsers
  <2> QED BY <2>1, <2>2, <2>3, <1>1, <1>3, <1>5, OutsideStep
<1>b. CASE ExpireNotified
  <2>1. PICK old \in SUBSET waiting :
           LeaveQueue(old \cup {u \in waiting : notified[u] = "passed"})
    BY ZenonT(40), <1>b DEF ExpireNotified
  <2>2. notified' \in [Users -> Ages] /\ Notified' \subseteq Notified \cup waiting
    BY <1>b, <1>1, <1>2 DEF ExpireNotified, Notified
  <2> QED BY <1>b, <2>1, <2>2, <1>1, <1>3, <1>5, OutsideStep DEF ExpireNotified
<1>c. CASE ExpireReserved
  <2>1. reserved' \in [Users -> Ages]
    BY <1>c, <1>1, <1>2 DEF ExpireReserved
  <2> QED BY <1>c, <2>1, <1>1, <1>4, <1>5, <1>6, OutsideStep DEF ExpireReserved, queue
<1>d. CASE TimePasses
  <2>1. UNCHANGED <<conn, counters, slotQueue, online>>
    BY <1>d DEF TimePasses
  <2>2. /\ notified' \in [Users -> Ages] /\ Notified' \subseteq Notified \cup waiting
        /\ reserved' \in [Users -> Ages]
    BY <1>d, <1>1, <1>2 DEF TimePasses, Notified
  <2>3. recent' \in BOOLEAN
    BY <1>d, <1>1, Zenon DEF TimePasses
  <2> QED BY <2>1, <2>2, <2>3, <1>1, <1>4, <1>5, OutsideStep
<1>e. ASSUME NEW u \in Users, ReserveSlot(u) \/ UnreserveSlot(u) PROVE IInv'
  <2>1. reserved' \in [Users -> Ages]
    BY <1>e, <1>1, <1>2 DEF ReserveSlot, UnreserveSlot
  <2>2. UNCHANGED <<conn, counters, queue, recent, online>>
    BY <1>e DEF ReserveSlot, UnreserveSlot
  <2> QED BY <2>1, <2>2, <1>1, <1>4, <1>5, <1>6, OutsideStep DEF queue
<1>f. ASSUME NEW u \in Users, UserDisconnected(u) PROVE IInv'
  <2>1. LeaveQueue({u}) /\ online' \subseteq Users
    BY <1>f, <1>1 DEF UserDisconnected
  <2> QED BY <1>f, <2>1, <1>1, <1>3, <1>5, <1>6, OutsideStep DEF UserDisconnected
<1>g. ASSUME NEW u \in Users, UserConnected(u) PROVE IInv'
  <2>1. online' \subseteq Users /\ UNCHANGED <<conn, counters, queue, reserved, recent>>
    BY <1>g, <1>1 DEF UserConnected
  <2> QED BY <2>1, <1>1, <1>4, <1>5, <1>6, OutsideStep DEF queue
<1> QED BY <1>a, <1>b, <1>c, <1>d, <1>e, <1>f, <1>g

-----------------------------------------------------------------------------
\* The inductive invariant holds in every reachable state.
LEMMA Inductive == Spec => []IInv
<1>1. Init => IInv
  BY InitInv
<1>2. IInv /\ [Next]_vars => IInv'
  <2> SUFFICES ASSUME IInv, [Next]_vars PROVE IInv'
    OBVIOUS
  <2>1. ASSUME NEW c \in Conns,
               \/ AddConnection(c) \/ PrepareFile(c) \/ Send(c) \/ TransmitDone(c)
               \/ Fail(c) \/ RemoveConnectionSlot(c) \/ ProtocolError(c)
        PROVE  IInv'
    BY <2>1, NewConnection, QuietSteps, DecideStep, ClearStep, SlotSteps DEF PrepareFile
  <2>2. CASE UNCHANGED vars
    <3>1. UNCHANGED <<pc, user, slotType, grant, saw, uploads, count, lost, waiting, ahead,
                      notified, reserved, recent, online>>
      BY <2>2 DEF vars, conn, counters, queue, slotQueue
    <3>2. TypeOK' /\ UserOK'
      BY <3>1 DEF IInv, TypeOK, UserOK, Live
    <3>3. ServedNotWaiting' /\ QueueIsLine'
      BY <3>1 DEF IInv, ServedNotWaiting, Served, Notified, QueueIsLine
    <3>4. SlotsCounted'
      BY <3>1, CountedSame DEF IInv
    <3> QED BY <3>2, <3>3, <3>4 DEF IInv
  <2> QED BY <2>1, <2>2, OutsideSteps DEF Next
<1> QED BY <1>1, <1>2, PTL DEF Spec

\* The variables of UploadManager keep their types, and nobody has a place in
\* slotQueue without waiting in it.
THEOREM SlotsTypeOKAlways == Spec => []TypeOK
BY Inductive, PTL DEF IInv

\* prepareFile, notifyQueuedUsers and the expiry of entries together keep users
\* who are being served out of slotQueue and notifiedUsers.
THEOREM ServedNotWaitingAlways == Spec => []ServedNotWaiting
BY Inductive, PTL DEF IInv

\* addToQueue, clearUserFilesL and notifyQueuedUsers keep slotQueue one line.
THEOREM QueueIsLineAlways == Spec => []QueueIsLine
BY Inductive, PTL DEF IInv

\* processSlot is called so that the counters say how many connections hold a
\* slot, but for the updates that unprotected access loses.
THEOREM SlotsCountedAlways == Spec => []SlotsCounted
BY Inductive, PTL DEF IInv

\* Only notifyQueuedUsers notifies a user, and it takes them from the front.
LEMMA StepInOrder == IInv /\ [Next]_vars => InOrder
<1> SUFFICES ASSUME IInv, [Next]_vars, NEW p \in ahead,
                    p[1] \in online, p[2] \in waiting \ waiting', p[2] \notin Notified,
                    notified'[p[2]] = "fresh"
             PROVE  notified'[p[1]] = "fresh"
  BY DEF InOrder
<1>1. /\ notified \in [Users -> Ages] /\ waiting \subseteq Users /\ online \subseteq Users
      /\ p[1] \in waiting /\ p[2] \in waiting /\ p = <<p[1], p[2]>>
  BY DEF IInv, TypeOK
<1>2. notified[p[2]] = "none"
  BY <1>1 DEF Notified
<1>3. notified' # notified
  BY <1>2
<1>4. CASE NotifyQueuedUsers
  <2>1. PICK P \in Popped(getFreeSlots - Cardinality(Notified)) :
          /\ notified' = [u \in Users |-> IF u \in P \cap online THEN "fresh" ELSE notified[u]]
          /\ LeaveQueue(P)
    BY <1>4 DEF NotifyQueuedUsers
  <2>2. \A v \in P : \A u \in waiting : <<u, v>> \in ahead => u \in P
    BY <2>1 DEF Popped
  <2>3. p[2] \in P
    BY <2>1, <1>1 DEF LeaveQueue
  <2> QED BY <2>1, <2>2, <2>3, <1>1
<1>5. CASE ExpireNotified
  BY <1>5, <1>1, <1>2 DEF ExpireNotified
<1>6. CASE TimePasses
  BY <1>6, <1>1, <1>2 DEF TimePasses
<1>7. ASSUME NEW c \in Conns, ClearUser(c) PROVE FALSE
  BY <1>7, <1>1, <1>2 DEF ClearUser
<1>8. ASSUME NEW c \in Conns,
             \/ AddConnection(c) \/ Ask(c) \/ Consult(c) \/ Decide(c) \/ ListUpload(c)
             \/ ReturnSlot(c) \/ TakeSlot(c) \/ Send(c) \/ TransmitDone(c)
             \/ Fail(c) \/ RemoveConnectionSlot(c) \/ ProtocolError(c)
      PROVE  notified' = notified
  BY <1>8 DEF AddConnection, Ask, Consult, Decide, ListUpload, ReturnSlot, TakeSlot, Send,
              TransmitDone, Fail, RemoveConnectionSlot, ProtocolError, queue
<1>9. ASSUME \/ ExpireReserved
             \/ \E u \in Users : \/ ReserveSlot(u) \/ UnreserveSlot(u)
                                 \/ UserDisconnected(u) \/ UserConnected(u)
      PROVE  notified' = notified
  BY <1>9 DEF ExpireReserved, ReserveSlot, UnreserveSlot, UserDisconnected, UserConnected, queue
<1>10. CASE UNCHANGED vars
  BY <1>10, <1>3 DEF vars, queue
<1> QED BY <1>3, <1>4, <1>5, <1>6, <1>7, <1>8, <1>9, <1>10 DEF Next, PrepareFile

\* notifyQueuedUsers passes over nobody who is online.
THEOREM NotifiedInOrderAlways == Spec => NotifiedInOrder
BY Inductive, StepInOrder, PTL DEF Spec, NotifiedInOrder

=============================================================================
