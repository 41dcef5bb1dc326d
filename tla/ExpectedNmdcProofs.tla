------------------------- MODULE ExpectedNmdcProofs -------------------------
(***************************************************************************)
(* Proofs about ExpectedNmdc, for any number of nicks, hubs, tokens and     *)
(* threads.                                                                 *)
(***************************************************************************)
EXTENDS ExpectedNmdc, TLAPS

\* What holds of the map itself, without the rest of the state.
MapInv ==
    /\ expected \subseteq Entry
    /\ id \in Nat
    /\ OneOutstanding
    /\ OneEntryPerKind
    /\ IdsInOrder

\* The inductive invariant.
Inv == TypeOK /\ OneOutstanding /\ OneEntryPerKind /\ IdsInOrder

\* Taking entries out of the map keeps MapInv.
LEMMA SmallerMap ==
    ASSUME MapInv, expected' \subseteq expected, id' = id
    PROVE  MapInv'
  BY DEF MapInv, OneOutstanding, OneEntryPerKind, IdsInOrder, Outstanding, EntriesOf

\* ExpectedNmdcMap::add keeps MapInv.
LEMMA AddKeepsMap ==
    ASSUME MapInv, NEW u \in Users, NEW tok \in Tokens \cup {NoToken},
           ConnectToMe(u, tok)
    PROVE  MapInv' /\ (ctm \subseteq Users => ctm' \subseteq Users)
<1> DEFINE result == Outstanding(expected, Nick(u)) = {}
<1>u. Nick(u) \in Nicks /\ Hub(u) \in Hubs
  BY DEF Users, Nick, Hub
<1>1. ctm \subseteq Users => ctm' \subseteq Users
  BY DEF ConnectToMe, Expect
<1>2. CASE Same(u, tok) = {} /\ Insert(u, tok, result)
  <2> DEFINE new == [nick |-> Nick(u), hub |-> Hub(u), token |-> tok, id |-> id + 1,
                     expires |-> IF IsDownload(tok) THEN "never" ELSE "fresh",
                     waiting |-> ~result]
  <2>1. new \in Entry
    BY <1>u DEF Entry, MapInv
  <2>2. expected' = expected \cup {new} /\ id' = id + 1
    BY <1>2 DEF Insert
  <2>3. /\ new.nick = Nick(u) /\ new.hub = Hub(u) /\ new.token = tok
        /\ new.id = id + 1
        /\ ~new.waiting => \A e \in expected : e.nick = Nick(u) => e.waiting
    BY DEF Outstanding, EntriesOf
  <2> HIDE DEF new
  <2>4. OneOutstanding'
    <3> SUFFICES ASSUME NEW n \in Nicks, NEW e \in expected', NEW f \in expected',
                        e.nick = n, f.nick = n, ~e.waiting, ~f.waiting
                 PROVE  e = f
      BY DEF OneOutstanding, Outstanding, EntriesOf
    <3>1. ASSUME e \in expected, f \in expected PROVE e = f
      BY <3>1 DEF MapInv, OneOutstanding, Outstanding, EntriesOf
    <3> QED BY <2>2, <2>3, <3>1
  <2>5. OneEntryPerKind'
    BY <1>2, <2>2, <2>3 DEF MapInv, OneEntryPerKind, Same, EntriesOf
  <2>6. IdsInOrder'
    BY <2>2, <2>3 DEF MapInv, IdsInOrder
  <2> QED BY <1>1, <2>1, <2>2, <2>4, <2>5, <2>6 DEF MapInv
<1>3. CASE result /\ \E e \in Same(u, tok) : Promote(e, tok)
  <2> PICK e \in Same(u, tok) : Promote(e, tok)
    BY <1>3
  <2> DEFINE new == [e EXCEPT !.waiting = FALSE, !.token = tok,
                              !.expires = IF IsDownload(tok) THEN "never" ELSE "fresh"]
  <2>1. e \in expected /\ e \in Entry /\ e.nick = Nick(u) /\ e.hub = Hub(u)
        /\ IsDownload(e.token) = IsDownload(tok)
    BY DEF Same, EntriesOf, MapInv
  <2>2. expected' = (expected \ {e}) \cup {new} /\ id' = id
    BY DEF Promote
  <2>3. /\ new \in Entry
        /\ new.nick = e.nick /\ new.hub = e.hub /\ new.token = tok
        /\ new.id = e.id /\ new.waiting = FALSE
    BY ZenonT(40), <2>1 DEF Entry
  <2> HIDE DEF new
  <2>4. OneOutstanding'
    BY <1>3, <2>1, <2>2, <2>3 DEF MapInv, OneOutstanding, Outstanding, EntriesOf
  <2>5. OneEntryPerKind'
    BY <2>1, <2>2, <2>3 DEF MapInv, OneEntryPerKind
  <2>6. IdsInOrder'
    BY <2>1, <2>2, <2>3 DEF MapInv, IdsInOrder
  <2> QED BY <1>1, <2>2, <2>3, <2>4, <2>5, <2>6 DEF MapInv
<1>4. CASE UNCHANGED <<expected, id>>
  BY <1>1, <1>4, SmallerMap
<1> QED BY <1>2, <1>3, <1>4 DEF ConnectToMe, Expect

\* The moment an upload request expires changes no other part of its entry.
LEMMA TimeKeepsMap ==
    ASSUME MapInv, TimePasses
    PROVE  MapInv'
<1> PICK e \in expected :
         /\ e.expires = "fresh"
         /\ expected' = (expected \ {e}) \cup {[e EXCEPT !.expires = "passed"]}
  BY DEF TimePasses
<1> DEFINE new == [e EXCEPT !.expires = "passed"]
<1>1. e \in Entry /\ id' = id
  BY DEF MapInv, TimePasses
<1>2. /\ new \in Entry /\ new.nick = e.nick /\ new.hub = e.hub
      /\ new.token = e.token /\ new.id = e.id /\ new.waiting = e.waiting
  BY <1>1 DEF Entry
<1>3. expected' = (expected \ {e}) \cup {new}
  OBVIOUS
<1> HIDE DEF new
<1>4. OneOutstanding'
  BY <1>2, <1>3 DEF MapInv, OneOutstanding, Outstanding, EntriesOf
<1>5. OneEntryPerKind'
  BY <1>2, <1>3 DEF MapInv, OneEntryPerKind
<1>6. IdsInOrder'
  BY <1>1, <1>2, <1>3 DEF MapInv, IdsInOrder
<1> QED BY <1>1, <1>2, <1>3, <1>4, <1>5, <1>6 DEF MapInv

\* What NextOf yields are NextConnectionInfo values.
LEMMA NextOfType ==
    ASSUME NEW E \in SUBSET Entry, NEW n
    PROVE  NextOf(E, n) \subseteq NextInfo
<1> SUFFICES ASSUME NEW e \in E
             PROVE  [nick |-> e.nick, hub |-> e.hub, token |-> e.token] \in NextInfo
  BY DEF NextOf, Parked, EntriesOf
<1> e \in Entry
  OBVIOUS
<1> QED BY DEF Entry, NextInfo

\* What lapses are nicks.
LEMMA LapseType ==
    ASSUME lapsed \subseteq Nicks, NEW E, Lapse(E)
    PROVE  lapsed' \subseteq Nicks
  BY DEF Lapse

\* A step of any action preserves the inductive invariant.
LEMMA InvStep == Inv /\ [Next]_vars => Inv'
<1> SUFFICES ASSUME Inv, [Next]_vars PROVE Inv'
  OBVIOUS
<1>m. MapInv
  BY DEF Inv, TypeOK, MapInv
<1>s. SUFFICES MapInv' /\ TypeOK'
  BY DEF Inv, MapInv
<1> USE DEF Inv
<1>1. ASSUME NEW u \in Users, ConnectDownload(u) PROVE MapInv' /\ TypeOK'
  <2>1. token[u] \in Tokens \cup {NoToken} /\ ConnectToMe(u, token[u])
    BY <1>1 DEF TypeOK, ConnectDownload
  <2>2. MapInv' /\ ctm' \subseteq Users
    BY <1>m, <2>1, AddKeepsMap DEF TypeOK
  <2> QED BY <1>1, <2>2 DEF TypeOK, ConnectDownload, MapInv, ItemStates
<1>2. ASSUME NEW u \in Users, RevConnectToMe(u) PROVE MapInv' /\ TypeOK'
  <2>1. MapInv' /\ ctm' \subseteq Users
    BY <1>m, <1>2, AddKeepsMap DEF TypeOK, RevConnectToMe
  <2> QED BY <1>2, <2>1 DEF TypeOK, RevConnectToMe, MapInv
<1>3. ASSUME NEW u \in Users, RemoveToken(token[u]), id' = id
      PROVE  MapInv' /\ next' \in [Threads -> SUBSET NextInfo] /\ lapsed' \subseteq Nicks
  <2>1. expected' \subseteq expected
    BY <1>3 DEF RemoveToken
  <2>2. MapInv'
    BY <1>m, <1>3, <2>1, SmallerMap
  <2>3. ASSUME NEW n PROVE NextOf(expected', n) \in SUBSET NextInfo
    BY <2>2, NextOfType DEF MapInv
  <2>4. next' \in [Threads -> SUBSET NextInfo]
    <3>1. next \in [Threads -> SUBSET NextInfo] /\ Timer \in Threads
      BY DEF TypeOK, Threads
    <3>2. CASE \E e \in expected : next' = [next EXCEPT ![Timer] = NextOf(expected', e.nick)]
      <4> PICK e \in expected : next' = [next EXCEPT ![Timer] = NextOf(expected', e.nick)]
        BY <3>2
      <4> QED BY <2>3, <3>1
    <3>3. CASE UNCHANGED next
      BY <3>1, <3>3
    <3> QED BY <1>3, <3>2, <3>3 DEF RemoveToken
  <2>5. lapsed' \subseteq Nicks
    BY ZenonT(40), <1>3, LapseType DEF RemoveToken, TypeOK
  <2> QED BY <2>2, <2>4, <2>5
<1>4. ASSUME NEW u \in Users, ConnectionTimeout(u) PROVE MapInv' /\ TypeOK'
  BY <1>3, <1>4 DEF ConnectionTimeout, TypeOK, MapInv, ItemStates
<1>5. ASSUME NEW u \in Users, RemoveItem(u) PROVE MapInv' /\ TypeOK'
  BY <1>3, <1>5 DEF RemoveItem, TypeOK, MapInv, ItemStates
<1>6. CASE RemoveExpired
  <2> DEFINE gone == {e \in expected : e.expires = "passed"}
             nicks == {e.nick : e \in {x \in gone : ~x.waiting}}
  <2>1. expected' = expected \ gone /\ id' = id
    BY <1>6 DEF RemoveExpired
  <2>2. MapInv'
    BY <1>m, <2>1, SmallerMap
  <2>3. UNION {NextOf(expected \ gone, n) : n \in nicks} \in SUBSET NextInfo
    <3> HIDE DEF nicks
    <3>1. ASSUME NEW n \in nicks PROVE NextOf(expected \ gone, n) \subseteq NextInfo
      BY <2>1, <2>2, NextOfType DEF MapInv
    <3> QED BY <3>1
  <2>4. next' = [next EXCEPT ![Timer] = UNION {NextOf(expected \ gone, n) : n \in nicks}]
    BY <1>6 DEF RemoveExpired
  <2> HIDE DEF gone, nicks
  <2>5. next' \in [Threads -> SUBSET NextInfo]
    BY <2>3, <2>4 DEF TypeOK
  <2>6. lapsed' \subseteq Nicks
    BY <1>6, LapseType DEF RemoveExpired, TypeOK
  <2> QED BY <1>6, <2>2, <2>5, <2>6 DEF RemoveExpired, TypeOK, MapInv
<1>7. ASSUME NEW u \in Users, GetDownloadConnection(u) PROVE MapInv' /\ TypeOK'
  BY <1>m, <1>7, SmallerMap DEF GetDownloadConnection, TypeOK, ItemStates
<1>8. ASSUME NEW t \in SocketThreads, NEW u \in Users, ProcessMyNick(t, u)
      PROVE  MapInv' /\ TypeOK'
  <2>1. expected' \subseteq expected /\ id' = id
    BY <1>8 DEF ProcessMyNick
  <2>2. MapInv'
    BY <1>m, <2>1, SmallerMap
  <2>3. NextOf(expected, Nick(u)) \in SUBSET NextInfo
    BY <1>m, NextOfType DEF MapInv
  <2>4. next' \in [Threads -> SUBSET NextInfo]
    BY <1>8, <2>3 DEF ProcessMyNick, TypeOK
  <2>5. ctm' \subseteq Users /\ lapsed' \subseteq Nicks
    BY <1>8 DEF ProcessMyNick, Settle, TypeOK
  <2> QED BY <1>8, <2>2, <2>4, <2>5 DEF ProcessMyNick, TypeOK, MapInv
<1>9. ASSUME NEW t \in Threads, ConnectNextNmdcUser(t) PROVE MapInv' /\ TypeOK'
  <2> PICK n \in next[t] :
         /\ next' = [next EXCEPT ![t] = @ \ {n}]
         /\ \/ ConnectToMe(<<n.nick, n.hub>>, n.token)
            \/ UNCHANGED <<expected, id, ctm>>
         /\ UNCHANGED <<token, state, online, lapsed>>
    BY ZenonT(40), <1>9 DEF ConnectNextNmdcUser
  <2>1. n \in NextInfo
    BY DEF TypeOK
  <2>2. <<n.nick, n.hub>> \in Users /\ n.token \in Tokens \cup {NoToken}
    BY <2>1 DEF NextInfo, Users
  <2>3. MapInv' /\ ctm' \subseteq Users
    BY <1>m, <2>2, AddKeepsMap, SmallerMap DEF TypeOK
  <2>4. next' \in [Threads -> SUBSET NextInfo]
    BY DEF TypeOK
  <2> QED BY <2>3, <2>4 DEF TypeOK, MapInv
<1>10. ASSUME NEW u \in Users,
              \/ CheckSlots(u) \/ AddDownloadConnection(u) \/ ConnectionFailed(u)
              \/ LoseConnectToMe(u) \/ UserOnOff(u)
       PROVE  MapInv' /\ TypeOK'
  BY <1>m, <1>10, SmallerMap
  DEF CheckSlots, AddDownloadConnection, ConnectionFailed, LoseConnectToMe, Settle, UserOnOff,
      TypeOK, ItemStates
<1>11. CASE TimePasses
  BY <1>m, <1>11, TimeKeepsMap DEF TimePasses, TypeOK, MapInv
<1>12. CASE UNCHANGED vars
  BY <1>m, <1>12, SmallerMap DEF vars, TypeOK
<1> QED BY <1>1, <1>2, <1>4, <1>5, <1>6, <1>7, <1>8, <1>9, <1>10, <1>11, <1>12
        DEF Next, TimerStep

\* The empty map satisfies the inductive invariant.
LEMMA InvInit == Init => Inv
  BY DEF Init, Inv, TypeOK, OneOutstanding, OneEntryPerKind, IdsInOrder,
         Outstanding, EntriesOf, ItemStates

\* The inductive invariant holds in every reachable state.
THEOREM InvAlways == Spec => []Inv
<1>1. Init => Inv
  BY InvInit
<1>2. Inv /\ [Next]_vars => Inv'
  BY InvStep
<1> QED BY <1>1, <1>2, PTL DEF Spec

\* For any nicks, hubs, tokens and threads, ExpectedNmdcMap never holds two
\* outstanding requests of one nick.
THEOREM OneOutstandingAlways == Spec => []OneOutstanding
<1>1. Inv => OneOutstanding
  BY DEF Inv
<1> QED BY <1>1, InvAlways, PTL

\* The map never holds two requests of one kind for one user.
THEOREM OneEntryPerKindAlways == Spec => []OneEntryPerKind
<1>1. Inv => OneEntryPerKind
  BY DEF Inv
<1> QED BY <1>1, InvAlways, PTL

\* Whatever the threads do, each entry of the map, what a thread is about to hand
\* over, and the tokens and states of the download items stay well formed.
THEOREM MapTypeOKAlways == Spec => []TypeOK
<1>1. Inv => TypeOK
  BY DEF Inv
<1> QED BY <1>1, InvAlways, PTL

\* ExpectedNmdcMap::add gives each entry an id of its own, and none is ever ahead
\* of the counter: the entry with the least id is the request that came first.
THEOREM IdsInOrderAlways == Spec => []IdsInOrder
<1>1. Inv => IdsInOrder
  BY DEF Inv
<1> QED BY <1>1, InvAlways, PTL

\* Adding a request takes no outstanding one away.
LEMMA AddHandsOver ==
    ASSUME MapInv, NEW u \in Users, NEW tok, ConnectToMe(u, tok)
    PROVE  HandOver
<1> SUFFICES ASSUME NEW n \in Nicks, NEW e \in Outstanding(expected, n)
             PROVE  Outstanding(expected', n) # {}
  BY DEF HandOver
<1>1. CASE expected \subseteq expected'
  BY <1>1 DEF Outstanding, EntriesOf
<1>2. CASE /\ Outstanding(expected, Nick(u)) = {}
           /\ \E f \in Same(u, tok) : Promote(f, tok)
  <2> PICK f \in Same(u, tok) : Promote(f, tok)
    BY <1>2
  <2>1. e # f /\ e \in expected'
    BY <1>2 DEF Same, EntriesOf, Outstanding, Promote
  <2> QED BY <2>1 DEF Outstanding, EntriesOf
<1> QED BY <1>1, <1>2 DEF ConnectToMe, Expect, Insert

\* removeExpectedToken by the timer hands over when the entry was outstanding.
LEMMA RemoveTokenHandsOver ==
    ASSUME TypeOK, NEW tok, RemoveToken(tok)
    PROVE  HandOver
<1> SUFFICES ASSUME NEW n \in Nicks, Outstanding(expected, n) # {},
                    Outstanding(expected', n) = {}
             PROVE  NextOf(expected', n) \subseteq next'[Timer]
  BY DEF HandOver, Threads
<1> PICK e \in expected :
       expected' = expected \ {e} /\ next' = [next EXCEPT ![Timer] = NextOf(expected', e.nick)]
  BY ZenonT(40) DEF RemoveToken
<1>1. e.nick = n
  BY DEF Outstanding, EntriesOf
<1> QED BY <1>1 DEF TypeOK, Threads

\* Each step hands over.
LEMMA HandOverStep == Inv /\ [Next]_vars => HandOver \/ UNCHANGED vars
<1> SUFFICES ASSUME Inv, Next PROVE HandOver
  OBVIOUS
<1>m. MapInv /\ TypeOK
  BY DEF Inv, TypeOK, MapInv
<1>1. ASSUME NEW u \in Users, ConnectDownload(u) \/ RevConnectToMe(u) PROVE HandOver
  BY <1>m, <1>1, AddHandsOver DEF ConnectDownload, RevConnectToMe
<1>2. ASSUME NEW u \in Users, ConnectionTimeout(u) \/ RemoveItem(u) PROVE HandOver
  BY <1>m, <1>2, RemoveTokenHandsOver DEF ConnectionTimeout, RemoveItem
<1>3. CASE RemoveExpired
  <2> SUFFICES ASSUME NEW n \in Nicks, NEW e \in Outstanding(expected, n),
                      Outstanding(expected', n) = {}
               PROVE  NextOf(expected', n) \subseteq next'[Timer]
    BY DEF HandOver, Threads
  <2> DEFINE gone == {x \in expected : x.expires = "passed"}
             nicks == {x.nick : x \in {y \in gone : ~y.waiting}}
  <2>1. expected' = expected \ gone
    BY <1>3 DEF RemoveExpired
  <2>2. e \in gone /\ ~e.waiting /\ e.nick = n
    BY <2>1 DEF Outstanding, EntriesOf
  <2>3. n \in nicks
    BY <2>2
  <2>4. next' = [next EXCEPT ![Timer] = UNION {NextOf(expected \ gone, x) : x \in nicks}]
    BY <1>3 DEF RemoveExpired
  <2> HIDE DEF gone, nicks
  <2>5. next'[Timer] = UNION {NextOf(expected \ gone, x) : x \in nicks}
    BY <1>m, <2>4 DEF TypeOK, Threads
  <2> QED BY ZenonT(40), <2>1, <2>3, <2>5
<1>4. ASSUME NEW t \in SocketThreads, NEW u \in Users, ProcessMyNick(t, u) PROVE HandOver
  <2> SUFFICES ASSUME NEW n \in Nicks, Outstanding(expected, n) # {},
                      Outstanding(expected', n) = {}
               PROVE  NextOf(expected', n) \subseteq next'[t]
    BY DEF HandOver, Threads
  <2> PICK e \in Outstanding(expected, Nick(u)) :
         expected' = expected \ {e} /\ next' = [next EXCEPT ![t] = NextOf(expected, Nick(u))]
    BY <1>4 DEF ProcessMyNick
  <2>1. Nick(u) = n
    BY DEF Outstanding, EntriesOf
  <2>2. Parked(expected', n) = Parked(expected, n)
    BY DEF Parked, Outstanding, EntriesOf
  <2>3. NextOf(expected', n) = NextOf(expected, n)
    BY <2>2 DEF NextOf
  <2> QED BY <1>m, <2>1, <2>3 DEF TypeOK, Threads
<1>5. ASSUME NEW t \in Threads, ConnectNextNmdcUser(t) PROVE HandOver
  <2> PICK n \in next[t] :
         \/ ConnectToMe(<<n.nick, n.hub>>, n.token)
         \/ UNCHANGED expected
    BY <1>5 DEF ConnectNextNmdcUser
  <2>1. n \in NextInfo
    BY <1>m DEF TypeOK
  <2>2. <<n.nick, n.hub>> \in Users
    BY <2>1 DEF NextInfo, Users
  <2> QED BY <1>m, <2>2, AddHandsOver DEF HandOver
<1>6. CASE TimePasses
  <2> SUFFICES ASSUME NEW n \in Nicks, NEW e \in Outstanding(expected, n)
               PROVE  Outstanding(expected', n) # {}
    BY DEF HandOver
  <2> PICK f \in expected :
         expected' = (expected \ {f}) \cup {[f EXCEPT !.expires = "passed"]}
    BY <1>6 DEF TimePasses
  <2> DEFINE new == [f EXCEPT !.expires = "passed"]
  <2>1. new.nick = f.nick /\ new.waiting = f.waiting /\ new \in expected'
    BY <1>m DEF TypeOK, Entry
  <2>2. e \in expected' \/ e = f
    BY DEF Outstanding, EntriesOf
  <2> HIDE DEF new
  <2> QED BY <2>1, <2>2 DEF Outstanding, EntriesOf
<1>7. CASE UNCHANGED expected
  BY <1>7 DEF HandOver
<1> QED
  BY <1>1, <1>2, <1>3, <1>4, <1>5, <1>6, <1>7
  DEF Next, TimerStep, GetDownloadConnection, CheckSlots, AddDownloadConnection, ConnectionFailed,
      LoseConnectToMe, UserOnOff

\* Whatever thread takes away the last outstanding request of a nick goes on to
\* connect the oldest parked one: no parked request is forgotten in the map.
THEOREM HandsOverAlways == Spec => HandsOver
<1>1. Inv /\ [Next]_vars => [HandOver]_vars
  BY HandOverStep
<1> QED BY <1>1, InvAlways, PTL DEF Spec, HandsOver

-----------------------------------------------------------------------------
\* ExpectedNmdcMap::add with the $ConnectToMe that follows it keeps every
\* unanswered $ConnectToMe with the outstanding request of its nick.
LEMMA AddKeepsAttribution ==
    ASSUME MapInv, AttributedToItsHub, ctm \subseteq Users, lapsed' = lapsed,
           NEW u \in Users, NEW tok, ConnectToMe(u, tok)
    PROVE  AttributedToItsHub'
<1> DEFINE result == Outstanding(expected, Nick(u)) = {}
<1>1. CASE /\ Same(u, tok) = {} /\ Insert(u, tok, result)
           /\ ctm' = IF result THEN ctm \cup {u} ELSE ctm
  <2> DEFINE new == [nick |-> Nick(u), hub |-> Hub(u), token |-> tok, id |-> id + 1,
                     expires |-> IF IsDownload(tok) THEN "never" ELSE "fresh",
                     waiting |-> ~result]
  <2>1. expected' = expected \cup {new}
    BY <1>1 DEF Insert
  <2>2. new.nick = Nick(u) /\ new.hub = Hub(u) /\ (result => ~new.waiting)
    OBVIOUS
  <2> HIDE DEF new
  <2> SUFFICES ASSUME NEW v \in ctm', Nick(v) \notin lapsed
               PROVE  \E e \in Outstanding(expected', Nick(v)) : e.hub = Hub(v)
    BY DEF AttributedToItsHub
  <2>3. CASE v \in ctm
    BY <2>1, <2>3 DEF AttributedToItsHub, Outstanding, EntriesOf
  <2>4. CASE v = u /\ result
    BY <2>1, <2>2, <2>4 DEF Outstanding, EntriesOf
  <2> QED BY <1>1, <2>3, <2>4
<1>2. CASE /\ result /\ \E e \in Same(u, tok) : Promote(e, tok)
           /\ ctm' = ctm \cup {u}
  <2> PICK e \in Same(u, tok) : Promote(e, tok)
    BY <1>2
  <2> DEFINE new == [e EXCEPT !.waiting = FALSE, !.token = tok,
                              !.expires = IF IsDownload(tok) THEN "never" ELSE "fresh"]
  <2>1. e \in Entry /\ e.nick = Nick(u) /\ e.hub = Hub(u) /\ e.waiting
    BY <1>2 DEF Same, EntriesOf, MapInv, Outstanding
  <2>2. expected' = (expected \ {e}) \cup {new}
    BY DEF Promote
  <2>3. new.nick = Nick(u) /\ new.hub = Hub(u) /\ ~new.waiting
    BY <2>1 DEF Entry
  <2> HIDE DEF new
  <2> QED BY <1>2, <2>1, <2>2, <2>3 DEF AttributedToItsHub, Outstanding, EntriesOf
<1>3. CASE UNCHANGED <<expected, ctm>>
  BY <1>3 DEF AttributedToItsHub, Outstanding, EntriesOf
<1> QED BY <1>1, <1>2, <1>3 DEF ConnectToMe, Expect

\* Entries may go if the nicks that have asked for them lapse.
LEMMA LapseKeepsAttribution ==
    ASSUME TypeOK, AttributedToItsHub, NEW E, expected' = expected \ E, Lapse(E), ctm' = ctm
    PROVE  AttributedToItsHub'
<1> SUFFICES ASSUME NEW v \in ctm, Nick(v) \notin lapsed'
             PROVE  \E e \in Outstanding(expected', Nick(v)) : e.hub = Hub(v)
  BY DEF AttributedToItsHub
<1>1. Nick(v) \in Nicks
  BY DEF TypeOK, Users, Nick
<1>2. Nick(v) \notin lapsed /\ \A e \in E : e.nick = Nick(v) => e.waiting
  BY <1>1 DEF Lapse
<1>3. PICK e \in Outstanding(expected, Nick(v)) : e.hub = Hub(v)
  BY <1>2 DEF AttributedToItsHub
<1>4. e \notin E
  BY <1>2 DEF Outstanding, EntriesOf
<1> QED BY <1>3, <1>4 DEF Outstanding, EntriesOf

\* A $ConnectToMe that is answered or lost leaves the others where they were.
LEMMA SettleKeepsAttribution ==
    ASSUME AttributedToItsHub, NEW u \in ctm, Settle(u),
           \A v \in ctm' : Nick(v) \notin lapsed
              => Outstanding(expected, Nick(v)) \subseteq Outstanding(expected', Nick(v))
    PROVE  AttributedToItsHub'
<1> SUFFICES ASSUME NEW v \in ctm', Nick(v) \notin lapsed'
             PROVE  \E e \in Outstanding(expected', Nick(v)) : e.hub = Hub(v)
  BY DEF AttributedToItsHub
<1>1. v \in ctm /\ Nick(v) \notin lapsed
  BY DEF Settle
<1> QED BY <1>1 DEF AttributedToItsHub

\* A step keeps every unanswered $ConnectToMe with the outstanding request of its
\* nick, unless that lapses.
LEMMA AttributionStep ==
    ASSUME Inv, AttributedToItsHub, [Next]_vars
    PROVE  AttributedToItsHub'
<1>m. MapInv /\ TypeOK /\ ctm \subseteq Users
  BY DEF Inv, TypeOK, MapInv
<1>1. ASSUME NEW u \in Users, ConnectDownload(u) \/ RevConnectToMe(u)
      PROVE  AttributedToItsHub'
  BY <1>m, <1>1, AddKeepsAttribution DEF ConnectDownload, RevConnectToMe
<1>2. ASSUME NEW t \in SocketThreads, NEW u \in Users, ProcessMyNick(t, u)
      PROVE  AttributedToItsHub'
  <2>1. u \in ctm /\ Settle(u)
    BY <1>2 DEF ProcessMyNick
  <2>2. ASSUME NEW v \in ctm', Nick(v) \notin lapsed
        PROVE  Outstanding(expected, Nick(v)) \subseteq Outstanding(expected', Nick(v))
    <3>1. CASE Nick(v) = Nick(u)
      <4>1. v \in ctm /\ v # u
        BY <2>1, <2>2, <3>1 DEF Settle
      <4>2. PICK e \in Outstanding(expected, Nick(u)) : e.hub = Hub(u)
        BY <2>1, <2>2, <3>1 DEF AttributedToItsHub
      <4>3. PICK f \in Outstanding(expected, Nick(u)) : f.hub = Hub(v)
        BY <2>2, <3>1, <4>1 DEF AttributedToItsHub
      <4>4. e = f
        BY <1>m, <4>2, <4>3 DEF MapInv, OneOutstanding, Users, Nick
      <4>5. u = v
        BY <1>m, <3>1, <4>1, <4>2, <4>3, <4>4 DEF Users, Nick, Hub
      <4> QED BY <4>1, <4>5
    <3>2. CASE Nick(v) # Nick(u)
      BY <1>2, <3>2 DEF ProcessMyNick, Outstanding, EntriesOf
    <3> QED BY <3>1, <3>2
  <2> QED BY <2>1, <2>2, SettleKeepsAttribution
<1>3. ASSUME NEW t \in Threads, ConnectNextNmdcUser(t)
      PROVE  AttributedToItsHub'
  <2> PICK n \in next[t] :
         \/ ConnectToMe(<<n.nick, n.hub>>, n.token)
         \/ UNCHANGED <<expected, ctm>>
    BY <1>3 DEF ConnectNextNmdcUser
  <2>1. n \in NextInfo
    BY <1>m DEF TypeOK
  <2>2. <<n.nick, n.hub>> \in Users /\ lapsed' = lapsed
    BY <1>3, <2>1 DEF NextInfo, Users, ConnectNextNmdcUser
  <2>3. CASE UNCHANGED <<expected, ctm>>
    BY <2>2, <2>3 DEF AttributedToItsHub, Outstanding, EntriesOf
  <2> QED BY <1>m, <2>2, <2>3, AddKeepsAttribution
<1>4. ASSUME NEW u \in Users, ConnectionTimeout(u) \/ RemoveItem(u)
      PROVE  AttributedToItsHub'
  <2>1. RemoveToken(token[u]) /\ ctm' = ctm
    BY <1>4 DEF ConnectionTimeout, RemoveItem
  <2>2. CASE UNCHANGED <<expected, lapsed>>
    BY <2>1, <2>2 DEF AttributedToItsHub, Outstanding, EntriesOf
  <2>3. ASSUME NEW e \in expected, expected' = expected \ {e}, Lapse({e})
        PROVE  AttributedToItsHub'
    BY <1>m, <2>1, <2>3, LapseKeepsAttribution
  <2> QED BY <2>1, <2>2, <2>3 DEF RemoveToken
<1>5. CASE RemoveExpired
  BY <1>m, <1>5, LapseKeepsAttribution DEF RemoveExpired
<1>6. CASE TimePasses
  <2> PICK e \in expected : expected' = (expected \ {e}) \cup {[e EXCEPT !.expires = "passed"]}
    BY <1>6 DEF TimePasses
  <2> DEFINE new == [e EXCEPT !.expires = "passed"]
  <2>1. new.nick = e.nick /\ new.hub = e.hub /\ new.waiting = e.waiting
    BY <1>m DEF TypeOK, Entry
  <2>2. expected' = (expected \ {e}) \cup {new} /\ ctm' = ctm /\ lapsed' = lapsed
    BY <1>6 DEF TimePasses
  <2> HIDE DEF new
  <2> QED BY <2>1, <2>2 DEF AttributedToItsHub, Outstanding, EntriesOf
<1>7. ASSUME NEW u \in Users, LoseConnectToMe(u) PROVE AttributedToItsHub'
  BY <1>7, SettleKeepsAttribution DEF LoseConnectToMe
<1>8. CASE UNCHANGED <<expected, ctm, lapsed>>
  BY <1>8 DEF AttributedToItsHub, Outstanding, EntriesOf
<1> QED
  BY <1>1, <1>2, <1>3, <1>4, <1>5, <1>6, <1>7, <1>8
  DEF Next, TimerStep, vars, GetDownloadConnection, CheckSlots, AddDownloadConnection,
      ConnectionFailed, UserOnOff

\* For any nicks, hubs, tokens and threads: an incoming connection is taken for the
\* user of the hub through which it was asked for, unless a request of its nick
\* was withdrawn or expired while an answer to it was still to come.
THEOREM AttributedAlways == Spec => []AttributedToItsHub
<1>1. Init => AttributedToItsHub
  BY DEF Init, AttributedToItsHub
<1>2. Inv /\ AttributedToItsHub /\ [Next]_vars => AttributedToItsHub'
  BY AttributionStep
<1> QED BY <1>1, <1>2, InvAlways, PTL DEF Spec
=============================================================================
