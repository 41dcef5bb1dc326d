---------------------------- MODULE ExpectedNmdc ----------------------------
(***************************************************************************)
(* The map of expected incoming NMDC connections (class ExpectedNmdcMap of  *)
(* client/ConnectionManager.cpp) and the code that feeds it.                *)
(*                                                                          *)
(* An incoming NMDC connection introduces itself with a nick only, so when  *)
(* the same nick is known on several hubs the program has to guess which    *)
(* hub the connection came from.  The map therefore lets at most one        *)
(* request per nick be outstanding: a further request is parked as          *)
(* "waiting" and no $ConnectToMe is sent for it until the outstanding one   *)
(* is answered, withdrawn or expired.                                       *)
(*                                                                          *)
(* The map is locked for each of its operations.  What follows an           *)
(* operation, connecting the next parked user, happens after the lock is    *)
(* released; such a call in flight is an element of next[t] for the thread  *)
(* t that makes it.                                                         *)
(***************************************************************************)
EXTENDS Naturals, FiniteSets

CONSTANTS
    Nicks,          \* nicks of remote users
    Hubs,           \* hub URLs
    Tokens,         \* tokens of download connection queue items
    NoToken,        \* the empty token: an upload request
    Timer,          \* the timer thread
    SocketThreads,  \* threads of incoming connections
    MaxId           \* bound on the id counter, for model checking only

ASSUME ThreadsAssumption == Timer \notin SocketThreads
ASSUME TokensAssumption == NoToken \notin Tokens
ASSUME MaxIdAssumption == MaxId \in Nat

Threads == {Timer} \cup SocketThreads
Users == Nicks \X Hubs
Nick(u) == u[1]
Hub(u) == u[2]

VARIABLES
    expected,  \* expectedConnections, a set of Entry
    id,        \* ExpectedNmdcMap::id
    next,      \* next[t]: NextConnectionInfo values thread t still has to act on
    token,     \* token[u]: token of u's download item, NoToken if it has none
    state,     \* state[u]: state of u's download item
    online,    \* users that are online in their hub
    ctm,       \* users with an unanswered $ConnectToMe
    lapsed     \* history: nicks whose outstanding request was withdrawn or expired
               \* while a $ConnectToMe to that nick was unanswered

vars == <<expected, id, next, token, state, online, ctm, lapsed>>

\* expires: uploads live 45 s, downloads until UINT64_MAX.  Only whether the
\* time has passed matters, so an upload's entry is "fresh" and then "passed".
Entry == [nick : Nicks, hub : Hubs, token : Tokens \cup {NoToken}, id : Nat,
          expires : {"fresh", "passed", "never"}, waiting : BOOLEAN]

NextInfo == [nick : Nicks, hub : Hubs, token : Tokens \cup {NoToken}]

ItemStates == {"NONE", "WAITING", "NO_DOWNLOAD_SLOTS", "CONNECTING", "ACTIVE"}

IsDownload(tok) == tok # NoToken
EntriesOf(E, n) == {e \in E : e.nick = n}
Outstanding(E, n) == {e \in EntriesOf(E, n) : ~e.waiting}
Parked(E, n) == {e \in EntriesOf(E, n) : e.waiting}

\* The waiting entry of nick n with the smallest id, as a set of at most one
\* NextConnectionInfo.
NextOf(E, n) ==
    {[nick |-> e.nick, hub |-> e.hub, token |-> e.token] :
        e \in {x \in Parked(E, n) : \A y \in Parked(E, n) : x.id <= y.id}}

TypeOK ==
    /\ expected \subseteq Entry
    /\ id \in Nat
    /\ next \in [Threads -> SUBSET NextInfo]
    /\ token \in [Users -> Tokens \cup {NoToken}]
    /\ state \in [Users -> ItemStates]
    /\ online \subseteq Users
    /\ ctm \subseteq Users
    /\ lapsed \subseteq Nicks

Init ==
    /\ expected = {}
    /\ id = 0
    /\ next = [t \in Threads |-> {}]
    /\ token = [u \in Users |-> NoToken]
    /\ state = [u \in Users |-> "NONE"]
    /\ online \in SUBSET Users
    /\ ctm = {}
    /\ lapsed = {}

-----------------------------------------------------------------------------
\* A request is found again by its token instead of its kind.
SameByToken(u, tok) == {e \in EntriesOf(expected, Nick(u)) : e.hub = Hub(u) /\ e.token = tok}

\* ExpectedNmdcMap::add, and the $ConnectToMe that NmdcHub::connectToMe sends
\* when add returns TRUE.
Same(u, tok) == {e \in EntriesOf(expected, Nick(u)) :
                    e.hub = Hub(u) /\ IsDownload(e.token) = IsDownload(tok)}

\* A new request is never parked.
InsertOutstanding(u, tok, result) ==
    /\ id < MaxId
    /\ id' = id + 1
    /\ expected' = expected \cup
         {[nick |-> Nick(u), hub |-> Hub(u), token |-> tok, id |-> id + 1,
           expires |-> IF IsDownload(tok) THEN "never" ELSE "fresh",
           waiting |-> FALSE]}

\* The id counter does not advance for a parked request.
InsertSameId(u, tok, result) ==
    /\ id < MaxId
    /\ id' = IF result THEN id + 1 ELSE id
    /\ expected' = expected \cup
         {[nick |-> Nick(u), hub |-> Hub(u), token |-> tok, id |-> id',
           expires |-> IF IsDownload(tok) THEN "never" ELSE "fresh",
           waiting |-> ~result]}

\* The expiry of a download request is left unset.
InsertWithoutExpiry(u, tok, result) ==
    /\ id < MaxId
    /\ id' = id + 1
    /\ expected' = expected \cup
         {[nick |-> Nick(u), hub |-> Hub(u), token |-> tok, id |-> id + 1,
           expires |-> IF IsDownload(tok) THEN "unset" ELSE "fresh",
           waiting |-> ~result]}

Insert(u, tok, result) ==
    /\ id < MaxId
    /\ id' = id + 1
    /\ expected' = expected \cup
         {[nick |-> Nick(u), hub |-> Hub(u), token |-> tok, id |-> id + 1,
           expires |-> IF IsDownload(tok) THEN "never" ELSE "fresh",
           waiting |-> ~result]}

Promote(e, tok) ==
    /\ expected' = (expected \ {e}) \cup
         {[e EXCEPT !.waiting = FALSE, !.token = tok,
                    !.expires = IF IsDownload(tok) THEN "never" ELSE "fresh"]}
    /\ UNCHANGED id

\* The $ConnectToMe is sent although add returned FALSE.
ExpectUnasked(u, tok) ==
    LET result == Outstanding(expected, Nick(u)) = {}
    IN  /\ \/ Same(u, tok) = {} /\ Insert(u, tok, result)
           \/ result /\ \E e \in Same(u, tok) : Promote(e, tok)
           \/ ~result /\ Same(u, tok) # {} /\ UNCHANGED <<expected, id>>
        /\ ctm' = ctm \cup {u}

Expect(u, tok) ==
    LET result == Outstanding(expected, Nick(u)) = {}
    IN  /\ \/ Same(u, tok) = {} /\ Insert(u, tok, result)
           \/ result /\ \E e \in Same(u, tok) : Promote(e, tok)
           \/ ~result /\ Same(u, tok) # {} /\ UNCHANGED <<expected, id>>
        /\ ctm' = IF result THEN ctm \cup {u} ELSE ctm

\* NmdcHub::connectToMe, which returns early when the hub is not ready, the
\* external address is unknown or nothing listens.
ConnectToMe(u, tok) == Expect(u, tok) \/ UNCHANGED <<expected, id, ctm>>

-----------------------------------------------------------------------------
\* ConnectionManager::getDownloadConnection: a new item with a fresh token.
GetDownloadConnection(u) ==
    /\ state[u] = "NONE"
    /\ \E t \in Tokens :
          /\ \A v \in Users : token[v] # t
          /\ \A e \in expected : e.token # t
          /\ \A th \in Threads : \A n \in next[th] : n.token # t
          /\ token' = [token EXCEPT ![u] = t]
    /\ state' = [state EXCEPT ![u] = "WAITING"]
    /\ UNCHANGED <<expected, id, next, online, ctm, lapsed>>

\* The timer finds all download slots taken, or free again.
CheckSlots(u) ==
    /\ next[Timer] = {}
    /\ \/ state[u] = "WAITING" /\ state' = [state EXCEPT ![u] = "NO_DOWNLOAD_SLOTS"]
       \/ state[u] = "NO_DOWNLOAD_SLOTS" /\ state' = [state EXCEPT ![u] = "WAITING"]
    /\ UNCHANGED <<expected, id, next, token, online, ctm, lapsed>>

\* The timer connects a waiting download item of an online user.
ConnectDownload(u) ==
    /\ next[Timer] = {}
    /\ state[u] = "WAITING" /\ u \in online
    /\ state' = [state EXCEPT ![u] = "CONNECTING"]
    /\ ConnectToMe(u, token[u])
    /\ UNCHANGED <<next, token, online, lapsed>>

\* $RevConnectToMe from a user of the hub asks to download from this program.
RevConnectToMe(u) ==
    /\ u \in online
    /\ ConnectToMe(u, NoToken)
    /\ UNCHANGED <<next, token, state, online, lapsed>>

\* The outstanding requests of the entries in E go although the users that were
\* asked may still answer.
Lapse(E) ==
    lapsed' = lapsed \cup {n \in Nicks : /\ \E e \in E : e.nick = n /\ ~e.waiting
                                        /\ \E u \in ctm : Nick(u) = n}

\* A $ConnectToMe to u is answered, or never will be.  A user is asked again
\* while it has not answered only after a request lapsed; then another answer may
\* be still to come.
Settle(u) ==
    /\ \/ ctm' = ctm \ {u}
       \/ Nick(u) \in lapsed /\ ctm' = ctm
    /\ lapsed' = {n \in lapsed : \E v \in ctm' : Nick(v) = n}

\* The withdrawal of a request does not look for a parked one.
RemoveTokenOnly(tok) ==
    \/ \E e \in expected :
          /\ e.token = tok
          /\ expected' = expected \ {e}
          /\ Lapse({e})
          /\ UNCHANGED next
    \/ /\ \A e \in expected : e.token # tok
       /\ UNCHANGED <<expected, next, lapsed>>

\* ExpectedNmdcMap::removeToken within removeExpectedToken, by the timer.
RemoveToken(tok) ==
    \/ \E e \in expected :
          /\ e.token = tok
          /\ expected' = expected \ {e}
          /\ next' = [next EXCEPT ![Timer] = NextOf(expected', e.nick)]
          /\ Lapse({e})
    \/ /\ \A e \in expected : e.token # tok
       /\ UNCHANGED <<expected, next, lapsed>>

\* The timer gives up on a connection attempt after CONNECTION_TIMEOUT.
ConnectionTimeout(u) ==
    /\ next[Timer] = {}
    /\ state[u] = "CONNECTING"
    /\ state' = [state EXCEPT ![u] = "WAITING"]
    /\ RemoveToken(token[u])
    /\ UNCHANGED <<id, token, online, ctm>>

\* The timer drops the item of an offline user or of one with nothing queued.
\* It chose the item under the lock when the item was not ACTIVE, and removes it
\* after the lock is released; by then a connection may have made it ACTIVE.
RemoveItem(u) ==
    /\ next[Timer] = {}
    /\ state[u] # "NONE"
    /\ RemoveToken(token[u])
    /\ token' = [token EXCEPT ![u] = NoToken]
    /\ state' = [state EXCEPT ![u] = "NONE"]
    /\ UNCHANGED <<id, online, ctm>>

\* The tick at which an upload request expires goes by.
TimePasses ==
    /\ \E e \in expected :
          /\ e.expires = "fresh"
          /\ expected' = (expected \ {e}) \cup {[e EXCEPT !.expires = "passed"]}
    /\ UNCHANGED <<id, next, token, state, online, ctm, lapsed>>

\* ExpectedNmdcMap::removeExpired, every 60 seconds.
RemoveExpired ==
    /\ next[Timer] = {}
    /\ LET gone == {e \in expected : e.expires = "passed"}
           nicks == {e.nick : e \in {x \in gone : ~x.waiting}}
       IN  /\ gone # {}
           /\ expected' = expected \ gone
           /\ next' = [next EXCEPT
                         ![Timer] = UNION {NextOf(expected \ gone, n) : n \in nicks}]
           /\ Lapse(gone)
    /\ UNCHANGED <<id, token, state, online, ctm>>

\* The answer to the $ConnectToMe sent to u arrives: processMyNick on a
\* socket thread removes the outstanding entry of the nick, whatever hub it
\* is for, and takes the connection to come from that hub.
ProcessMyNick(t, u) ==
    /\ u \in ctm
    /\ next[t] = {}
    /\ Settle(u)
    /\ \/ \E e \in Outstanding(expected, Nick(u)) :
             /\ expected' = expected \ {e}
             /\ next' = [next EXCEPT ![t] = NextOf(expected, Nick(u))]
       \/ /\ Outstanding(expected, Nick(u)) = {}
          /\ UNCHANGED <<expected, next>>
    /\ UNCHANGED <<id, token, state, online>>

\* A connection with u, this one or one that this program opened, is through
\* with its introduction and takes u's download item.
AddDownloadConnection(u) ==
    /\ state[u] \in {"WAITING", "CONNECTING"}
    /\ state' = [state EXCEPT ![u] = "ACTIVE"]
    /\ UNCHANGED <<expected, id, next, token, online, ctm, lapsed>>

\* connectNextNmdcUser: the user is looked up again; the hub may refuse.
ConnectNextNmdcUser(t) ==
    \E n \in next[t] :
       LET u == <<n.nick, n.hub>> IN
       /\ next' = [next EXCEPT ![t] = @ \ {n}]
       /\ \/ u \in online /\ ConnectToMe(u, n.token)
          \/ u \notin online /\ UNCHANGED <<expected, id, ctm>>
       /\ UNCHANGED <<token, state, online, lapsed>>

\* The download connection of u ends and its item waits for another attempt.
ConnectionFailed(u) ==
    /\ state[u] = "ACTIVE"
    /\ state' = [state EXCEPT ![u] = "WAITING"]
    /\ UNCHANGED <<expected, id, next, token, online, ctm, lapsed>>

\* The remote user never reacts to the request.
LoseConnectToMe(u) ==
    /\ u \in ctm
    /\ Settle(u)
    /\ UNCHANGED <<expected, id, next, token, state, online>>

UserOnOff(u) ==
    /\ online' = IF u \in online THEN online \ {u} ELSE online \cup {u}
    /\ UNCHANGED <<expected, id, next, token, state, ctm, lapsed>>

TimerStep ==
    \/ \E u \in Users : CheckSlots(u) \/ ConnectDownload(u) \/ ConnectionTimeout(u) \/ RemoveItem(u)
    \/ RemoveExpired

Next ==
    \/ TimerStep
    \/ \E u \in Users : GetDownloadConnection(u) \/ RevConnectToMe(u)
    \/ \E t \in SocketThreads, u \in Users : ProcessMyNick(t, u)
    \/ \E t \in Threads : ConnectNextNmdcUser(t)
    \/ \E u \in Users : AddDownloadConnection(u) \/ ConnectionFailed(u)
    \/ \E u \in Users : LoseConnectToMe(u) \/ UserOnOff(u)
    \/ TimePasses

Spec == Init /\ [][Next]_vars

-----------------------------------------------------------------------------
\* At most one request per nick is outstanding, whatever the order in which
\* hub, timer and socket threads add, answer, withdraw and expire requests:
\* what lets processMyNick tell which hub an incoming nick belongs to.
OneOutstanding ==
    \A n \in Nicks : \A e, f \in Outstanding(expected, n) : e = f

\* A user has at most one upload and one download request in the map, although
\* add is retried by the timer, by the hub and by connectNextNmdcUser.
OneEntryPerKind ==
    \A e, f \in expected :
       (e.nick = f.nick /\ e.hub = f.hub
          /\ IsDownload(e.token) = IsDownload(f.token)) => e = f

\* An incoming connection is attributed to the hub whose $ConnectToMe it
\* answers: every unanswered $ConnectToMe belongs to the outstanding entry of its
\* nick.  Withdrawals and expiries can break this only for a nick that is asked
\* and has not answered, and only until all who were asked have.
AttributedToItsHub ==
    \A u \in ctm : Nick(u) \notin lapsed
                     => \E e \in Outstanding(expected, Nick(u)) : e.hub = Hub(u)

HandOver ==
    \A n \in Nicks :
       (Outstanding(expected, n) # {} /\ Outstanding(expected', n) = {})
          => \E t \in Threads : NextOf(expected', n) \subseteq next'[t]

\* The step that takes away the last outstanding request of a nick (an answer,
\* a withdrawal or an expiry) leaves its thread with the oldest parked request
\* of that nick to connect next.
HandsOver == [][HandOver]_vars

\* Ids are given in the order of arrival and never twice, so that the oldest
\* parked request is well defined.
IdsInOrder ==
    /\ \A e \in expected : e.id \in 1 .. id
    /\ \A e, f \in expected : e.id = f.id => e = f
=============================================================================
