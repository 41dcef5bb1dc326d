-------------------------- MODULE PeerRolesProofs --------------------------
(***************************************************************************)
(* The ends of a connection agree on who downloads, whatever numbers they   *)
(* have drawn and however the messages of the two are interleaved; and what *)
(* is on the wire is well formed.                                           *)
(***************************************************************************)
EXTENDS PeerSessionProofs

Elems(s) == {s[i] : i \in DOMAIN s}

\* What is on its way to p.
In(p) == Elems(wire[p])

Types == {"MyNick", "Lock", "Key", "Error", "SUP", "INF", "Data", "MaxedOut", "NotAvailable", "GET", "SND"}

AllMessages ==
    (Types \X (Downloads \cup {NoDownload}))
       \cup ({"Direction"} \X {"none", "download", "upload"} \X Int)

WireOK == wire \in [Peers -> Seq(AllMessages)]

\* The end has not sent its $Direction yet.
Young == {"CONNECT", "SUPNICK", "LOCK"}

\* The end has settled what it does (NMDC).
Decided(e) == e.st = "KEY" \/ e.assoc

\* What an end that wants mine and has number n does when the other one wants
\* theirs and has number k.
Verdict(mine, n, theirs, k) ==
    IF theirs = "upload" THEN IF mine = "upload" THEN "none" ELSE "download"
    ELSE IF mine = "upload" \/ n < k THEN "upload"
    ELSE IF n = k THEN "none"
    ELSE "download"

\* The protocols do not mix, and with ADC only the asker downloads.
Separate(p) ==
    /\ proto = "ADC" => /\ end[p].st \notin {"LOCK", "DIRECTION", "KEY"}
                        /\ end[p].dir = "download" => p = asker
                        /\ \A m \in In(p) : m[1] # "MyNick"
    /\ proto = "NMDC" => /\ end[p].st # "INF"
                         /\ \A m \in In(p) : m[1] # "SUP"
    /\ end[p].assoc => end[p].st \notin Young \cup {"DIRECTION"}

\* A $Direction m from p says what p wants; if p has settled already, it went by
\* what the other end still wants.
Truthful(p, m) ==
    m[1] = "Direction" =>
       /\ end[p].st \notin Young
       /\ end[p].st = "DIRECTION" => m[2] = end[p].dir /\ m[3] = end[p].number
       /\ Decided(end[p]) /\ end[Other(p)].st = "DIRECTION"
            => end[p].dir = Verdict(m[2], m[3], end[Other(p)].dir, end[Other(p)].number)

\* An end that has settled has heard from the other one, and is opposed to it.
Opposed(p) ==
    Decided(end[p]) => /\ end[Other(p)].st \notin Young
                       /\ Decided(end[Other(p)]) => end[p].dir # end[Other(p)].dir

RolesInv ==
    /\ proto \in {"NMDC", "ADC"}
    /\ WireOK
    /\ \A p \in Peers : Separate(p)
    /\ proto = "NMDC" => \A p \in Peers : /\ Opposed(p)
                                          /\ \A m \in In(Other(p)) : Truthful(p, m)

-----------------------------------------------------------------------------
\* Facts about sequences.
LEMMA TailElems ==
    ASSUME NEW S, NEW s \in Seq(S), s # <<>>
    PROVE  Tail(s) \in Seq(S) /\ Elems(Tail(s)) \subseteq Elems(s) /\ Head(s) \in Elems(s) /\ Head(s) \in S
<1>1. Len(s) \in Nat /\ Len(s) > 0 /\ DOMAIN s = 1 .. Len(s)
  OBVIOUS
<1>2. Len(Tail(s)) = Len(s) - 1 /\ DOMAIN Tail(s) = 1 .. (Len(s) - 1) /\ Tail(s) \in Seq(S)
  BY <1>1
<1>3. \A i \in 1 .. (Len(s) - 1) : Tail(s)[i] = s[i + 1] /\ i + 1 \in 1 .. Len(s)
  BY <1>1
<1>4. Head(s) = s[1] /\ 1 \in 1 .. Len(s)
  BY <1>1
<1> QED BY <1>1, <1>2, <1>3, <1>4 DEF Elems

\* A concatenation holds what its parts hold.
LEMMA ConcatElems ==
    ASSUME NEW S, NEW s \in Seq(S), NEW t \in Seq(S)
    PROVE  s \o t \in Seq(S) /\ Elems(s \o t) \subseteq Elems(s) \cup Elems(t)
<1>1. s \o t \in Seq(S) /\ DOMAIN (s \o t) = 1 .. (Len(s) + Len(t))
  OBVIOUS
<1>2. ASSUME NEW i \in 1 .. (Len(s) + Len(t))
      PROVE  \/ i \in 1 .. Len(s) /\ (s \o t)[i] = s[i]
             \/ i - Len(s) \in 1 .. Len(t) /\ (s \o t)[i] = t[i - Len(s)]
  OBVIOUS
<1> QED BY <1>1, <1>2 DEF Elems

\* A prefix holds nothing new.
LEMMA PrefixElems ==
    ASSUME NEW S, NEW s \in Seq(S), NEW k \in 0 .. Len(s)
    PROVE  SubSeq(s, 1, k) \in Seq(S) /\ Elems(SubSeq(s, 1, k)) \subseteq Elems(s)
<1>1. /\ SubSeq(s, 1, k) \in Seq(S) /\ DOMAIN SubSeq(s, 1, k) = 1 .. k
      /\ \A i \in 1 .. k : SubSeq(s, 1, k)[i] = s[i]
  OBVIOUS
<1>2. 1 .. k \subseteq DOMAIN s
  OBVIOUS
<1> QED BY <1>1, <1>2 DEF Elems

\* Append adds one element.
LEMMA AppendElems ==
    ASSUME NEW S, NEW s \in Seq(S), NEW m \in S
    PROVE  Append(s, m) \in Seq(S) /\ Elems(Append(s, m)) \subseteq Elems(s) \cup {m}
<1>1. Append(s, m) \in Seq(S) /\ DOMAIN Append(s, m) = 1 .. (Len(s) + 1)
  OBVIOUS
<1>2. \A i \in 1 .. (Len(s) + 1) : \/ i \in 1 .. Len(s) /\ Append(s, m)[i] = s[i]
                                  \/ Append(s, m)[i] = m
  OBVIOUS
<1> QED BY <1>1, <1>2 DEF Elems

\* Sequences of up to two elements.
LEMMA FewElems ==
    ASSUME NEW S, NEW m \in S, NEW n \in S
    PROVE  /\ <<>> \in Seq(S) /\ Elems(<<>>) = {}
           /\ <<m>> \in Seq(S) /\ Elems(<<m>>) = {m}
           /\ <<m, n>> \in Seq(S) /\ Elems(<<m, n>>) = {m, n}
<1>1. <<>> \in Seq(S) /\ DOMAIN <<>> = {}
  OBVIOUS
<1>2. <<m>> \in Seq(S) /\ DOMAIN <<m>> = 1 .. 1 /\ <<m>>[1] = m
  OBVIOUS
<1>3. <<m, n>> \in Seq(S) /\ DOMAIN <<m, n>> = 1 .. 2 /\ <<m, n>>[1] = m /\ <<m, n>>[2] = n
  OBVIOUS
<1>4. 1 .. 1 = {1} /\ 1 .. 2 = {1, 2}
  OBVIOUS
<1> QED BY <1>1, <1>2, <1>3, <1>4 DEF Elems

-----------------------------------------------------------------------------
\* A step of p: its end becomes e, and of what is on its way to the other end only
\* the messages in new are new.
Moves(p, e, new) ==
    /\ end' = [end EXCEPT ![p] = e]
    /\ UNCHANGED config
    /\ WireOK'
    /\ In(p)' \subseteq In(p)
    /\ In(Other(p))' \subseteq In(Other(p)) \cup new

\* There are two ends.
LEMMA OtherPeer ==
    ASSUME NEW p \in Peers
    PROVE  Other(p) \in Peers /\ Other(p) # p /\ Other(Other(p)) = p /\ Peers = {p, Other(p)}
BY DEF Peers, Other

\* Messages that say nothing about the roles.
Mute(M) == \A m \in M : m[1] \notin {"MyNick", "SUP", "Direction"}

\* A change of p's end to e that does not touch its role.
Dull(p, e) ==
    /\ e.assoc => e.st \notin Young \cup {"DIRECTION"}
    /\ e.st \in Young \cup {"DIRECTION"}
         => e.st = end[p].st /\ e.dir = end[p].dir /\ e.number = end[p].number
    /\ e.st \in {"KEY", "INF"} => e.st = end[p].st
    /\ proto = "NMDC" /\ Decided(e) => Decided(end[p]) /\ e.dir = end[p].dir
    /\ proto = "ADC" /\ e.dir = "download" => end[p].dir = "download" \/ p = asker

-----------------------------------------------------------------------------
\* The states after the introduction.
Late == {"GET", "SND", "IDLE", "TRY_AGAIN", "RUNNING", "UNCONNECTED", "UNUSED"}

\* p's end keeps its role and its place in the introduction, or has left that behind.
Sober(p, e) ==
    /\ e.assoc = end[p].assoc /\ e.dir = end[p].dir
    /\ (e.st = end[p].st /\ e.number = end[p].number) \/ e.st \in Late

\* Messages that need not be looked into.
LEMMA PlainMessages ==
    \A type \in Types, d \in Downloads \cup {NoDownload} :
       <<type, d>> \in AllMessages
<1> SUFFICES ASSUME NEW type \in Types, NEW d \in Downloads \cup {NoDownload}
             PROVE  <<type, d>> \in Types \X (Downloads \cup {NoDownload})
  BY Zenon DEF AllMessages
<1> QED OBVIOUS

\* Messages without a Download.
LEMMA PlainMsg ==
    /\ \A type \in Types : Msg(type) \in AllMessages
    /\ Mute({Msg("Error")})
<1>1. ASSUME NEW type \in Types PROVE Msg(type) \in AllMessages
  BY PlainMessages DEF Msg
<1>2. Mute({Msg("Error")})
  BY DEF Mute, Msg
<1> QED BY <1>1, <1>2

\* A single message that says nothing about the roles.
LEMMA OneMute ==
    ASSUME NEW m \in AllMessages, Mute({m})
    PROVE  <<m>> \in Seq(AllMessages) /\ Mute(Elems(<<m>>))
<1>1. <<m>> \in Seq(AllMessages) /\ Elems(<<m>>) = {m}
  BY Zenon, FewElems
<1> QED BY Zenon, <1>1

\* No message at all.
LEMMA NoneMute == <<>> \in Seq(AllMessages) /\ Mute(Elems(<<>>))
BY DEF Mute, Elems

-----------------------------------------------------------------------------
(* Messages.                                                                 *)

\* The first message on the wire.
LEMMA FirstMessage ==
    ASSUME WireOK, NEW p \in Peers, NEW type, Receives(p, type)
    PROVE  /\ wire[p] # <<>> /\ Head(wire[p])[1] = type
           /\ Head(wire[p]) \in In(p) /\ Head(wire[p]) \in AllMessages
<1>1. wire[p] # <<>> /\ Head(wire[p])[1] = type /\ wire[p] \in Seq(AllMessages)
  BY DEF Receives, WireOK
<1> QED BY <1>1, TailElems DEF In

\* Messages that are about the roles are sent only by the first four.
MuteMsgs == {Msg("Error"), Msg("INF"), Msg("MaxedOut"), Msg("NotAvailable")}

\* The messages of MuteMsgs say nothing about the roles.
LEMMA MuteMsgsOK ==
    ASSUME NEW m \in MuteMsgs
    PROVE  <<m>> \in Seq(AllMessages) /\ Mute(Elems(<<m>>))
<1>1. m \in AllMessages
  BY PlainMsg DEF Types, MuteMsgs
<1>2. Mute({m})
  BY DEF Mute, MuteMsgs, Msg
<1> QED BY <1>1, <1>2, OneMute

\* Numbers can be compared.
LEMMA NumberInt ==
    ASSUME end \in [Peers -> End], NEW p \in Peers
    PROVE  end[p].number \in Int
<1>1. end[p].number \in Numbers \cup {0}
  BY DEF End
<1>2. Numbers \subseteq Int /\ 0 \in Int
  BY NumbersAssumption
<1> QED BY <1>1, <1>2

-----------------------------------------------------------------------------
\* Nobody wants anything in the beginning.
LEMMA InitRoles == Init => RolesInv
<1> SUFFICES ASSUME Init PROVE RolesInv
  OBVIOUS
<1>1. /\ proto \in {"NMDC", "ADC"}
      /\ \A p \in Peers : /\ end[p].st \in {"SUPNICK", "CONNECT"} /\ ~end[p].assoc
                          /\ end[p].dir = "none"
      /\ wire = [p \in Peers |-> <<>>]
  BY DEF Init
<1>2. WireOK
  BY <1>1, NoneMute DEF WireOK
<1>3. \A p \in Peers : In(p) = {}
  <2>1. \A p \in Peers : wire[p] = <<>>
    BY <1>1
  <2> QED BY <2>1 DEF In, Elems
<1>4. \A p \in Peers : Separate(p)
  BY <1>1, <1>3 DEF Separate
<1>5. \A p \in Peers : Opposed(p)
  BY <1>1 DEF Opposed, Decided
<1>6. \A p \in Peers : In(Other(p)) = {}
  BY <1>3, OtherPeer
<1> QED BY <1>1, <1>2, <1>4, <1>5, <1>6 DEF RolesInv

\* Every step keeps the invariant.
LEMMA NextRoles == EndsOK /\ RolesInv /\ [Next]_vars => RolesInv'
\* The verdicts of two ends that go by each other's wishes are opposed.
<1>VerdictsOpposed.
    ASSUME NEW a, NEW b, NEW n \in Int, NEW k \in Int,
           Verdict(a, n, b, k) # "none", Verdict(b, k, a, n) # "none"
    PROVE  Verdict(a, n, b, k) # Verdict(b, k, a, n)
  BY <1>VerdictsOpposed DEF Verdict

\* A handler moves its end, and what it sends is new on the wire.
<1>BecomeMoves.
    ASSUME WireOK, NEW p \in Peers, NEW e, NEW ms \in Seq(AllMessages), NEW o,
           Become(p, e, ms, o), wire[p] # <<>>
    PROVE  Moves(p, e, Elems(ms))
  <2> USE <1>BecomeMoves
  <2> DEFINE q == Other(p)
  <2>1. q \in Peers /\ q # p /\ Peers = {p, q}
    BY OtherPeer
  <2>2. wire[p] \in Seq(AllMessages) /\ wire[q] \in Seq(AllMessages)
    BY <2>1 DEF WireOK
  <2>3. /\ end' = [end EXCEPT ![p] = e] /\ UNCHANGED config
        /\ wire' = [wire EXCEPT ![p] = Tail(wire[p]), ![q] = Sent(q, ms)]
    BY DEF Become, Acts
  <2>4. Sent(q, ms) \in Seq(AllMessages) /\ Elems(Sent(q, ms)) \subseteq Elems(wire[q]) \cup Elems(ms)
    <3>1. CASE end[q].sock = "closed"
      <4>1. Sent(q, ms) = <<>>
        BY <3>1 DEF Sent
      <4>2. <<>> \in Seq(AllMessages) /\ Elems(<<>>) = {}
        BY DEF Elems
      <4> QED BY <4>1, <4>2
    <3>2. CASE end[q].sock # "closed"
      <4>1. Sent(q, ms) = wire[q] \o ms
        BY <3>2 DEF Sent
      <4> QED BY <2>2, <4>1, ConcatElems
    <3> QED BY <3>1, <3>2
  <2>5. Tail(wire[p]) \in Seq(AllMessages) /\ Elems(Tail(wire[p])) \subseteq Elems(wire[p])
    BY <2>2, TailElems
  <2>6. wire'[p] = Tail(wire[p]) /\ wire'[q] = Sent(q, ms)
    BY <2>1, <2>3 DEF WireOK
  <2>7. WireOK'
    BY ZenonT(40), <2>1, <2>3, <2>4, <2>5 DEF WireOK
  <2> QED BY <2>3, <2>4, <2>5, <2>6, <2>7 DEF Moves, In

\* A step that touches no role, and says nothing about one, keeps the invariant.
<1>DullMoves.
    ASSUME end \in [Peers -> End], RolesInv, NEW p \in Peers, NEW e, NEW M,
           Moves(p, e, M), Dull(p, e), Mute(M)
    PROVE  RolesInv'
  <2> USE <1>DullMoves
  <2> DEFINE q == Other(p)
  <2>1. q \in Peers /\ q # p /\ Other(q) = p /\ Peers = {p, q}
    BY OtherPeer
  <2>2. end'[p] = e /\ end'[q] = end[q] /\ proto' = proto /\ asker' = asker /\ WireOK'
    BY <2>1 DEF Moves, config
  <2>3. In(p)' \subseteq In(p) /\ In(q)' \subseteq In(q) \cup M
    BY DEF Moves
  <2>4. Separate(p) /\ Separate(q)
    BY <2>1 DEF RolesInv
  <2>5. Separate(p)'
    <3>1. proto = "ADC" => e.st \notin {"LOCK", "DIRECTION", "KEY"} /\ (e.dir = "download" => p = asker)
      BY <2>4 DEF Separate, Dull, Young
    <3>2. proto = "NMDC" => e.st # "INF"
      BY <2>4 DEF Separate, Dull
    <3> QED BY <2>2, <2>3, <2>4, <3>1, <3>2 DEF Separate, Dull
  <2>6. Separate(q)'
    BY <2>2, <2>3, <2>4 DEF Separate, Mute
  <2>7. ASSUME proto = "NMDC"
        PROVE  \A r \in Peers : Opposed(r)' /\ \A m \in In(Other(r))' : Truthful(r, m)'
    <3>0. /\ Opposed(p) /\ Opposed(q) /\ \A m \in In(q) : Truthful(p, m)
          /\ \A m \in In(p) : Truthful(q, m)
      BY <2>1, <2>7 DEF RolesInv
    <3>a. Other(p)' = q /\ Other(q)' = p
      BY <2>1
    <3>1. Opposed(p)'
      BY <2>2, <2>7, <3>0 DEF Opposed, Dull
    <3>2. Opposed(q)'
      <4>1. Decided(end[q]) => end[p].st \notin Young /\ (Decided(end[p]) => end[q].dir # end[p].dir)
        BY <2>1, <3>0 DEF Opposed
      <4>2. Decided(end[q]) => e.st \notin Young /\ (Decided(e) => end[q].dir # e.dir)
        BY <2>7, <4>1 DEF Dull
      <4> QED BY <2>1, <2>2, <4>2 DEF Opposed
    <3>3. ASSUME NEW m \in In(q)' PROVE Truthful(p, m)'
      <4>1. CASE m[1] # "Direction"
        BY <4>1 DEF Truthful
      <4>2. CASE m[1] = "Direction"
        <5>1. Truthful(p, m)
          BY <2>3, <3>0, <4>2 DEF Mute
        <5> QED BY <2>2, <2>7, <5>1 DEF Truthful, Dull
      <4> QED BY <4>1, <4>2
    <3>4. ASSUME NEW m \in In(p)' PROVE Truthful(q, m)'
      <4>1. Truthful(q, m)
        BY <2>3, <3>0
      <4> QED BY <2>1, <2>2, <4>1 DEF Truthful, Dull
    <3> QED BY <2>1, <3>1, <3>2, <3>3, <3>4
  <2> QED BY <2>1, <2>2, <2>5, <2>6, <2>7 DEF RolesInv

\* An end that keeps its role does not touch it.
<1>SoberDull.
    ASSUME RolesInv, NEW p \in Peers, NEW e, Sober(p, e)
    PROVE  Dull(p, e)
  <2> USE <1>SoberDull
  <2>1. Separate(p)
    BY DEF RolesInv
  <2>2. end[p].assoc => end[p].st \notin Young \cup {"DIRECTION"}
    BY <2>1 DEF Separate
  <2>3. e.st \in Late => e.st \notin Young \cup {"DIRECTION", "KEY", "INF"}
    BY DEF Late, Young
  <2> QED BY <2>2, <2>3 DEF Dull, Sober, Decided

\* An end that has settled, or learnt the token, becomes associated.
<1>AssocDull.
    ASSUME RolesInv, NEW p \in Peers, NEW e, NEW d,
           end[p].st = "INF" \/ (end[p].st = "KEY" /\ end[p].dir = d),
           proto = "ADC" /\ d = "download" => p = asker,
           e.assoc, e.dir = d, e.st = end[p].st \/ e.st \in Late
    PROVE  Dull(p, e)
  <2> USE <1>AssocDull
  <2>1. proto = "NMDC" => end[p].st # "INF"
    BY DEF RolesInv, Separate
  <2> QED BY <2>1 DEF Dull, Decided, Late, Young

\* One more such message.
<1>MuteAppend.
    ASSUME NEW ms \in Seq(AllMessages), Mute(Elems(ms)), NEW m \in AllMessages, Mute({m})
    PROVE  Append(ms, m) \in Seq(AllMessages) /\ Mute(Elems(Append(ms, m)))
  BY <1>MuteAppend, AppendElems DEF Mute

\* A handler that touches no role.
<1>BecomeDull.
    ASSUME end \in [Peers -> End], RolesInv, NEW p \in Peers, NEW e, NEW o,
           NEW ms \in Seq(AllMessages), Mute(Elems(ms)), Become(p, e, ms, o), wire[p] # <<>>,
           Dull(p, e)
    PROVE  RolesInv'
  <2> USE <1>BecomeDull
  <2>1. Moves(p, e, Elems(ms))
    BY <1>BecomeMoves DEF RolesInv
  <2> QED BY <2>1, <1>DullMoves

\* putConnection touches no role.
<1>PutDull.
    ASSUME end \in [Peers -> End], RolesInv, NEW p \in Peers,
           NEW ms \in Seq(AllMessages), Mute(Elems(ms)), Put(p, ms), wire[p] # <<>>
    PROVE  RolesInv'
  <2> USE <1>PutDull
  <2>1. Sober(p, Unused(end[p]))
    BY DEF Sober, Unused, End, Late
  <2>2. Become(p, Unused(end[p]), ms, out[p])
    BY DEF Put
  <2> QED BY <2>1, <2>2, <1>SoberDull, <1>BecomeDull

\* disconnect touches no role.
<1>DisconnectDull.
    ASSUME end \in [Peers -> End], RolesInv, NEW p \in Peers, NEW e \in End, NEW o,
           NEW ms \in Seq(AllMessages), Mute(Elems(ms)), Disconnect(p, e, ms, o), wire[p] # <<>>,
           Dull(p, e)
    PROVE  RolesInv'
  <2> USE <1>DisconnectDull
  <2>1. PICK s \in {"draining", "stopping"} : Become(p, [e EXCEPT !.sock = s], ms, o)
    BY DEF Disconnect
  <2>2. Dull(p, [e EXCEPT !.sock = s])
    BY DEF Dull, End, Decided
  <2> QED BY <2>1, <2>2, <1>BecomeDull

\* checkDownloads touches no role.
<1>CheckDull.
    ASSUME end \in [Peers -> End], RolesInv, NEW p \in Peers, NEW e \in End, NEW o,
           NEW ms \in Seq(AllMessages), Mute(Elems(ms)), CheckDownloads(p, e, ms, o),
           wire[p] # <<>>,
           \A st \in {"SND", "IDLE"} : Dull(p, [e EXCEPT !.st = st])
    PROVE  RolesInv'
  <2> USE <1>CheckDull
  <2>1. CASE Become(p, [e EXCEPT !.st = "IDLE"], ms, o)
    BY <2>1, <1>BecomeDull
  <2>2. ASSUME NEW d \in Downloads \ o,
               Become(p, [e EXCEPT !.st = "SND", !.dl = d], Append(ms, <<"GET", d>>), o \cup {d})
        PROVE  RolesInv'
    <3>1. <<"GET", d>> \in AllMessages /\ Mute({<<"GET", d>>})
      <4>1. "GET" \in Types /\ d \in Downloads \cup {NoDownload}
        BY DEF Types
      <4> QED BY <4>1, PlainMessages DEF Mute
    <3>2. Append(ms, <<"GET", d>>) \in Seq(AllMessages) /\ Mute(Elems(Append(ms, <<"GET", d>>)))
      BY <3>1, <1>MuteAppend
    <3>3. Dull(p, [e EXCEPT !.st = "SND"])
      OBVIOUS
    <3>4. Dull(p, [e EXCEPT !.st = "SND", !.dl = d])
      BY <3>3 DEF Dull, End, Decided
    <3> QED BY <2>2, <3>2, <3>4, <1>BecomeDull
  <2> QED BY <2>1, <2>2 DEF CheckDownloads

\* addDownloadConnection follows the role that has been settled.
<1>AddDownloadDull.
    ASSUME end \in [Peers -> End], RolesInv, NEW p \in Peers,
           NEW ms \in Seq(AllMessages), Mute(Elems(ms)), AddDownloadConnection(p, ms),
           wire[p] # <<>>,
           end[p].st = "INF" \/ (end[p].st = "KEY" /\ end[p].dir = "download"),
           proto = "ADC" => p = asker
    PROVE  RolesInv'
  <2> USE <1>AddDownloadDull
  <2> DEFINE e == [end[p] EXCEPT !.dir = "download", !.assoc = TRUE]
  <2>1. e \in End /\ e.assoc /\ e.dir = "download" /\ e.st = end[p].st
    BY ZenonT(40) DEF End
  <2>2. Dull(p, e)
    BY <2>1, <1>AssocDull
  <2>3. ASSUME NEW st \in {"SND", "IDLE"} PROVE Dull(p, [e EXCEPT !.st = st])
    <3>1. [e EXCEPT !.st = st].assoc /\ [e EXCEPT !.st = st].dir = "download" /\ [e EXCEPT !.st = st].st \in Late
      BY <2>1 DEF End, Late
    <3> QED BY <3>1, <1>AssocDull
  <2>4. Append(ms, Msg("Error")) \in Seq(AllMessages) /\ Mute(Elems(Append(ms, Msg("Error"))))
    <3>1. Msg("Error") \in AllMessages /\ Mute({Msg("Error")})
      BY PlainMsg DEF Types
    <3> QED BY <3>1, <1>MuteAppend
  <2>5. \/ Put(p, ms) \/ Disconnect(p, e, ms, out[p])
        \/ Disconnect(p, e, Append(ms, Msg("Error")), out[p]) \/ CheckDownloads(p, e, ms, out[p])
    BY DEF AddDownloadConnection
  <2> HIDE DEF e
  <2> QED BY <2>1, <2>2, <2>3, <2>4, <2>5, <1>PutDull, <1>DisconnectDull, <1>CheckDull

\* addUploadConnection follows the role that has been settled.
<1>AddUploadDull.
    ASSUME end \in [Peers -> End], RolesInv, NEW p \in Peers,
           NEW ms \in Seq(AllMessages), Mute(Elems(ms)), AddUploadConnection(p, ms),
           wire[p] # <<>>,
           end[p].st = "INF" \/ (end[p].st = "KEY" /\ end[p].dir = "upload")
    PROVE  RolesInv'
  <2> USE <1>AddUploadDull
  <2> DEFINE e == [end[p] EXCEPT !.dir = "upload", !.assoc = TRUE]
  <2>1. /\ e \in End /\ e.assoc /\ e.dir = "upload" /\ e.st = end[p].st
        /\ [e EXCEPT !.st = "GET"].assoc /\ [e EXCEPT !.st = "GET"].dir = "upload"
        /\ [e EXCEPT !.st = "GET"].st \in Late
    <3>1. end[p] \in End
      BY Zenon
    <3>a. e \in End
      BY <3>1 DEF End
    <3>2. e \in End /\ e.assoc /\ e.dir = "upload" /\ e.st = end[p].st
      BY <3>1, <3>a DEF End
    <3> HIDE DEF e
    <3>3. /\ [e EXCEPT !.st = "GET"].assoc /\ [e EXCEPT !.st = "GET"].dir = "upload"
          /\ [e EXCEPT !.st = "GET"].st = "GET"
      BY <3>2, SMTT(30) DEF End
    <3> QED BY <3>2, <3>3 DEF Late
  <2>2. Dull(p, e) /\ Dull(p, [e EXCEPT !.st = "GET"])
    BY ZenonT(40), <2>1, <1>AssocDull
  <2>4. Append(ms, Msg("Error")) \in Seq(AllMessages) /\ Mute(Elems(Append(ms, Msg("Error"))))
    <3>1. Msg("Error") \in AllMessages /\ Mute({Msg("Error")})
      BY PlainMsg DEF Types
    <3> QED BY <3>1, <1>MuteAppend
  <2>5. \/ Put(p, ms) \/ Become(p, e, Append(ms, Msg("Error")), out[p])
        \/ Become(p, [e EXCEPT !.st = "GET"], ms, out[p])
    BY DEF AddUploadConnection
  <2> HIDE DEF e
  <2> QED BY <2>1, <2>2, <2>4, <2>5, <1>PutDull, <1>BecomeDull

\* --- The introduction.

\* A step before the $Direction is sent.
<1>YoungMoves.
    ASSUME end \in [Peers -> End], RolesInv, NEW p \in Peers, NEW e, NEW M, Moves(p, e, M),
           end[p].st \in Young, e.st \in Young, ~e.assoc,
           proto = "ADC" => e.st # "LOCK" /\ e.dir = end[p].dir,
           \A m \in M : m[1] # "Direction" /\ m[1] # (IF proto = "ADC" THEN "MyNick" ELSE "SUP")
    PROVE  RolesInv'
  <2> USE <1>YoungMoves
  <2> DEFINE q == Other(p)
  <2>1. q \in Peers /\ q # p /\ Other(q) = p /\ Peers = {p, q}
    BY OtherPeer
  <2>2. end'[p] = e /\ end'[q] = end[q] /\ proto' = proto /\ asker' = asker /\ WireOK'
    BY <2>1 DEF Moves, config
  <2>3. In(p)' \subseteq In(p) /\ In(q)' \subseteq In(q) \cup M
    BY DEF Moves
  <2>4. Separate(p) /\ Separate(q) /\ proto \in {"NMDC", "ADC"}
    BY <2>1 DEF RolesInv
  <2>5. Separate(p)'
    BY <2>2, <2>3, <2>4 DEF Separate, Young
  <2>6. Separate(q)'
    BY <2>2, <2>3, <2>4 DEF Separate
  <2>7. ASSUME proto = "NMDC"
        PROVE  \A r \in Peers : Opposed(r)' /\ \A m \in In(Other(r))' : Truthful(r, m)'
    <3>0. /\ Opposed(q) /\ \A m \in In(q) : Truthful(p, m)
          /\ \A m \in In(p) : Truthful(q, m)
      BY <2>1, <2>7 DEF RolesInv
    <3>1. Opposed(p)'
      BY <2>2 DEF Opposed, Decided, Young
    <3>2. Opposed(q)'
      BY <2>1, <2>2, <3>0 DEF Opposed
    <3>3. ASSUME NEW m \in In(q)' PROVE Truthful(p, m)'
      <4>1. m[1] # "Direction"
        BY <2>3, <3>0 DEF Truthful
      <4> QED BY <4>1 DEF Truthful
    <3>4. ASSUME NEW m \in In(p)' PROVE Truthful(q, m)'
      <4>1. Truthful(q, m) /\ e.st # "DIRECTION"
        BY <2>3, <3>0 DEF Young
      <4> QED BY <2>1, <2>2, <4>1 DEF Truthful
    <3> QED BY <2>1, <3>1, <3>2, <3>3, <3>4
  <2> QED BY <2>1, <2>2, <2>4, <2>5, <2>6, <2>7 DEF RolesInv

\* The $Direction is sent; the other end cannot have settled yet.
<1>DirectionMoves.
    ASSUME end \in [Peers -> End], RolesInv, NEW p \in Peers, NEW e, NEW M, Moves(p, e, M),
           end[p].st = "LOCK", e.st = "DIRECTION", ~e.assoc,
           \A m \in M : \/ m[1] = "Key"
                        \/ m[1] = "Direction" /\ m[2] = e.dir /\ m[3] = e.number
    PROVE  RolesInv'
  <2> USE <1>DirectionMoves
  <2> DEFINE q == Other(p)
  <2>1. q \in Peers /\ q # p /\ Other(q) = p /\ Peers = {p, q}
    BY OtherPeer
  <2>2. end'[p] = e /\ end'[q] = end[q] /\ proto' = proto /\ asker' = asker /\ WireOK'
    BY <2>1 DEF Moves, config
  <2>3. In(p)' \subseteq In(p) /\ In(q)' \subseteq In(q) \cup M
    BY DEF Moves
  <2>4. Separate(p) /\ Separate(q) /\ proto = "NMDC"
    BY <2>1 DEF RolesInv, Separate
  <2>5. Separate(p)'
    BY <2>2, <2>3, <2>4 DEF Separate
  <2>6. Separate(q)'
    BY <2>2, <2>3, <2>4 DEF Separate
  <2>7. /\ Opposed(q) /\ \A m \in In(q) : Truthful(p, m)
        /\ \A m \in In(p) : Truthful(q, m)
    BY <2>1, <2>4 DEF RolesInv
  <2>8. ~Decided(end[q]) /\ ~Decided(e)
    BY <2>1, <2>7 DEF Opposed, Decided, Young
  <2>9. Opposed(p)' /\ Opposed(q)'
    BY <2>1, <2>2, <2>8 DEF Opposed
  <2>10. ASSUME NEW m \in In(q)' PROVE Truthful(p, m)'
    <3>1. m[1] = "Direction" => m[2] = e.dir /\ m[3] = e.number
      BY <2>3, <2>7 DEF Truthful, Young
    <3> QED BY <2>2, <2>8, <3>1 DEF Truthful, Young
  <2>11. ASSUME NEW m \in In(p)' PROVE Truthful(q, m)'
    <3>1. Truthful(q, m)
      BY <2>3, <2>7
    <3> QED BY <2>1, <2>2, <2>8, <3>1 DEF Truthful
  <2> QED BY <2>1, <2>2, <2>4, <2>5, <2>6, <2>9, <2>10, <2>11 DEF RolesInv

\* The $Direction of the other end is there.  If that one has settled already, it
\* went by the same wishes and numbers, so that it did not settle on the same role.
<1>SettleMoves.
    ASSUME end \in [Peers -> End], RolesInv, NEW p \in Peers, NEW e, NEW m0 \in In(p),
           Moves(p, e, {}), end[p].st = "DIRECTION", m0[1] = "Direction", m0[3] \in Int,
           e.st = "KEY", ~e.assoc, e.dir # "none",
           end[p].number \in Int,
           e.dir = Verdict(end[p].dir, end[p].number, m0[2], m0[3])
    PROVE  RolesInv'
  <2> USE <1>SettleMoves
  <2> DEFINE q == Other(p)
  <2>1. q \in Peers /\ q # p /\ Other(q) = p /\ Peers = {p, q}
    BY OtherPeer
  <2>2. end'[p] = e /\ end'[q] = end[q] /\ proto' = proto /\ asker' = asker /\ WireOK'
    BY <2>1 DEF Moves, config
  <2>3. In(p)' \subseteq In(p) /\ In(q)' \subseteq In(q)
    BY DEF Moves
  <2>4. Separate(p) /\ Separate(q) /\ proto = "NMDC"
    BY <2>1 DEF RolesInv, Separate
  <2>5. Separate(p)'
    BY <2>2, <2>3, <2>4 DEF Separate
  <2>6. Separate(q)'
    BY <2>2, <2>3, <2>4 DEF Separate
  <2>7. /\ \A m \in In(q) : Truthful(p, m)
        /\ \A m \in In(p) : Truthful(q, m)
    BY <2>1, <2>4 DEF RolesInv
  <2>8. /\ end[q].st \notin Young
        /\ end[q].st = "DIRECTION" => m0[2] = end[q].dir /\ m0[3] = end[q].number
        /\ Decided(end[q]) => end[q].dir = Verdict(m0[2], m0[3], end[p].dir, end[p].number)
    BY <2>1, <2>7 DEF Truthful
  <2>9. Decided(end[q]) => end[q].dir # e.dir
    BY <2>8, <1>VerdictsOpposed
  <2>10. Opposed(p)' /\ Opposed(q)'
    BY <2>1, <2>2, <2>8, <2>9 DEF Opposed, Young
  <2>11. ASSUME NEW m \in In(q)' PROVE Truthful(p, m)'
    <3>1. m[1] = "Direction" => m[2] = end[p].dir /\ m[3] = end[p].number
      BY <2>3, <2>7 DEF Truthful
    <3> QED BY <2>2, <2>8, <3>1 DEF Truthful, Young
  <2>12. ASSUME NEW m \in In(p)' PROVE Truthful(q, m)'
    <3>1. Truthful(q, m)
      BY <2>3, <2>7
    <3> QED BY <2>1, <2>2, <3>1 DEF Truthful
  <2> QED BY <2>1, <2>2, <2>4, <2>5, <2>6, <2>10, <2>11, <2>12 DEF RolesInv

\* With ADC nothing but the token settles the roles.
<1>AdcMoves.
    ASSUME end \in [Peers -> End], RolesInv, NEW p \in Peers, NEW e, NEW M, Moves(p, e, M),
           proto = "ADC", e.st = "INF", e.dir = end[p].dir, \A m \in M : m[1] # "MyNick"
    PROVE  RolesInv'
  <2> USE <1>AdcMoves
  <2> DEFINE q == Other(p)
  <2>1. q \in Peers /\ q # p /\ Other(q) = p /\ Peers = {p, q}
    BY OtherPeer
  <2>2. end'[p] = e /\ end'[q] = end[q] /\ proto' = proto /\ asker' = asker /\ WireOK'
    BY <2>1 DEF Moves, config
  <2>3. In(p)' \subseteq In(p) /\ In(q)' \subseteq In(q) \cup M
    BY DEF Moves
  <2>4. Separate(p) /\ Separate(q)
    BY <2>1 DEF RolesInv
  <2>5. Separate(p)'
    BY <2>2, <2>3, <2>4 DEF Separate, Young
  <2>6. Separate(q)'
    BY <2>2, <2>3, <2>4 DEF Separate
  <2> QED BY <2>1, <2>2, <2>5, <2>6 DEF RolesInv

\* A step that takes no message and sends some.
<1>SendsMoves.
    ASSUME WireOK, NEW p \in Peers, NEW e, NEW ms \in Seq(AllMessages),
           end' = [end EXCEPT ![p] = e], UNCHANGED config,
           wire' = [wire EXCEPT ![Other(p)] = Sent(Other(p), ms)]
    PROVE  Moves(p, e, Elems(ms))
  <2> USE <1>SendsMoves
  <2> DEFINE q == Other(p)
  <2>1. q \in Peers /\ q # p /\ Peers = {p, q}
    BY OtherPeer
  <2>2. wire[p] \in Seq(AllMessages) /\ wire[q] \in Seq(AllMessages)
    BY <2>1 DEF WireOK
  <2>3. Sent(q, ms) \in Seq(AllMessages) /\ Elems(Sent(q, ms)) \subseteq Elems(wire[q]) \cup Elems(ms)
    <3>1. <<>> \in Seq(AllMessages) /\ Elems(<<>>) = {}
      BY DEF Elems
    <3>2. Sent(q, ms) = <<>> \/ Sent(q, ms) = wire[q] \o ms
      BY DEF Sent
    <3>3. wire[q] \o ms \in Seq(AllMessages) /\ Elems(wire[q] \o ms) \subseteq Elems(wire[q]) \cup Elems(ms)
      BY <2>2, ConcatElems
    <3> QED BY <3>1, <3>2, <3>3
  <2>4. wire'[p] = wire[p] /\ wire'[q] = Sent(q, ms)
    BY <2>1 DEF WireOK
  <2>5. WireOK'
    BY <2>1, <2>3 DEF WireOK
  <2> QED BY <2>3, <2>4, <2>5 DEF Moves, In

\* A step that leaves the wire alone.
<1>QuietMoves.
    ASSUME WireOK, NEW p \in Peers, NEW e, end' = [end EXCEPT ![p] = e], UNCHANGED <<config, wire>>
    PROVE  Moves(p, e, {})
  BY <1>QuietMoves DEF Moves, In, WireOK

\* A step that loses messages.
<1>CutMoves.
    ASSUME WireOK, NEW p \in Peers, NEW e, end' = [end EXCEPT ![p] = e], UNCHANGED config,
           NEW k \in 0 .. Len(wire[Other(p)]),
           wire' = [wire EXCEPT ![p] = <<>>, ![Other(p)] = SubSeq(@, 1, k)]
    PROVE  Moves(p, e, {})
  <2> USE <1>CutMoves
  <2> DEFINE q == Other(p)
  <2>1. q \in Peers /\ q # p /\ Peers = {p, q}
    BY OtherPeer
  <2>2. wire[q] \in Seq(AllMessages)
    BY <2>1 DEF WireOK
  <2>3. SubSeq(wire[q], 1, k) \in Seq(AllMessages) /\ Elems(SubSeq(wire[q], 1, k)) \subseteq Elems(wire[q])
    BY <2>2, PrefixElems
  <2>4. <<>> \in Seq(AllMessages) /\ Elems(<<>>) = {}
    BY DEF Elems
  <2>5. wire' = [wire EXCEPT ![p] = <<>>, ![q] = SubSeq(wire[q], 1, k)]
    BY <2>1 DEF WireOK
  <2>6. wire'[p] = <<>> /\ wire'[q] = SubSeq(wire[q], 1, k)
    BY <2>1, <2>5 DEF WireOK
  <2>7. WireOK'
    BY <2>1, <2>3, <2>4, <2>5 DEF WireOK
  <2> QED BY <2>3, <2>4, <2>6, <2>7 DEF Moves, In

\* --- Steps that handle no message.

\* The end of a connection, and of a transfer.
<1>EndRoles.
    ASSUME end \in [Peers -> End], RolesInv, NEW p \in Peers,
           \/ PutConnection(p) \/ OnFailed(p) \/ Drain(p) \/ DisconnectAtOnce(p) \/ Erase(p)
           \/ TransmitDone(p)
    PROVE  RolesInv'
  <2> USE <1>EndRoles
  <2>0. WireOK /\ Mute({})
    BY DEF RolesInv, Mute
  <2>1. CASE PutConnection(p)
    <3>1. Sober(p, Unused(end[p]))
      BY DEF Sober, Unused, End, Late
    <3>2. Moves(p, Unused(end[p]), {})
      BY <2>0, <2>1, <1>QuietMoves DEF PutConnection, Acts
    <3> QED BY <2>0, <3>1, <3>2, <1>SoberDull, <1>DullMoves
  <2>2. CASE OnFailed(p)
    <3>1. PICK k \in 0 .. Len(wire[Other(p)]) :
                 wire' = [wire EXCEPT ![p] = <<>>, ![Other(p)] = SubSeq(@, 1, k)]
      BY <2>2 DEF OnFailed
    <3>2. PICK e \in {[end[p] EXCEPT !.sock = "closed"],
                      [end[p] EXCEPT !.sock = "closed", !.st = "UNCONNECTED", !.failing = TRUE]} :
                 end' = [end EXCEPT ![p] = e] /\ UNCHANGED config
      BY <2>2 DEF OnFailed, Acts
    <3>3. Sober(p, e)
      BY ZenonT(40), <3>2 DEF Sober, End, Late
    <3>4. Moves(p, e, {})
      BY <2>0, <3>1, <3>2, <1>CutMoves
    <3> QED BY <2>0, <3>3, <3>4, <1>SoberDull, <1>DullMoves
  <2>3. CASE Drain(p) \/ DisconnectAtOnce(p)
    <3> DEFINE e == [end[p] EXCEPT !.sock = "stopping"]
    <3>1. end' = [end EXCEPT ![p] = e] /\ UNCHANGED <<config, wire>>
      BY <2>3 DEF Drain, DisconnectAtOnce
    <3>2. Sober(p, e)
      BY DEF Sober, End
    <3>3. Moves(p, e, {})
      BY <2>0, <3>1, <1>QuietMoves
    <3> QED BY <2>0, <3>2, <3>3, <1>SoberDull, <1>DullMoves
  <2>4. CASE Erase(p)
    <3> DEFINE e == [end[p] EXCEPT !.listed = FALSE]
    <3>1. end' = [end EXCEPT ![p] = e] /\ UNCHANGED <<config, wire>>
      BY <2>4 DEF Erase
    <3>2. Sober(p, e)
      BY DEF Sober, End
    <3>3. Moves(p, e, {})
      BY <2>0, <3>1, <1>QuietMoves
    <3> QED BY <2>0, <3>2, <3>3, <1>SoberDull, <1>DullMoves
  <2>5. CASE TransmitDone(p)
    <3> DEFINE e == [end[p] EXCEPT !.st = "GET"]
    <3>1. Msg("Data") \in AllMessages
      BY PlainMsg DEF Types
    <3>2. <<Msg("Data")>> \in Seq(AllMessages) /\ Elems(<<Msg("Data")>>) = {Msg("Data")}
      BY <3>1, FewElems
    <3>3. Mute(Elems(<<Msg("Data")>>))
      BY <3>2 DEF Mute, Msg
    <3>4. Sober(p, e)
      BY DEF Sober, End, Late
    <3>5. Moves(p, e, Elems(<<Msg("Data")>>))
      BY ZenonT(40), <2>0, <2>5, <3>2, <1>SendsMoves DEF TransmitDone, Acts
    <3> QED BY <3>3, <3>4, <3>5, <1>SoberDull, <1>DullMoves
  <2> QED BY <2>1, <2>2, <2>3, <2>4, <2>5

\* The checks of the timer and of the thread that queues something.
<1>CheckerRoles.
    ASSUME EndsOK, RolesInv, NEW p \in Peers, NEW t \in Checkers,
           Look(p, t) \/ GetDownload(p, t) \/ Request(p, t)
    PROVE  RolesInv'
  <2> USE <1>CheckerRoles
  <2>0. WireOK /\ Mute({}) /\ end \in [Peers -> End]
    BY DEF RolesInv, Mute, EndsOK
  <2>1. ASSUME UNCHANGED <<config, end, wire>> PROVE RolesInv'
    <3>1. end' = [end EXCEPT ![p] = end[p]] /\ Sober(p, end[p])
      BY <2>0, <2>1 DEF Sober
    <3>2. Moves(p, end[p], {})
      BY <2>0, <2>1, <3>1, <1>QuietMoves
    <3> QED BY <2>0, <3>1, <3>2, <1>SoberDull, <1>DullMoves
  <2>2. ASSUME NEW d \in Downloads, end' = [end EXCEPT ![p].dl = d], UNCHANGED <<config, wire>>
        PROVE  RolesInv'
    <3> DEFINE e == [end[p] EXCEPT !.dl = d]
    <3>1. end' = [end EXCEPT ![p] = e]
      BY <2>2
    <3>2. Sober(p, e)
      BY <2>0 DEF Sober, End
    <3>3. Moves(p, e, {})
      BY <2>0, <2>2, <3>1, <1>QuietMoves
    <3> QED BY <2>0, <3>2, <3>3, <1>SoberDull, <1>DullMoves
  <2>3. ASSUME NEW st \in {"SND", "IDLE"}, end' = [end EXCEPT ![p].st = st], UNCHANGED <<config, wire>>
        PROVE  RolesInv'
    <3> DEFINE e == [end[p] EXCEPT !.st = st]
    <3>1. end' = [end EXCEPT ![p] = e]
      BY <2>3
    <3>2. Sober(p, e)
      BY <2>0 DEF Sober, End, Late
    <3>3. Moves(p, e, {})
      BY <2>0, <2>3, <3>1, <1>QuietMoves
    <3> QED BY <2>0, <3>2, <3>3, <1>SoberDull, <1>DullMoves
  <2>4. ASSUME end' = [end EXCEPT ![p].st = "SND"], UNCHANGED config,
               wire' = [wire EXCEPT ![Other(p)] = Sent(Other(p), <<<<"GET", check[p][t].dl>>>>)]
        PROVE  RolesInv'
    <3> DEFINE e == [end[p] EXCEPT !.st = "SND"]
               m == <<"GET", check[p][t].dl>>
    <3>1. end' = [end EXCEPT ![p] = e]
      BY <2>4
    <3>2. Sober(p, e)
      BY <2>0 DEF Sober, End, Late
    <3>3. check[p][t].dl \in Downloads \cup {NoDownload}
      BY DEF EndsOK, Places
    <3>4. m \in AllMessages
      BY <3>3, PlainMessages DEF Types
    <3>5. <<m>> \in Seq(AllMessages) /\ Mute(Elems(<<m>>))
      <4>1. Mute({m})
        BY DEF Mute
      <4> QED BY <3>4, <4>1, OneMute
    <3>7. Moves(p, e, Elems(<<m>>))
      BY <2>0, <2>4, <3>1, <3>5, <1>SendsMoves
    <3> QED BY <2>0, <3>2, <3>5, <3>7, <1>SoberDull, <1>DullMoves
  <2>5. CASE Look(p, t)
    BY <2>1, <2>5 DEF Look
  <2>6. CASE GetDownload(p, t)
    BY <2>1, <2>2, <2>6 DEF GetDownload
  <2>7. CASE Request(p, t)
    <3>1. CASE end[p].sock = "closed"
      <4>1. UNCHANGED wire
        BY <2>0, <2>7, <3>1, OtherPeer DEF Request, WireOK
      <4> QED BY <2>3, <2>7, <4>1 DEF Request
    <3>2. CASE end[p].sock # "closed"
      BY <2>3, <2>4, <2>7, <3>2 DEF Request
    <3> QED BY <3>1, <3>2
  <2> QED BY <2>5, <2>6, <2>7

\* --- The handlers.

\* A command that checkState drops.
<1>IgnoreRoles.
    ASSUME end \in [Peers -> End], RolesInv, NEW p \in Peers, Ignore(p), wire[p] # <<>>
    PROVE  RolesInv'
  <2> USE <1>IgnoreRoles
  <2>1. Sober(p, end[p])
    BY DEF Sober
  <2> QED BY ZenonT(40), <2>1, <1>SoberDull, NoneMute, <1>BecomeDull DEF Ignore

\* $MyNick makes an end want something.
<1>MyNickRoles.
    ASSUME end \in [Peers -> End], RolesInv, NEW p \in Peers, ProcessMyNick(p)
    PROVE  RolesInv'
  <2> USE <1>MyNickRoles
  <2>1. wire[p] # <<>> /\ Head(wire[p]) \in In(p) /\ Head(wire[p])[1] = "MyNick" /\ WireOK
    BY FirstMessage DEF ProcessMyNick, RolesInv
  <2>2. proto = "NMDC" /\ Separate(p)
    BY <2>1 DEF RolesInv, Separate
  <2>3. CASE Ignore(p) \/ Put(p, <<>>)
    BY <2>1, <2>3, <1>IgnoreRoles, NoneMute, <1>PutDull
  <2>4. ASSUME NEW d \in {"download", "upload"}, NEW ms \in {<<Msg("MyNick"), Msg("Lock")>>, <<>>},
               end[p].st = "SUPNICK", Become(p, [end[p] EXCEPT !.st = "LOCK", !.dir = d], ms, out[p])
        PROVE  RolesInv'
    <3> DEFINE e == [end[p] EXCEPT !.st = "LOCK", !.dir = d]
    <3>1. e.st = "LOCK" /\ e.assoc = end[p].assoc /\ ~end[p].assoc
      BY <2>2, <2>4 DEF End, Separate, Young
    <3>2. Msg("MyNick") \in AllMessages /\ Msg("Lock") \in AllMessages
      BY PlainMsg DEF Types
    <3>3. ms \in Seq(AllMessages) /\ Elems(ms) \subseteq {Msg("MyNick"), Msg("Lock")}
      <4>1. /\ <<Msg("MyNick"), Msg("Lock")>> \in Seq(AllMessages)
            /\ Elems(<<Msg("MyNick"), Msg("Lock")>>) = {Msg("MyNick"), Msg("Lock")}
        BY ZenonT(40), <3>2, FewElems
      <4>2. <<>> \in Seq(AllMessages) /\ Elems(<<>>) = {}
        BY DEF Elems
      <4> QED BY Zenon, <4>1, <4>2
    <3>4. Moves(p, e, Elems(ms))
      BY <2>1, <2>4, <3>3, <1>BecomeMoves
    <3>5. \A m \in Elems(ms) : m[1] # "Direction" /\ m[1] # "SUP"
      BY <3>3 DEF Msg
    <3>6. end[p].st \in Young /\ e.st \in Young
      BY <2>4, <3>1 DEF Young
    <3> HIDE DEF e
    <3> QED BY <2>2, <3>1, <3>4, <3>5, <3>6, <1>YoungMoves
  <2>5. \/ Ignore(p) \/ Put(p, <<>>)
        \/ /\ end[p].st = "SUPNICK"
           /\ \E d \in {"download", "upload"}, ms \in {<<Msg("MyNick"), Msg("Lock")>>, <<>>} :
                 Become(p, [end[p] EXCEPT !.st = "LOCK", !.dir = d], ms, out[p])
    BY DEF ProcessMyNick
  <2> QED BY <2>3, <2>4, <2>5

\* $Lock makes an end say what it wants.
<1>LockRoles.
    ASSUME end \in [Peers -> End], RolesInv, NEW p \in Peers, ProcessLock(p)
    PROVE  RolesInv'
  <2> USE <1>LockRoles
  <2>1. wire[p] # <<>> /\ WireOK /\ Separate(p)
    BY FirstMessage DEF ProcessLock, RolesInv
  <2>2. CASE end[p].st # "LOCK"
    BY <2>1, <2>2, <1>IgnoreRoles DEF ProcessLock
  <2>3. CASE end[p].st = "LOCK"
    <3> DEFINE e == [end[p] EXCEPT !.st = "DIRECTION"]
               m == <<"Direction", end[p].dir, end[p].number>>
    <3>1. Become(p, e, <<m, Msg("Key")>>, out[p])
      BY <2>3 DEF ProcessLock
    <3>2. /\ e.st = "DIRECTION" /\ e.dir = end[p].dir /\ e.number = end[p].number
          /\ e.assoc = end[p].assoc /\ ~end[p].assoc
      BY <2>1, <2>3 DEF End, Separate, Young
    <3>3. end[p].dir \in {"none", "download", "upload"} /\ end[p].number \in Int
      BY NumberInt DEF End
    <3>4. m \in {"Direction"} \X {"none", "download", "upload"} \X Int
      BY <3>3
    <3>5. m \in AllMessages /\ Msg("Key") \in AllMessages
      BY <3>4, PlainMsg DEF AllMessages, Types
    <3>6. m[1] = "Direction" /\ m[2] = e.dir /\ m[3] = e.number /\ Msg("Key")[1] = "Key"
      BY <3>2 DEF Msg
    <3> HIDE DEF e, m
    <3>7. <<m, Msg("Key")>> \in Seq(AllMessages) /\ Elems(<<m, Msg("Key")>>) = {m, Msg("Key")}
      BY ZenonT(40), <3>5, FewElems
    <3>8. Moves(p, e, Elems(<<m, Msg("Key")>>))
      BY <2>1, <3>1, <3>7, <1>BecomeMoves
    <3>9. Moves(p, e, {m, Msg("Key")})
      BY <3>7, <3>8
    <3> QED BY <2>3, <3>2, <3>6, <3>9, <1>DirectionMoves
  <2> QED BY <2>2, <2>3

\* $Direction settles what an end does.
<1>DirectionRoles.
    ASSUME end \in [Peers -> End], RolesInv, NEW p \in Peers, ProcessDirection(p)
    PROVE  RolesInv'
  <2> USE <1>DirectionRoles
  <2> DEFINE m == Head(wire[p])
             d == Direction(p, m[2], m[3])
  <2>1. wire[p] # <<>> /\ WireOK /\ Separate(p) /\ m \in In(p) /\ m \in AllMessages /\ m[1] = "Direction"
    BY FirstMessage DEF ProcessDirection, RolesInv
  <2>2. CASE end[p].st # "DIRECTION"
    BY <2>1, <2>2, <1>IgnoreRoles DEF ProcessDirection
  <2>3. CASE end[p].st = "DIRECTION" /\ d = "none"
    BY ZenonT(40), <2>1, <2>3, NoneMute, <1>PutDull DEF ProcessDirection
  <2>4. CASE end[p].st = "DIRECTION" /\ d # "none"
    <3> DEFINE e == [end[p] EXCEPT !.number = 0, !.st = "KEY", !.dir = d]
    <3>1. Become(p, e, <<>>, out[p])
      BY <2>4 DEF ProcessDirection
    <3>2. e.st = "KEY" /\ e.dir = d /\ e.assoc = end[p].assoc /\ ~end[p].assoc
      BY <2>1, <2>4 DEF End, Separate
    <3>3. m \in {"Direction"} \X {"none", "download", "upload"} \X Int
      <4>1. \A x \in Types \X (Downloads \cup {NoDownload}) : x[1] # "Direction"
        BY DEF Types
      <4> QED BY <2>1, <4>1 DEF AllMessages
    <3>4. m[3] \in Int
      BY <3>3
    <3>5. end[p].number \in Int
      BY NumberInt
    <3>6. d = Verdict(end[p].dir, end[p].number, m[2], m[3])
      BY DEF Direction, Verdict
    <3>7. <<>> \in Seq(AllMessages) /\ Elems(<<>>) = {}
      BY DEF Elems
    <3> HIDE DEF e, m, d
    <3>8. Moves(p, e, {})
      <4>1. Moves(p, e, Elems(<<>>))
        BY <2>1, <3>1, <3>7, <1>BecomeMoves
      <4> QED BY <3>7, <4>1
    <3> QED BY <2>1, <2>4, <3>2, <3>4, <3>5, <3>6, <3>8, <1>SettleMoves
  <2> QED BY <2>2, <2>3, <2>4

\* The end that opened the connection introduces itself.
<1>ConnectedRoles.
    ASSUME end \in [Peers -> End], RolesInv, OnConnected
    PROVE  RolesInv'
  <2> USE <1>ConnectedRoles
  <2> DEFINE e == [end["out"] EXCEPT !.st = "SUPNICK"]
             ms == IF proto = "NMDC" THEN <<Msg("MyNick"), Msg("Lock")>> ELSE <<Msg("SUP")>>
  <2>1. "out" \in Peers /\ Other("out") = "in" /\ WireOK /\ Separate("out") /\ proto \in {"NMDC", "ADC"}
    BY DEF Peers, Other, RolesInv
  <2>2. Msg("MyNick") \in AllMessages /\ Msg("Lock") \in AllMessages /\ Msg("SUP") \in AllMessages
    BY PlainMsg DEF Types
  <2>3. /\ ms \in Seq(AllMessages)
        /\ Elems(ms) = IF proto = "NMDC" THEN {Msg("MyNick"), Msg("Lock")} ELSE {Msg("SUP")}
    BY ZenonT(40), <2>2, FewElems
  <2>4. \A m \in Elems(ms) : m[1] # "Direction" /\ m[1] # (IF proto = "ADC" THEN "MyNick" ELSE "SUP")
    <3>1. Msg("MyNick")[1] = "MyNick" /\ Msg("Lock")[1] = "Lock" /\ Msg("SUP")[1] = "SUP"
      BY DEF Msg
    <3> HIDE DEF ms
    <3> QED BY <2>1, <2>3, <3>1
  <2>5. end["out"].st = "CONNECT" /\ end["out"] \in End
    BY <2>1 DEF OnConnected
  <2>6. e.st = "SUPNICK" /\ e.dir = end["out"].dir /\ e.assoc = end["out"].assoc /\ ~end["out"].assoc
    BY <2>1, <2>5 DEF End, Separate, Young
  <2>7. end' = [end EXCEPT !["out"] = e] /\ UNCHANGED config /\ wire' = [wire EXCEPT !["in"] = Sent("in", ms)]
    BY DEF OnConnected, Acts
  <2>8. end["out"].st \in Young /\ e.st \in Young /\ e.st # "LOCK"
    BY <2>5, <2>6 DEF Young
  <2> HIDE DEF e, ms
  <2>9. Moves("out", e, Elems(ms))
    BY ZenonT(40), <2>1, <2>3, <2>7, <1>SendsMoves
  <2> QED BY <2>1, <2>4, <2>6, <2>8, <2>9, <1>YoungMoves

\* $Key.
<1>KeyRoles.
    ASSUME end \in [Peers -> End], RolesInv, NEW p \in Peers, ProcessKey(p)
    PROVE  RolesInv'
  <2> USE <1>KeyRoles
  <2>1. wire[p] # <<>> /\ WireOK /\ Separate(p)
    BY FirstMessage DEF ProcessKey, RolesInv
  <2>2. CASE end[p].st # "KEY"
    BY <2>1, <2>2, <1>IgnoreRoles DEF ProcessKey
  <2>3. CASE end[p].st = "KEY"
    <3>1. CASE Become(p, end[p], <<Msg("Error")>>, out[p])
      <4>1. Sober(p, end[p])
        BY DEF Sober
      <4>2. <<Msg("Error")>> \in Seq(AllMessages) /\ Mute(Elems(<<Msg("Error")>>))
        BY MuteMsgsOK DEF MuteMsgs
      <4> QED BY <2>1, <3>1, <4>1, <4>2, <1>SoberDull, <1>BecomeDull
    <3>2. CASE end[p].dir = "download" /\ AddDownloadConnection(p, <<>>)
      <4>1. proto # "ADC"
        BY <2>1, <2>3 DEF Separate
      <4> QED BY <2>1, <2>3, <3>2, <4>1, NoneMute, <1>AddDownloadDull
    <3>3. CASE end[p].dir = "upload" /\ AddUploadConnection(p, <<>>)
      BY <2>1, <2>3, <3>3, NoneMute, <1>AddUploadDull
    <3> QED BY <2>3, <3>1, <3>2, <3>3 DEF ProcessKey
  <2> QED BY <2>2, <2>3

\* SUP.
<1>SupRoles.
    ASSUME end \in [Peers -> End], RolesInv, NEW p \in Peers, ProcessSUP(p)
    PROVE  RolesInv'
  <2> USE <1>SupRoles
  <2>1. wire[p] # <<>> /\ Head(wire[p]) \in In(p) /\ Head(wire[p])[1] = "SUP" /\ WireOK
    BY FirstMessage DEF ProcessSUP, RolesInv
  <2>2. proto = "ADC"
    BY <2>1 DEF RolesInv, Separate
  <2>3. CASE end[p].st # "SUPNICK"
    BY <2>1, <2>3, <1>IgnoreRoles DEF ProcessSUP
  <2>4. CASE end[p].st = "SUPNICK"
    <3> DEFINE e == [end[p] EXCEPT !.st = "INF"]
               m == Msg(IF p = "in" THEN "SUP" ELSE "INF")
    <3>1. Become(p, e, <<m>>, out[p])
      BY <2>4 DEF ProcessSUP
    <3>2. e.st = "INF" /\ e.dir = end[p].dir
      BY DEF End
    <3>3. m \in AllMessages /\ m[1] # "MyNick"
      <4>1. (IF p = "in" THEN "SUP" ELSE "INF") \in Types
        BY DEF Types
      <4>2. m[1] # "MyNick"
        BY DEF Msg
      <4> QED BY <4>1, <4>2, PlainMsg
    <3> HIDE DEF e, m
    <3>4. <<m>> \in Seq(AllMessages) /\ Elems(<<m>>) = {m}
      BY Zenon, <3>3, FewElems
    <3>5. Moves(p, e, Elems(<<m>>))
      BY <2>1, <3>1, <3>4, <1>BecomeMoves
    <3>6. Moves(p, e, {m})
      BY <3>4, <3>5
    <3> QED BY <2>2, <3>2, <3>3, <3>6, <1>AdcMoves
  <2> QED BY <2>3, <2>4

\* INF.
<1>InfRoles.
    ASSUME end \in [Peers -> End], RolesInv, NEW p \in Peers, ProcessINF(p)
    PROVE  RolesInv'
  <2> USE <1>InfRoles
  <2> DEFINE ms == IF p = "in" THEN <<Msg("INF")>> ELSE <<>>
  <2>1. wire[p] # <<>> /\ end[p] \in End
    BY FirstMessage DEF ProcessINF, RolesInv
  <2>2. <<Msg("Error")>> \in Seq(AllMessages) /\ Mute(Elems(<<Msg("Error")>>))
    BY MuteMsgsOK DEF MuteMsgs
  <2>3. <<Msg("INF")>> \in Seq(AllMessages) /\ Mute(Elems(<<Msg("INF")>>))
    BY MuteMsgsOK DEF MuteMsgs
  <2>4. ms \in Seq(AllMessages) /\ Mute(Elems(ms))
    BY Zenon, <2>3, NoneMute
  <2>5. \/ Disconnect(p, end[p], <<Msg("Error")>>, out[p])
        \/ /\ end[p].st = "INF"
           /\ \/ Put(p, <<Msg("Error")>>)
              \/ p = asker /\ AddDownloadConnection(p, ms)
              \/ AddUploadConnection(p, ms)
    BY DEF ProcessINF
  <2>6. Dull(p, end[p])
    BY <1>SoberDull DEF Sober
  <2> HIDE DEF ms
  <2>7. CASE Disconnect(p, end[p], <<Msg("Error")>>, out[p])
    BY <2>1, <2>2, <2>6, <2>7, <1>DisconnectDull
  <2>8. CASE Put(p, <<Msg("Error")>>)
    BY ZenonT(40), <2>1, <2>2, <2>8, <1>PutDull
  <2>9. CASE end[p].st = "INF" /\ p = asker /\ AddDownloadConnection(p, ms)
    BY <2>1, <2>4, <2>9, <1>AddDownloadDull
  <2>10. CASE end[p].st = "INF" /\ AddUploadConnection(p, ms)
    BY <2>1, <2>4, <2>10, <1>AddUploadDull
  <2> QED BY <2>5, <2>7, <2>8, <2>9, <2>10

\* Requests and answers leave the roles alone.
<1>TransferRoles.
    ASSUME end \in [Peers -> End], RolesInv, NEW p \in Peers,
           \/ ProcessGET(p) \/ ProcessSND(p) \/ OnData(p) \/ MaxedOut(p)
           \/ FileNotAvailable(p) \/ ProtocolError(p)
    PROVE  RolesInv'
  <2> USE <1>TransferRoles
  <2>1. WireOK /\ end[p] \in End
    BY DEF RolesInv
  <2>2. wire[p] # <<>>
    BY DEF ProcessGET, ProcessSND, OnData, MaxedOut, FileNotAvailable, ProtocolError, Receives
  <2>3. ASSUME Ignore(p) PROVE RolesInv'
    BY <2>2, <2>3, <1>IgnoreRoles
  <2>4. ASSUME NEW o, Disconnect(p, end[p], <<>>, o) PROVE RolesInv'
    <3>1. Dull(p, end[p])
      BY <1>SoberDull DEF Sober
    <3> QED BY <2>1, <2>2, <2>4, <3>1, NoneMute, <1>DisconnectDull
  <2>5. ASSUME NEW o, CheckDownloads(p, end[p], <<>>, o) PROVE RolesInv'
    <3>1. ASSUME NEW st \in {"SND", "IDLE"} PROVE Dull(p, [end[p] EXCEPT !.st = st])
      <4>1. Sober(p, [end[p] EXCEPT !.st = st])
        BY <2>1 DEF Sober, End, Late
      <4> QED BY <4>1, <1>SoberDull
    <3> QED BY <2>1, <2>2, <2>5, <3>1, NoneMute, <1>CheckDull
  <2>6. ASSUME NEW o, NEW st \in Late, NEW ms \in Seq(AllMessages), Mute(Elems(ms)),
               Become(p, [end[p] EXCEPT !.st = st], ms, o)
        PROVE  RolesInv'
    <3>1. Sober(p, [end[p] EXCEPT !.st = st])
      BY <2>1 DEF Sober, End
    <3> QED BY <2>2, <2>6, <3>1, <1>SoberDull, <1>BecomeDull
  <2>7. CASE ProcessGET(p)
    <3>1. CASE Ignore(p)
      BY <2>3, <3>1
    <3>2. CASE Become(p, [end[p] EXCEPT !.st = "RUNNING"], <<<<"SND", Head(wire[p])[2]>>>>, out[p])
      <4> DEFINE m == <<"SND", Head(wire[p])[2]>>
      <4>1. Head(wire[p]) \in AllMessages /\ Head(wire[p])[1] = "GET"
        BY <2>1, <2>7, FirstMessage DEF ProcessGET
      <4>2. Head(wire[p])[2] \in Downloads \cup {NoDownload}
        <5>1. \A x \in {"Direction"} \X {"none", "download", "upload"} \X Int : x[1] = "Direction"
          OBVIOUS
        <5>2. Head(wire[p]) \in Types \X (Downloads \cup {NoDownload})
          BY <4>1, <5>1 DEF AllMessages
        <5> QED BY <5>2
      <4>3. m \in AllMessages
        BY <4>2, PlainMessages DEF Types
      <4>4. Mute({m})
        BY DEF Mute
      <4>5. <<m>> \in Seq(AllMessages) /\ Mute(Elems(<<m>>))
        BY <4>3, <4>4, OneMute
      <4>6. "RUNNING" \in Late
        BY DEF Late
      <4> QED BY <2>6, <3>2, <4>5, <4>6
    <3>3. ASSUME NEW type \in {"MaxedOut", "NotAvailable", "Error"},
                 Become(p, end[p], <<Msg(type)>>, out[p])
          PROVE  RolesInv'
      <4>1. <<Msg(type)>> \in Seq(AllMessages) /\ Mute(Elems(<<Msg(type)>>))
        BY <3>3, MuteMsgsOK DEF MuteMsgs
      <4>2. Dull(p, end[p])
        BY <1>SoberDull DEF Sober
      <4> QED BY <2>2, <3>3, <4>1, <4>2, <1>BecomeDull
    <3> QED BY <2>7, <3>1, <3>2, <3>3 DEF ProcessGET
  <2>8. CASE ProcessSND(p)
    <3>1. "RUNNING" \in Late
      BY DEF Late
    <3> QED BY ZenonT(40), <2>3, <2>4, <2>6, <2>8, <3>1, NoneMute DEF ProcessSND
  <2>9. CASE OnData(p)
    BY <2>3, <2>4, <2>5, <2>9 DEF OnData
  <2>10. CASE MaxedOut(p)
    <3>1. "TRY_AGAIN" \in Late
      BY DEF Late
    <3> QED BY <2>3, <2>4, <2>6, <2>10, <3>1, NoneMute DEF MaxedOut
  <2>11. CASE FileNotAvailable(p)
    BY <2>3, <2>4, <2>5, <2>11 DEF FileNotAvailable
  <2>12. CASE ProtocolError(p)
    <3> DEFINE e == [end[p] EXCEPT !.failing = TRUE]
    <3>1. Sober(p, e)
      BY <2>1 DEF Sober, End
    <3>2. Become(p, e, <<>>, FailDownload(p))
      BY <2>12 DEF ProtocolError
    <3> QED BY ZenonT(40), <2>2, <3>1, <3>2, <1>SoberDull, NoneMute, <1>BecomeDull
  <2> QED BY <2>7, <2>8, <2>9, <2>10, <2>11, <2>12

<1> SUFFICES ASSUME EndsOK, RolesInv, [Next]_vars PROVE RolesInv'
  OBVIOUS
<1>0. end \in [Peers -> End]
  BY DEF EndsOK
<1>1. CASE UNCHANGED vars
  BY <1>1 DEF vars, config, RolesInv, WireOK, Separate, Opposed, Truthful, In
<1>2. CASE OnConnected
  BY <1>0, <1>2, <1>ConnectedRoles
<1>3. ASSUME NEW p \in Peers, Handle(p) PROVE RolesInv'
  BY Zenon, <1>0, <1>3, <1>MyNickRoles, <1>LockRoles, <1>DirectionRoles, <1>KeyRoles, <1>SupRoles, <1>InfRoles,
     <1>TransferRoles DEF Handle
<1>4. ASSUME NEW p \in Peers,
             \/ TransmitDone(p) \/ PutConnection(p) \/ Stop(p) \/ RemoteClosed(p) \/ Break(p)
             \/ Drain(p) \/ DisconnectAtOnce(p) \/ Erase(p)
      PROVE  RolesInv'
  BY Zenon, <1>0, <1>4, <1>EndRoles DEF Stop, RemoteClosed, Break
<1>5. ASSUME NEW p \in Peers, NEW t \in Checkers, Look(p, t) \/ GetDownload(p, t) \/ Request(p, t)
      PROVE  RolesInv'
  BY <1>5, <1>CheckerRoles
<1> QED BY Zenon, <1>1, <1>2, <1>3, <1>4, <1>5 DEF Next, Socket

\* Ends that are associated have settled.
LEMMA RolesInvAgree == RolesInv => RolesAgree
<1> SUFFICES ASSUME RolesInv PROVE RolesAgree
  OBVIOUS
<1>1. "in" \in Peers /\ "out" \in Peers /\ Other("in") = "out"
  BY DEF Peers, Other
<1>2. CASE proto = "ADC"
  <2>1. \A p \in Peers : end[p].dir = "download" => p = asker
    BY <1>2 DEF RolesInv, Separate
  <2> QED BY <1>1, <1>2, <2>1 DEF RolesAgree
<1>3. CASE proto = "NMDC"
  <2>1. Opposed("in")
    BY <1>1, <1>3 DEF RolesInv
  <2> QED BY <1>1, <2>1 DEF RolesAgree, Opposed, Decided
<1> QED BY <1>2, <1>3 DEF RolesInv

\* The ends agree on who downloads (RolesAgree), for any set of numbers that
\* UserConnection::number may be, with processDirection's comparison of the numbers
\* on both sides and however the messages, failures and calls of checkDownloads are
\* interleaved.
THEOREM RolesAgreeAlways == Spec => []RolesAgree
BY RolesInvAgree, InitRoles, NextRoles, KeptInvAlways, PTL DEF Spec

-----------------------------------------------------------------------------
(* Types.                                                                    *)

\* An end that is e and has still to send its $Direction can.
Able(e) ==
    /\ proto = "NMDC" /\ e.st \in Young => e.number \in Numbers
    /\ e.st = "LOCK" => e.dir \in {"download", "upload"}

\* What is said is well formed, and will be.
Typed ==
    /\ proto \in {"NMDC", "ADC"} /\ asker \in Peers
    /\ wire \in [Peers -> Seq(Messages)]
    /\ \A p \in Peers : /\ Able(end[p])
                        /\ \A t \in Checkers : check[p][t].pc = "got" => check[p][t].dl \in Downloads

\* The state of a connection has its type, what is on its way included: every
\* $Direction that is sent says what the end wants (never "none") and has a number that
\* was drawn, and every request and every SND is for a Download (never NoDownload).
THEOREM SessionTypeOKAlways == Spec => []TypeOK
\* Messages that are well formed, and what a request asks for.
<1>WellFormed.
    /\ \A type \in {"MyNick", "Lock", "Key", "Error", "SUP", "INF", "Data", "MaxedOut", "NotAvailable"} :
          Msg(type) \in Messages
    /\ \A type \in {"GET", "SND"}, d \in Downloads : <<type, d>> \in Messages
    /\ \A dir \in {"download", "upload"}, n \in Numbers : <<"Direction", dir, n>> \in Messages
    /\ \A m \in Messages : m[1] = "GET" => m[2] \in Downloads
  <2> DEFINE A == {"MyNick", "Lock", "Key", "Error", "SUP", "INF", "Data", "MaxedOut", "NotAvailable"}
             P == A \X {NoDownload}
             D == {"Direction"} \X {"download", "upload"} \X Numbers
             G == {"GET", "SND"} \X Downloads
  <2>1. \A type \in A : Msg(type) \in P
    BY DEF Msg
  <2>2. \A type \in {"GET", "SND"}, d \in Downloads : <<type, d>> \in G
    OBVIOUS
  <2>3. \A dir \in {"download", "upload"}, n \in Numbers : <<"Direction", dir, n>> \in D
    OBVIOUS
  <2>4. (\A m \in P : m[1] # "GET") /\ (\A m \in D : m[1] # "GET") /\ (\A m \in G : m[2] \in Downloads)
    OBVIOUS
  <2>5. Messages = (P \cup D) \cup G
    BY DEF Messages
  <2> HIDE DEF P, D, G
  <2> QED BY ZenonT(40), <2>1, <2>2, <2>3, <2>4, <2>5

\* A step of p: its end becomes e.
<1>TypedStep.
    ASSUME EndsOK, Typed, NEW p \in Peers, NEW e, Able(e), end' = [end EXCEPT ![p] = e],
           UNCHANGED config, wire' \in [Peers -> Seq(Messages)],
           \A r \in Peers, t \in Checkers : check'[r][t].pc = "got" => check'[r][t].dl \in Downloads
    PROVE  Typed'
  <2> USE <1>TypedStep
  <2>1. proto' = proto /\ asker' = asker
    BY DEF config
  <2>2. ASSUME NEW r \in Peers PROVE Able(end[r])'
    <3>1. end'[r] = e \/ end'[r] = end[r]
      BY DEF EndsOK
    <3>2. Able(end[r])
      BY DEF Typed
    <3> QED BY <2>1, <3>1, <3>2 DEF Able
  <2> QED BY <2>1, <2>2 DEF Typed

\* What is on its way once something is sent.
<1>SentTyped.
    ASSUME Typed, NEW q \in Peers, NEW ms \in Seq(Messages)
    PROVE  Sent(q, ms) \in Seq(Messages)
  <2> USE <1>SentTyped
  <2>1. wire[q] \in Seq(Messages) /\ <<>> \in Seq(Messages)
    BY DEF Typed
  <2>2. wire[q] \o ms \in Seq(Messages)
    BY <2>1, ConcatElems
  <2> QED BY <2>1, <2>2 DEF Sent

\* A handler.
<1>BecomeTyped.
    ASSUME EndsOK, Typed, NEW p \in Peers, NEW e, NEW ms \in Seq(Messages), NEW o,
           Become(p, e, ms, o), wire[p] # <<>>, Able(e)
    PROVE  Typed'
  <2> USE <1>BecomeTyped
  <2>1. wire[p] \in Seq(Messages) /\ Other(p) \in Peers
    BY OtherPeer DEF Typed
  <2>2. Tail(wire[p]) \in Seq(Messages) /\ Sent(Other(p), ms) \in Seq(Messages)
    BY <2>1, TailElems, <1>SentTyped
  <2>3. wire' \in [Peers -> Seq(Messages)]
    BY ZenonT(40), <2>1, <2>2 DEF Become, Typed
  <2>4. /\ end' = [end EXCEPT ![p] = e] /\ UNCHANGED config
        /\ \A r \in Peers, t \in Checkers : check'[r][t].pc = "got" => check'[r][t].dl \in Downloads
    BY DEF Become, Acts, Typed
  <2> QED BY ZenonT(40), <2>3, <2>4, <1>TypedStep

\* putConnection and disconnect.
<1>LeaveTyped.
    ASSUME EndsOK, Typed, NEW p \in Peers, NEW ms \in Seq(Messages), wire[p] # <<>>
    PROVE  /\ Put(p, ms) => Typed'
           /\ \A e \in End : \A o : Able(e) /\ Disconnect(p, e, ms, o) => Typed'
  <2> USE <1>LeaveTyped
  <2>1. ASSUME Put(p, ms) PROVE Typed'
    <3>1. Unused(end[p]).st = "UNUSED"
      BY DEF Unused, EndsOK, End
    <3>2. Able(Unused(end[p]))
      BY <3>1 DEF Able, Young
    <3>3. Become(p, Unused(end[p]), ms, out[p])
      BY <2>1 DEF Put
    <3> QED BY ZenonT(40), <3>2, <3>3, <1>BecomeTyped
  <2>2. ASSUME NEW e \in End, NEW o, Able(e), Disconnect(p, e, ms, o) PROVE Typed'
    <3>1. PICK s \in {"draining", "stopping"} : Become(p, [e EXCEPT !.sock = s], ms, o)
      BY <2>2 DEF Disconnect
    <3> DEFINE f == [e EXCEPT !.sock = s]
    <3>2. f.st = e.st /\ f.number = e.number /\ f.dir = e.dir
      BY DEF End
    <3> HIDE DEF f
    <3>3. Able(f)
      BY <2>2, <3>2 DEF Able
    <3> QED BY ZenonT(40), <3>1, <3>3, <1>BecomeTyped DEF f
  <2> QED BY <2>1, <2>2

\* checkDownloads.
<1>CheckTyped.
    ASSUME EndsOK, Typed, NEW p \in Peers, NEW e \in End, NEW ms \in Seq(Messages), NEW o,
           CheckDownloads(p, e, ms, o), wire[p] # <<>>
    PROVE  Typed'
  <2> USE <1>CheckTyped
  <2>1. ASSUME NEW d \in Downloads, NEW r,
               Become(p, [e EXCEPT !.st = "SND", !.dl = d], Append(ms, <<"GET", d>>), r)
        PROVE  Typed'
    <3> DEFINE f == [e EXCEPT !.st = "SND", !.dl = d]
               ns == Append(ms, <<"GET", d>>)
    <3>1. f.st = "SND"
      BY DEF End
    <3>2. <<"GET", d>> \in Messages
      BY <1>WellFormed
    <3>3. ns \in Seq(Messages)
      BY <3>2, AppendElems
    <3> HIDE DEF f, ns
    <3>4. Able(f)
      BY <3>1 DEF Able, Young
    <3> QED BY ZenonT(40), <2>1, <3>3, <3>4, <1>BecomeTyped DEF f, ns
  <2>2. CASE Become(p, [e EXCEPT !.st = "IDLE"], ms, o)
    <3> DEFINE f == [e EXCEPT !.st = "IDLE"]
    <3>1. f.st = "IDLE"
      BY DEF End
    <3> HIDE DEF f
    <3>2. Able(f)
      BY <3>1 DEF Able, Young
    <3> QED BY ZenonT(40), <2>2, <3>2, <1>BecomeTyped DEF f
  <2> QED BY ZenonT(40), <2>1, <2>2 DEF CheckDownloads

\* The connection is handed on to DownloadManager or UploadManager.
<1>AddTyped.
    ASSUME EndsOK, Typed, NEW p \in Peers, NEW ms \in Seq(Messages), wire[p] # <<>>,
           end[p].st \in {"KEY", "INF"}, AddDownloadConnection(p, ms) \/ AddUploadConnection(p, ms)
    PROVE  Typed'
  <2> USE <1>AddTyped
  <2> DEFINE e == [end[p] EXCEPT !.dir = "download", !.assoc = TRUE]
             f == [end[p] EXCEPT !.dir = "upload", !.assoc = TRUE]
             g == [f EXCEPT !.st = "GET"]
             ns == Append(ms, Msg("Error"))
  <2>1. end[p] \in End
    BY DEF EndsOK
  <2>2. e \in End /\ e.st = end[p].st /\ f \in End /\ f.st = end[p].st
    BY ZenonT(40), <2>1 DEF End
  <2>3. Able(e) /\ Able(f)
    <3> HIDE DEF e, f
    <3> QED BY <2>2 DEF Able, Young
  <2>4. Able(g)
    <3> HIDE DEF f
    <3>1. g.st = "GET"
      BY <2>2 DEF End
    <3> HIDE DEF g
    <3> QED BY <3>1 DEF Able, Young
  <2>5. Msg("Error") \in Messages
    BY <1>WellFormed
  <2>6. ns \in Seq(Messages)
    BY <2>5, AppendElems
  <2>7. \/ Put(p, ms) \/ Disconnect(p, e, ms, out[p]) \/ Disconnect(p, e, ns, out[p])
        \/ CheckDownloads(p, e, ms, out[p]) \/ Become(p, f, ns, out[p]) \/ Become(p, g, ms, out[p])
    BY DEF AddDownloadConnection, AddUploadConnection
  <2> HIDE DEF e, f, g, ns
  <2>8. ASSUME NEW h, NEW ls \in Seq(Messages), Able(h), Become(p, h, ls, out[p]) PROVE Typed'
    BY ZenonT(40), <2>8, <1>BecomeTyped
  <2> QED BY ZenonT(40), <2>2, <2>3, <2>4, <2>6, <2>7, <2>8, <1>LeaveTyped, <1>CheckTyped

\* The handlers of the introduction.
<1>GreetingTyped.
    ASSUME EndsOK, RolesInv, Typed, NEW p \in Peers,
           \/ ProcessMyNick(p) \/ ProcessLock(p) \/ ProcessDirection(p) \/ ProcessKey(p)
           \/ ProcessSUP(p) \/ ProcessINF(p)
    PROVE  Typed'
  <2> USE <1>GreetingTyped
  <2>0. end[p] \in End /\ Able(end[p]) /\ wire[p] # <<>> /\ <<>> \in Seq(Messages)
    BY DEF EndsOK, Typed, ProcessMyNick, ProcessLock, ProcessDirection, ProcessKey, ProcessSUP, ProcessINF,
           Receives
  <2>1. ASSUME NEW e, NEW ms \in Seq(Messages), NEW o, Able(e), Become(p, e, ms, o) PROVE Typed'
    BY ZenonT(40), <2>0, <2>1, <1>BecomeTyped
  <2>2. ASSUME Ignore(p) PROVE Typed'
    BY ZenonT(40), <2>0, <2>1, <2>2 DEF Ignore
  <2>3. /\ \A type \in {"MyNick", "Lock", "Key", "Error", "SUP", "INF"} : Msg(type) \in Messages
        /\ \A type \in {"MyNick", "Lock", "Key", "Error", "SUP", "INF"} : <<Msg(type)>> \in Seq(Messages)
        /\ <<Msg("MyNick"), Msg("Lock")>> \in Seq(Messages)
    <3>1. \A type \in {"MyNick", "Lock", "Key", "Error", "SUP", "INF"} : Msg(type) \in Messages
      BY <1>WellFormed
    <3>2. Msg("MyNick") \in Messages /\ Msg("Lock") \in Messages
      BY <3>1
    <3> QED BY ZenonT(40), <3>1, <3>2, FewElems
  <2>4. ASSUME NEW ms \in Seq(Messages), Put(p, ms) PROVE Typed'
    BY ZenonT(40), <2>0, <2>4, <1>LeaveTyped
  <2>5. CASE ProcessMyNick(p)
    <3>1. ASSUME end[p].st = "SUPNICK", NEW d \in {"download", "upload"}, NEW ms \in Seq(Messages),
                 Become(p, [end[p] EXCEPT !.st = "LOCK", !.dir = d], ms, out[p])
          PROVE  Typed'
      <4> DEFINE e == [end[p] EXCEPT !.st = "LOCK", !.dir = d]
      <4>1. e.st = "LOCK" /\ e.dir = d /\ e.number = end[p].number
        BY <2>0 DEF End
      <4> HIDE DEF e
      <4>2. Able(e)
        BY <2>0, <3>1, <4>1 DEF Able, Young
      <4> QED BY <2>1, <3>1, <4>2 DEF e
    <3>2. (IF p = "in" THEN <<Msg("MyNick"), Msg("Lock")>> ELSE <<>>) \in Seq(Messages)
      BY <2>0, <2>3
    <3> QED BY ZenonT(40), <2>0, <2>2, <2>4, <2>5, <3>1, <3>2 DEF ProcessMyNick
  <2>6. CASE ProcessLock(p)
    <3>1. CASE end[p].st = "LOCK"
      <4> DEFINE e == [end[p] EXCEPT !.st = "DIRECTION"]
                 m == <<"Direction", end[p].dir, end[p].number>>
      <4>1. e.st = "DIRECTION"
        BY <2>0 DEF End
      <4>2. proto = "NMDC"
        BY ZenonT(40), <3>1 DEF RolesInv, Separate
      <4>3. end[p].dir \in {"download", "upload"} /\ end[p].number \in Numbers
        BY <2>0, <3>1, <4>2 DEF Able, Young
      <4>4. m \in Messages /\ Msg("Key") \in Messages
        BY <2>3, <4>3, <1>WellFormed
      <4>5. <<m, Msg("Key")>> \in Seq(Messages)
        BY ZenonT(40), <4>4, FewElems
      <4>6. Become(p, e, <<m, Msg("Key")>>, out[p])
        BY <2>6, <3>1 DEF ProcessLock
      <4> HIDE DEF e, m
      <4>7. Able(e)
        BY <4>1 DEF Able, Young
      <4> QED BY ZenonT(40), <2>1, <4>5, <4>6, <4>7
    <3> QED BY <2>2, <2>6, <3>1 DEF ProcessLock
  <2>7. CASE ProcessDirection(p)
    <3>1. ASSUME NEW d, Become(p, [end[p] EXCEPT !.number = 0, !.st = "KEY", !.dir = d], <<>>, out[p])
          PROVE  Typed'
      <4> DEFINE e == [end[p] EXCEPT !.number = 0, !.st = "KEY", !.dir = d]
      <4>1. e.st = "KEY"
        BY <2>0 DEF End
      <4> HIDE DEF e
      <4>2. Able(e)
        BY <4>1 DEF Able, Young
      <4> QED BY ZenonT(40), <2>0, <2>1, <3>1, <4>2 DEF e
    <3> QED BY ZenonT(40), <2>0, <2>2, <2>4, <2>7, <3>1 DEF ProcessDirection
  <2>8. CASE ProcessKey(p)
    <3>1. CASE end[p].st = "KEY"
      <4>1. \/ Become(p, end[p], <<Msg("Error")>>, out[p]) \/ AddDownloadConnection(p, <<>>)
            \/ AddUploadConnection(p, <<>>)
        BY ZenonT(40), <2>8, <3>1 DEF ProcessKey
      <4>2. <<Msg("Error")>> \in Seq(Messages) /\ end[p].st \in {"KEY", "INF"}
        BY <2>3, <3>1
      <4> QED BY ZenonT(40), <2>0, <2>1, <4>1, <4>2, <1>AddTyped
    <3> QED BY ZenonT(40), <2>2, <2>8, <3>1 DEF ProcessKey
  <2>9. CASE ProcessSUP(p)
    <3> DEFINE e == [end[p] EXCEPT !.st = "INF"]
               ms == <<Msg(IF p = "in" THEN "SUP" ELSE "INF")>>
    <3>1. e.st = "INF"
      BY <2>0 DEF End
    <3>2. ms \in Seq(Messages)
      BY <2>3
    <3>3. Ignore(p) \/ Become(p, e, ms, out[p])
      BY <2>9 DEF ProcessSUP
    <3> HIDE DEF e, ms
    <3>4. Able(e)
      BY <3>1 DEF Able, Young
    <3> QED BY <2>1, <2>2, <3>2, <3>3, <3>4
  <2>10. CASE ProcessINF(p)
    <3> DEFINE ms == IF p = "in" THEN <<Msg("INF")>> ELSE <<>>
    <3>1. ms \in Seq(Messages) /\ <<Msg("Error")>> \in Seq(Messages)
      BY <2>0, <2>3
    <3>2. CASE end[p].st = "INF"
      <4>1. Put(p, <<Msg("Error")>>) \/ AddDownloadConnection(p, ms) \/ AddUploadConnection(p, ms)
        BY ZenonT(40), <2>10, <3>2 DEF ProcessINF
      <4>2. end[p].st \in {"KEY", "INF"}
        BY <3>2
      <4> HIDE DEF ms
      <4> QED BY ZenonT(40), <2>0, <2>4, <3>1, <4>1, <4>2, <1>AddTyped
    <3>3. CASE end[p].st # "INF"
      <4>1. Disconnect(p, end[p], <<Msg("Error")>>, out[p])
        BY ZenonT(40), <2>10, <3>3 DEF ProcessINF
      <4> QED BY ZenonT(40), <2>0, <3>1, <4>1, <1>LeaveTyped
    <3> QED BY <3>2, <3>3
  <2> QED BY <2>5, <2>6, <2>7, <2>8, <2>9, <2>10

\* The handlers of requests and answers.
<1>TransferTyped.
    ASSUME EndsOK, Typed, NEW p \in Peers,
           \/ ProcessGET(p) \/ ProcessSND(p) \/ OnData(p) \/ MaxedOut(p)
           \/ FileNotAvailable(p) \/ ProtocolError(p)
    PROVE  Typed'
  <2> USE <1>TransferTyped
  <2>0. /\ end[p] \in End /\ Able(end[p]) /\ wire[p] # <<>> /\ <<>> \in Seq(Messages)
        /\ wire[p] \in Seq(Messages)
    BY DEF EndsOK, Typed, ProcessGET, ProcessSND, OnData, MaxedOut, FileNotAvailable, ProtocolError, Receives
  <2>1. ASSUME NEW e, NEW ms \in Seq(Messages), NEW o, Able(e), Become(p, e, ms, o) PROVE Typed'
    BY ZenonT(40), <2>0, <2>1, <1>BecomeTyped
  <2>2. ASSUME Ignore(p) PROVE Typed'
    BY ZenonT(40), <2>0, <2>1, <2>2 DEF Ignore
  <2>3. ASSUME NEW o, Disconnect(p, end[p], <<>>, o) PROVE Typed'
    BY ZenonT(40), <2>0, <2>3, <1>LeaveTyped
  <2>4. ASSUME NEW o, CheckDownloads(p, end[p], <<>>, o) PROVE Typed'
    BY ZenonT(40), <2>0, <2>4, <1>CheckTyped
  <2>5. ASSUME NEW st \in {"RUNNING", "TRY_AGAIN"}, NEW ms \in Seq(Messages), NEW o,
               Become(p, [end[p] EXCEPT !.st = st], ms, o)
        PROVE  Typed'
    <3> DEFINE e == [end[p] EXCEPT !.st = st]
    <3>1. e.st = st
      BY <2>0 DEF End
    <3> HIDE DEF e
    <3>2. Able(e)
      BY <3>1 DEF Able, Young
    <3> QED BY <2>1, <2>5, <3>2 DEF e
  <2>6. CASE ProcessGET(p)
    <3>1. Head(wire[p]) \in Messages /\ Head(wire[p])[1] = "GET"
      BY <2>0, <2>6, TailElems DEF ProcessGET, Receives
    <3>2. <<"SND", Head(wire[p])[2]>> \in Messages
      BY <3>1, <1>WellFormed
    <3>3. <<<<"SND", Head(wire[p])[2]>>>> \in Seq(Messages)
      BY ZenonT(40), <3>2, FewElems
    <3>4. ASSUME NEW type \in {"MaxedOut", "NotAvailable", "Error"}, Become(p, end[p], <<Msg(type)>>, out[p])
          PROVE  Typed'
      <4>1. Msg(type) \in Messages
        BY <1>WellFormed
      <4>2. <<Msg(type)>> \in Seq(Messages)
        BY ZenonT(40), <4>1, FewElems
      <4> QED BY ZenonT(40), <2>0, <2>1, <3>4, <4>2
    <3>5. {"MaxedOut", "NotAvailable"} \cup (IF proto = "NMDC" THEN {"Error"} ELSE {})
            \subseteq {"MaxedOut", "NotAvailable", "Error"}
      OBVIOUS
    <3> QED BY ZenonT(40), <2>2, <2>5, <2>6, <3>3, <3>4, <3>5 DEF ProcessGET
  <2>7. CASE ProtocolError(p)
    <3> DEFINE e == [end[p] EXCEPT !.failing = TRUE]
    <3>1. e.st = end[p].st /\ e.number = end[p].number /\ e.dir = end[p].dir
      BY <2>0 DEF End
    <3> HIDE DEF e
    <3>2. Able(e)
      BY <2>0, <3>1 DEF Able
    <3> QED BY ZenonT(40), <2>0, <2>1, <2>7, <3>2 DEF e, ProtocolError
  <2>8. CASE ProcessSND(p)
    BY ZenonT(40), <2>0, <2>2, <2>3, <2>5, <2>8 DEF ProcessSND
  <2>9. CASE OnData(p)
    BY ZenonT(40), <2>2, <2>3, <2>4, <2>9 DEF OnData
  <2>10. CASE MaxedOut(p)
    BY ZenonT(40), <2>0, <2>2, <2>3, <2>5, <2>10 DEF MaxedOut
  <2>11. CASE FileNotAvailable(p)
    BY ZenonT(40), <2>2, <2>3, <2>4, <2>11 DEF FileNotAvailable
  <2> QED BY <2>6, <2>7, <2>8, <2>9, <2>10, <2>11

\* The end of the connection.
<1>EndTyped.
    ASSUME EndsOK, Typed, NEW p \in Peers,
           \/ TransmitDone(p) \/ PutConnection(p) \/ OnFailed(p) \/ Drain(p)
           \/ DisconnectAtOnce(p) \/ Erase(p)
    PROVE  Typed'
  <2> USE <1>EndTyped
  <2>0. /\ end[p] \in End /\ Able(end[p]) /\ wire \in [Peers -> Seq(Messages)] /\ Other(p) \in Peers
        /\ \A r \in Peers, t \in Checkers : check'[r][t].pc = "got" => check'[r][t].dl \in Downloads
    BY OtherPeer DEF EndsOK, Typed, TransmitDone, PutConnection, OnFailed, Drain, DisconnectAtOnce, Erase, Acts
  <2>1. ASSUME NEW e, Able(e), end' = [end EXCEPT ![p] = e], UNCHANGED config,
               wire' \in [Peers -> Seq(Messages)]
        PROVE  Typed'
    BY ZenonT(40), <2>0, <2>1, <1>TypedStep
  <2>2. CASE TransmitDone(p)
    <3> DEFINE e == [end[p] EXCEPT !.st = "GET"]
    <3>1. e.st = "GET"
      BY <2>0 DEF End
    <3>2. Msg("Data") \in Messages
      BY <1>WellFormed
    <3>3. <<Msg("Data")>> \in Seq(Messages)
      BY ZenonT(40), <3>2, FewElems
    <3>4. Sent(Other(p), <<Msg("Data")>>) \in Seq(Messages)
      BY ZenonT(40), <2>0, <3>3, <1>SentTyped
    <3>5. wire' \in [Peers -> Seq(Messages)] /\ end' = [end EXCEPT ![p] = e] /\ UNCHANGED config
      BY <2>0, <2>2, <3>4 DEF TransmitDone, Acts
    <3> HIDE DEF e
    <3>6. Able(e)
      BY <3>1 DEF Able, Young
    <3> QED BY ZenonT(40), <2>1, <3>5, <3>6
  <2>3. CASE PutConnection(p)
    <3>1. Unused(end[p]).st = "UNUSED"
      BY <2>0 DEF Unused, End
    <3>2. Able(Unused(end[p]))
      BY <3>1 DEF Able, Young
    <3>3. wire' \in [Peers -> Seq(Messages)] /\ end' = [end EXCEPT ![p] = Unused(end[p])] /\ UNCHANGED config
      BY <2>0, <2>3 DEF PutConnection, Acts
    <3> QED BY ZenonT(40), <2>1, <3>2, <3>3
  <2>4. CASE OnFailed(p)
    <3> DEFINE e == IF end[p].st = "UNUSED" THEN [end[p] EXCEPT !.sock = "closed"]
                    ELSE [end[p] EXCEPT !.sock = "closed", !.st = "UNCONNECTED", !.failing = TRUE]
    <3>1. e.st \in {"UNUSED", "UNCONNECTED"}
      BY <2>0 DEF End
    <3>2. \A k \in 0 .. Len(wire[Other(p)]) : SubSeq(wire[Other(p)], 1, k) \in Seq(Messages)
      BY ZenonT(40), <2>0, PrefixElems
    <3>3. wire' \in [Peers -> Seq(Messages)]
      <4>1. PICK k \in 0 .. Len(wire[Other(p)]) :
               wire' = [wire EXCEPT ![p] = <<>>, ![Other(p)] = SubSeq(@, 1, k)]
        BY ZenonT(40), <2>4 DEF OnFailed
      <4>2. <<>> \in Seq(Messages) /\ p # Other(p)
        BY OtherPeer
      <4>3. /\ [wire EXCEPT ![p] = <<>>] \in [Peers -> Seq(Messages)]
            /\ [wire EXCEPT ![p] = <<>>][Other(p)] = wire[Other(p)]
        BY <2>0, <4>2
      <4> QED BY ZenonT(40), <2>0, <3>2, <4>1, <4>3
    <3>4. end' = [end EXCEPT ![p] = e] /\ UNCHANGED config
      BY <2>4 DEF OnFailed, Acts
    <3> HIDE DEF e
    <3>5. Able(e)
      BY <3>1 DEF Able, Young
    <3> QED BY ZenonT(40), <2>1, <3>3, <3>4, <3>5
  <2>5. CASE Drain(p) \/ DisconnectAtOnce(p)
    <3> DEFINE e == [end[p] EXCEPT !.sock = "stopping"]
    <3>1. e.st = end[p].st /\ e.number = end[p].number /\ e.dir = end[p].dir
      BY <2>0 DEF End
    <3>2. end' = [end EXCEPT ![p] = e] /\ UNCHANGED config /\ wire' \in [Peers -> Seq(Messages)]
      BY <2>0, <2>5 DEF Drain, DisconnectAtOnce
    <3> HIDE DEF e
    <3>3. Able(e)
      BY <2>0, <3>1 DEF Able
    <3> QED BY ZenonT(40), <2>1, <3>2, <3>3
  <2>6. CASE Erase(p)
    <3> DEFINE e == [end[p] EXCEPT !.listed = FALSE]
    <3>1. e.st = end[p].st /\ e.number = end[p].number /\ e.dir = end[p].dir
      BY <2>0 DEF End
    <3>2. end' = [end EXCEPT ![p] = e] /\ UNCHANGED config /\ wire' \in [Peers -> Seq(Messages)]
      BY <2>0, <2>6 DEF Erase
    <3> HIDE DEF e
    <3>3. Able(e)
      BY <2>0, <3>1 DEF Able
    <3> QED BY ZenonT(40), <2>1, <3>2, <3>3
  <2> QED BY <2>2, <2>3, <2>4, <2>5, <2>6

\* The end that opened the connection introduces itself.
<1>ConnectedTyped.
    ASSUME EndsOK, Typed, OnConnected
    PROVE  Typed'
  <2> USE <1>ConnectedTyped
  <2> DEFINE e == [end["out"] EXCEPT !.st = "SUPNICK"]
             g == IF proto = "NMDC" THEN <<Msg("MyNick"), Msg("Lock")>> ELSE <<Msg("SUP")>>
  <2>0. /\ "out" \in Peers /\ "in" \in Peers /\ end["out"] \in End /\ Able(end["out"])
        /\ end["out"].st = "CONNECT" /\ wire \in [Peers -> Seq(Messages)]
    BY DEF Peers, EndsOK, Typed, OnConnected
  <2>1. e.st = "SUPNICK" /\ e.number = end["out"].number
    BY <2>0 DEF End
  <2>2. Msg("MyNick") \in Messages /\ Msg("Lock") \in Messages /\ Msg("SUP") \in Messages
    BY <1>WellFormed
  <2>3. g \in Seq(Messages)
    BY ZenonT(40), <2>2, FewElems
  <2>4. /\ end' = [end EXCEPT !["out"] = e] /\ UNCHANGED config /\ wire' = [wire EXCEPT !["in"] = Sent("in", g)]
        /\ \A r \in Peers, t \in Checkers : check'[r][t].pc = "got" => check'[r][t].dl \in Downloads
    BY DEF OnConnected, Acts, Typed
  <2> HIDE DEF e, g
  <2>5. Sent("in", g) \in Seq(Messages)
    BY ZenonT(40), <2>0, <2>3, <1>SentTyped
  <2>6. wire' \in [Peers -> Seq(Messages)]
    BY <2>0, <2>4, <2>5
  <2>7. Able(e)
    BY <2>0, <2>1 DEF Able, Young
  <2> QED BY ZenonT(40), <2>0, <2>4, <2>6, <2>7, <1>TypedStep

\* The checks of the timer and of the thread that queues something.
<1>CheckerTyped.
    ASSUME EndsOK, Typed, NEW p \in Peers, NEW t \in Checkers,
           Look(p, t) \/ GetDownload(p, t) \/ Request(p, t)
    PROVE  Typed'
  <2> USE <1>CheckerTyped
  <2>0. /\ end \in [Peers -> End] /\ end[p] \in End /\ Able(end[p]) /\ wire \in [Peers -> Seq(Messages)]
        /\ check \in [Peers -> [Checkers -> Places]] /\ Other(p) \in Peers /\ UNCHANGED config
        /\ \A r \in Peers, u \in Checkers : check[r][u].pc = "got" => check[r][u].dl \in Downloads
    BY OtherPeer DEF EndsOK, Typed, Look, GetDownload, Request
  <2>1. ASSUME NEW c, c.pc = "got" => c.dl \in Downloads, check' = [check EXCEPT ![p][t] = c]
        PROVE  \A r \in Peers, u \in Checkers : check'[r][u].pc = "got" => check'[r][u].dl \in Downloads
    <3>1. ASSUME NEW r \in Peers, NEW u \in Checkers PROVE check'[r][u] = c \/ check'[r][u] = check[r][u]
      BY <2>0, <2>1
    <3> QED BY <2>0, <2>1, <3>1
  <2>2. ASSUME NEW e, Able(e), end' = [end EXCEPT ![p] = e], wire' \in [Peers -> Seq(Messages)],
               NEW c, c.pc = "got" => c.dl \in Downloads, check' = [check EXCEPT ![p][t] = c]
        PROVE  Typed'
    <3>1. \A r \in Peers, u \in Checkers : check'[r][u].pc = "got" => check'[r][u].dl \in Downloads
      BY ZenonT(40), <2>1, <2>2
    <3> QED BY ZenonT(40), <2>0, <2>2, <3>1, <1>TypedStep
  <2>3. ASSUME NEW pc \in {"looked", "none"}, check' = [check EXCEPT ![p][t].pc = pc], UNCHANGED <<end, wire>>
        PROVE  Typed'
    <3> DEFINE c == [check[p][t] EXCEPT !.pc = pc]
    <3>1. c.pc = pc
      BY <2>0 DEF Places
    <3>2. check' = [check EXCEPT ![p][t] = c] /\ end' = [end EXCEPT ![p] = end[p]]
          /\ wire' \in [Peers -> Seq(Messages)]
      BY <2>0, <2>3
    <3> HIDE DEF c
    <3> QED BY ZenonT(40), <2>0, <2>2, <3>1, <3>2
  <2>4. ASSUME NEW d \in Downloads, check' = [check EXCEPT ![p][t] = [pc |-> "got", dl |-> d]],
               end' = [end EXCEPT ![p].dl = d], UNCHANGED wire
        PROVE  Typed'
    <3> DEFINE e == [end[p] EXCEPT !.dl = d]
               c == [pc |-> "got", dl |-> d]
    <3>1. e.st = end[p].st /\ e.number = end[p].number /\ e.dir = end[p].dir /\ c.dl = d
      BY <2>0 DEF End
    <3>2. check' = [check EXCEPT ![p][t] = c] /\ end' = [end EXCEPT ![p] = e] /\ wire' \in [Peers -> Seq(Messages)]
      BY <2>0, <2>4
    <3> HIDE DEF e, c
    <3>3. Able(e)
      BY ZenonT(40), <2>0, <3>1 DEF Able
    <3> QED BY ZenonT(40), <2>2, <3>1, <3>2, <3>3
  <2>5. ASSUME NEW st \in {"SND", "IDLE"}, end' = [end EXCEPT ![p].st = st], wire' \in [Peers -> Seq(Messages)],
               check' = [check EXCEPT ![p][t] = [Off EXCEPT !.pc = IF t = "timer" THEN "off" ELSE "done"]]
        PROVE  Typed'
    <3> DEFINE e == [end[p] EXCEPT !.st = st]
               c == [Off EXCEPT !.pc = IF t = "timer" THEN "off" ELSE "done"]
    <3>1. e.st = st /\ c.pc # "got"
      BY <2>0 DEF End, Off
    <3>2. check' = [check EXCEPT ![p][t] = c] /\ end' = [end EXCEPT ![p] = e]
      BY <2>5
    <3> HIDE DEF e, c
    <3>3. Able(e)
      BY <3>1 DEF Able, Young
    <3> QED BY ZenonT(40), <2>2, <2>5, <3>1, <3>2, <3>3
  <2>6. CASE Look(p, t)
    BY <2>3, <2>6 DEF Look
  <2>7. CASE GetDownload(p, t)
    BY <2>3, <2>4, <2>7 DEF GetDownload
  <2>8. CASE Request(p, t)
    <3> DEFINE ms == <<<<"GET", check[p][t].dl>>>>
               w == IF end[p].sock = "closed" THEN wire[Other(p)] ELSE Sent(Other(p), ms)
    <3>1. CASE check[p][t].pc = "got" /\ end' = [end EXCEPT ![p].st = "SND"]
               /\ wire' = [wire EXCEPT ![Other(p)] = w]
      <4>1. <<"GET", check[p][t].dl>> \in Messages
        BY <2>0, <3>1, <1>WellFormed
      <4>2. ms \in Seq(Messages)
        BY ZenonT(40), <4>1, FewElems
      <4>3. Sent(Other(p), ms) \in Seq(Messages)
        BY ZenonT(40), <2>0, <4>2, <1>SentTyped
      <4>4. w \in Seq(Messages)
        BY <2>0, <4>3
      <4> HIDE DEF w
      <4>5. wire' \in [Peers -> Seq(Messages)]
        BY <2>0, <3>1, <4>4
      <4> QED BY <2>5, <2>8, <3>1, <4>5 DEF Request
    <3>2. CASE end' = [end EXCEPT ![p].st = "IDLE"] /\ UNCHANGED wire
      BY <2>0, <2>5, <2>8, <3>2 DEF Request
    <3> QED BY <2>8, <3>1, <3>2 DEF Request
  <2> QED BY <2>6, <2>7, <2>8

<1>1. Init => Typed
  <2> SUFFICES ASSUME Init PROVE Typed
    OBVIOUS
  <2>1. proto \in {"NMDC", "ADC"} /\ asker \in Peers /\ <<>> \in Seq(Messages)
    BY DEF Init, Peers
  <2>2. wire \in [Peers -> Seq(Messages)]
    BY <2>1 DEF Init
  <2>3. ASSUME NEW p \in Peers PROVE Able(end[p])
    BY <2>1 DEF Init, Able, Peers
  <2>4. ASSUME NEW p \in Peers, NEW t \in Checkers PROVE check[p][t].pc # "got"
    BY DEF Init, Off
  <2> QED BY <2>1, <2>2, <2>3, <2>4 DEF Typed
<1>2. EndsOK /\ RolesInv /\ Typed /\ [Next]_vars => Typed'
  <2> SUFFICES ASSUME EndsOK, RolesInv, Typed, [Next]_vars PROVE Typed'
    OBVIOUS
  <2>1. CASE UNCHANGED vars
    BY <2>1 DEF vars, config, Typed, Able
  <2>2. ASSUME NEW p \in Peers, Handle(p) PROVE Typed'
    BY ZenonT(40), <2>2, <1>GreetingTyped, <1>TransferTyped DEF Handle
  <2>3. CASE OnConnected
    BY <2>3, <1>ConnectedTyped
  <2>4. ASSUME NEW p \in Peers, Socket(p) \/ Erase(p) \/ Break(p) \/ DisconnectAtOnce(p) PROVE Typed'
    BY ZenonT(40), <2>2, <2>3, <2>4, <1>EndTyped DEF Socket, Stop, RemoteClosed, Break
  <2>5. ASSUME NEW p \in Peers, NEW t \in Checkers, Look(p, t) \/ GetDownload(p, t) \/ Request(p, t)
        PROVE  Typed'
    BY ZenonT(40), <2>5, <1>CheckerTyped
  <2> QED BY ZenonT(40), <2>1, <2>4, <2>5 DEF Next
<1>3. EndsOK /\ Typed => TypeOK
  BY DEF EndsOK, Typed, TypeOK
<1> QED BY <1>1, <1>2, <1>3, InitRoles, NextRoles, KeptInvAlways, PTL DEF Spec

=============================================================================
