------------------------- MODULE PeerCommandsProofs -------------------------
(***************************************************************************)
(* Every command finds the state that it is meant for, as long as both ends *)
(* of a connection go on.                                                   *)
(***************************************************************************)
EXTENDS PeerRolesProofs

\* The context of a leaf is large here: it is given more than the usual time.
USE SMTT(20), ZenonT(20)

\* Both ends go on, and no calls of checkDownloads have overlapped.
Going == \A p \in Peers : ~crossed[p] /\ end[p].sock = "open" /\ ~end[p].failing /\ ~Refused(p)

\* What each end says to introduce itself.
Greeting(pr) == IF pr = "NMDC" THEN <<"MyNick", "Lock", "Direction", "Key">> ELSE <<"SUP", "INF">>

Length(pr) == IF pr = "NMDC" THEN 4 ELSE 2

\* How much of it an end that is e has heard of the other one.
Heard(pr, e) ==
    IF e.st \in {"CONNECT", "SUPNICK"} THEN 0
    ELSE IF e.st \in {"LOCK", "INF"} THEN 1
    ELSE IF e.st = "DIRECTION" THEN 2
    ELSE IF e.st = "KEY" THEN 3
    ELSE Length(pr)

\* How much p, which is e, has said itself; "out" begins.
Said(pr, p, e) ==
    IF e.st = "CONNECT" THEN 0
    ELSE IF e.st = "SUPNICK" THEN IF p = "in" THEN 0 ELSE IF pr = "NMDC" THEN 2 ELSE 1
    ELSE IF e.st = "LOCK" THEN 2
    ELSE IF e.st = "INF" THEN IF p = "in" THEN 1 ELSE 2
    ELSE Length(pr)

\* w begins with what was said up to s and not yet heard after h, and goes on with
\* Rest(w, h, s).
Carries(pr, w, h, s) ==
    /\ h <= s /\ s - h <= Len(w)
    /\ \A i \in 1 .. (s - h) : w[i][1] = Greeting(pr)[h + i]

Rest(w, h, s) == SubSeq(w, (s - h) + 1, Len(w))

-----------------------------------------------------------------------------
(* Sequences.                                                                *)

\* What a concatenation is.
LEMMA JoinIs ==
    ASSUME NEW M, NEW a \in Seq(M), NEW b \in Seq(M)
    PROVE  /\ a \o b \in Seq(M) /\ Len(a \o b) = Len(a) + Len(b)
           /\ \A i \in 1 .. (Len(a) + Len(b)) :
                 (a \o b)[i] = IF i <= Len(a) THEN a[i] ELSE b[i - Len(a)]
OBVIOUS

\* Sequences are equal if their elements are.
LEMMA SameSeq ==
    ASSUME NEW M, NEW a \in Seq(M), NEW b \in Seq(M),
           Len(a) = Len(b), \A i \in 1 .. Len(a) : a[i] = b[i]
    PROVE  a = b
OBVIOUS

\* Concatenation with nothing.
LEMMA JoinEmpty == ASSUME NEW M, NEW a \in Seq(M) PROVE a \o <<>> = a /\ <<>> \o a = a
OBVIOUS

\* Concatenation is associative.
LEMMA JoinJoin ==
    ASSUME NEW M, NEW a \in Seq(M), NEW b \in Seq(M), NEW c \in Seq(M)
    PROVE  (a \o b) \o c = a \o (b \o c)
OBVIOUS

\* What Append returns.
LEMMA AddedIs ==
    ASSUME NEW M, NEW a \in Seq(M), NEW m \in M
    PROVE  /\ Append(a, m) \in Seq(M) /\ Append(a, m) # <<>> /\ Len(Append(a, m)) = Len(a) + 1
           /\ \A i \in 1 .. Len(a) : Append(a, m)[i] = a[i]
           /\ Append(a, m)[Len(a) + 1] = m
OBVIOUS

\* Append is a concatenation.
LEMMA AddIsJoin ==
    ASSUME NEW M, NEW a \in Seq(M), NEW m \in M PROVE Append(a, m) = a \o <<m>>
OBVIOUS

\* Nothing of the introduction is on its way.
LEMMA RestWhole ==
    ASSUME NEW S, NEW w \in Seq(S), NEW pr, NEW h \in Nat
    PROVE  Carries(pr, w, h, h) /\ Rest(w, h, h) = w
<1>1. h - h = 0 /\ Len(w) \in Nat
  OBVIOUS
<1>2. Carries(pr, w, h, h)
  BY <1>1 DEF Carries
<1>3. SubSeq(w, 1, Len(w)) = w
  OBVIOUS
<1> QED BY <1>1, <1>2, <1>3 DEF Rest

\* The next word of the introduction is heard.
LEMMA RestTail ==
    ASSUME NEW S, NEW w \in Seq(S), NEW pr, NEW h \in Nat, NEW s \in Nat, h < s,
           Carries(pr, w, h, s)
    PROVE  Carries(pr, Tail(w), h + 1, s) /\ Rest(Tail(w), h + 1, s) = Rest(w, h, s)
<1> DEFINE n == s - h
<1>1. n \in Nat /\ n >= 1 /\ n <= Len(w) /\ s - (h + 1) = n - 1 /\ Len(w) \in Nat
  BY DEF Carries
<1>2. Len(Tail(w)) = Len(w) - 1 /\ Tail(w) \in Seq(S) /\ \A i \in 1 .. (Len(w) - 1) : Tail(w)[i] = w[i + 1]
  BY <1>1
<1>3. ASSUME NEW i \in 1 .. (n - 1) PROVE Tail(w)[i][1] = Greeting(pr)[(h + 1) + i]
  <2>1. i + 1 \in 1 .. n /\ i \in 1 .. (Len(w) - 1) /\ (h + 1) + i = h + (i + 1)
    BY <1>1
  <2>2. w[i + 1][1] = Greeting(pr)[h + (i + 1)]
    BY <2>1 DEF Carries
  <2> QED BY <1>2, <2>1, <2>2
<1>4. Carries(pr, Tail(w), h + 1, s)
  BY <1>1, <1>2, <1>3 DEF Carries
<1>5. SubSeq(Tail(w), n, Len(w) - 1) = SubSeq(w, n + 1, Len(w))
  BY <1>1, <1>2
<1>6. (s - (h + 1)) + 1 = n
  BY <1>1
<1> HIDE DEF n
<1>7. Rest(Tail(w), h + 1, s) = SubSeq(Tail(w), n, Len(w) - 1)
  BY <1>2, <1>6 DEF Rest
<1>8. Rest(w, h, s) = SubSeq(w, n + 1, Len(w))
  BY DEF Rest, n
<1> QED BY ZenonT(40), <1>4, <1>5, <1>7, <1>8

\* Something that does not belong to the introduction is said.
LEMMA RestConcat ==
    ASSUME NEW S, NEW w \in Seq(S), NEW ms \in Seq(S), NEW pr, NEW h \in Nat, NEW s \in Nat,
           Carries(pr, w, h, s)
    PROVE  Carries(pr, w \o ms, h, s) /\ Rest(w \o ms, h, s) = Rest(w, h, s) \o ms
<1> DEFINE n == s - h
<1>1. n \in Nat /\ n <= Len(w) /\ Len(w) \in Nat /\ Len(ms) \in Nat
  BY DEF Carries
<1>2. /\ w \o ms \in Seq(S) /\ Len(w \o ms) = Len(w) + Len(ms)
      /\ \A i \in 1 .. Len(w) : (w \o ms)[i] = w[i]
  BY <1>1
<1>3. Carries(pr, w \o ms, h, s)
  BY <1>1, <1>2 DEF Carries
<1> HIDE DEF n
<1>5. SubSeq(w \o ms, n + 1, Len(w) + Len(ms)) = SubSeq(w, n + 1, Len(w)) \o ms
  <2> DEFINE a == SubSeq(w \o ms, n + 1, Len(w) + Len(ms))
             b == SubSeq(w, n + 1, Len(w))
  <2>1. b \in Seq(S) /\ Len(b) = Len(w) - n /\ \A i \in 1 .. (Len(w) - n) : b[i] = w[n + i]
    BY <1>1
  <2>2. /\ a \in Seq(S) /\ Len(a) = (Len(w) - n) + Len(ms)
        /\ \A i \in 1 .. ((Len(w) - n) + Len(ms)) : a[i] = (w \o ms)[n + i]
    BY <1>1, <1>2
  <2>3. /\ b \o ms \in Seq(S) /\ Len(b \o ms) = Len(b) + Len(ms)
        /\ \A i \in 1 .. (Len(b) + Len(ms)) :
              (b \o ms)[i] = IF i <= Len(b) THEN b[i] ELSE ms[i - Len(b)]
    BY <2>1, JoinIs
  <2>4. \A i \in 1 .. (Len(w) + Len(ms)) :
           (w \o ms)[i] = IF i <= Len(w) THEN w[i] ELSE ms[i - Len(w)]
    BY JoinIs
  <2> HIDE DEF a, b
  <2>5. ASSUME NEW i \in 1 .. Len(a) PROVE a[i] = (b \o ms)[i]
    <3>1. i \in 1 .. ((Len(w) - n) + Len(ms)) /\ n + i \in 1 .. (Len(w) + Len(ms))
      BY <1>1, <2>2
    <3>2. a[i] = IF n + i <= Len(w) THEN w[n + i] ELSE ms[(n + i) - Len(w)]
      BY <2>2, <2>4, <3>1
    <3>3. (b \o ms)[i] = IF i <= Len(b) THEN b[i] ELSE ms[i - Len(b)]
      BY <1>1, <2>1, <2>3, <3>1
    <3>4. /\ n + i <= Len(w) <=> i <= Len(b)
          /\ (n + i) - Len(w) = i - Len(b)
          /\ i <= Len(b) => b[i] = w[n + i]
      BY <1>1, <2>1, <3>1
    <3> QED BY <3>2, <3>3, <3>4
  <2>6. Len(a) = Len(b \o ms)
    BY <1>1, <2>1, <2>2, <2>3
  <2>7. a = b \o ms
    BY ZenonT(40), <2>2, <2>3, <2>5, <2>6, SameSeq
  <2> QED BY ZenonT(40), <2>7 DEF a, b
<1>6. Rest(w \o ms, h, s) = SubSeq(w \o ms, n + 1, Len(w) + Len(ms)) /\ Rest(w, h, s) = SubSeq(w, n + 1, Len(w))
  BY <1>2 DEF Rest, n
<1> QED BY ZenonT(40), <1>3, <1>5, <1>6

\* The introduction goes on, when nothing else is on its way.
LEMMA RestGreet ==
    ASSUME NEW S, NEW w \in Seq(S), NEW ms \in Seq(S), NEW pr, NEW h \in Nat, NEW s \in Nat,
           Carries(pr, w, h, s), Rest(w, h, s) = <<>>,
           \A i \in 1 .. Len(ms) : ms[i][1] = Greeting(pr)[s + i]
    PROVE  Carries(pr, w \o ms, h, s + Len(ms)) /\ Rest(w \o ms, h, s + Len(ms)) = <<>>
<1> DEFINE n == s - h
           k == Len(ms)
<1>1. n \in Nat /\ n <= Len(w) /\ Len(w) \in Nat /\ k \in Nat
  BY DEF Carries
<1>2. Len(w) = n
  <2>1. SubSeq(w, n + 1, Len(w)) = <<>>
    BY DEF Rest
  <2> HIDE DEF n
  <2>2. Len(SubSeq(w, n + 1, Len(w))) = Len(w) - n
    BY <1>1
  <2>3. Len(w) - n = 0
    BY ZenonT(40), <2>1, <2>2
  <2> QED BY <1>1, <2>3
<1>3. /\ w \o ms \in Seq(S) /\ Len(w \o ms) = n + k
      /\ \A i \in 1 .. n : (w \o ms)[i] = w[i]
      /\ \A i \in (n + 1) .. (n + k) : (w \o ms)[i] = ms[i - n]
  <2>1. /\ w \o ms \in Seq(S) /\ Len(w \o ms) = Len(w) + k
        /\ \A i \in 1 .. (Len(w) + k) : (w \o ms)[i] = IF i <= Len(w) THEN w[i] ELSE ms[i - Len(w)]
    BY JoinIs
  <2> HIDE DEF n, k
  <2> QED BY <1>1, <1>2, <2>1
<1>4. (s + k) - h = n + k
  BY <1>1
<1>5. ASSUME NEW i \in 1 .. (n + k) PROVE (w \o ms)[i][1] = Greeting(pr)[h + i]
  <2>1. CASE i \in 1 .. n
    BY <1>3, <2>1 DEF Carries
  <2>2. CASE i \in (n + 1) .. (n + k)
    <3>1. i - n \in 1 .. k /\ s + (i - n) = h + i
      BY <1>1, <2>2
    <3> QED BY ZenonT(40), <1>3, <2>2, <3>1
  <2> QED BY <1>1, <2>1, <2>2
<1>6. Carries(pr, w \o ms, h, s + k)
  BY <1>1, <1>3, <1>4, <1>5 DEF Carries
<1>7. SubSeq(w \o ms, (n + k) + 1, n + k) = <<>>
  BY <1>1, <1>3
<1> QED BY <1>3, <1>4, <1>6, <1>7 DEF Rest

\* The words g of the introduction are said, and then t.
LEMMA RestSays ==
    ASSUME NEW S, NEW w \in Seq(S), NEW g \in Seq(S), NEW t \in Seq(S), NEW pr,
           NEW h \in Nat, NEW s \in Nat, Carries(pr, w, h, s), Rest(w, h, s) = <<>>,
           \A i \in 1 .. Len(g) : g[i][1] = Greeting(pr)[s + i]
    PROVE  /\ Carries(pr, w \o (g \o t), h, s + Len(g))
           /\ Rest(w \o (g \o t), h, s + Len(g)) = t
<1>1. (w \o g) \o t = w \o (g \o t)
  BY JoinJoin
<1>2. w \o g \in Seq(S)
  BY JoinIs
<1>3. Carries(pr, w \o g, h, s + Len(g)) /\ Rest(w \o g, h, s + Len(g)) = <<>>
  BY ZenonT(40), RestGreet
<1>4. s + Len(g) \in Nat
  OBVIOUS
<1> DEFINE v == w \o g
           k == s + Len(g)
<1> HIDE DEF v, k
<1>5. Carries(pr, v \o t, h, k) /\ Rest(v \o t, h, k) = Rest(v, h, k) \o t
  <2>1. v \in Seq(S) /\ k \in Nat /\ Carries(pr, v, h, k)
    BY <1>2, <1>3, <1>4 DEF v, k
  <2> QED BY ZenonT(40), <2>1, RestConcat
<1>6. <<>> \o t = t
  BY JoinEmpty
<1> QED BY ZenonT(40), <1>1, <1>3, <1>5, <1>6 DEF v, k

-----------------------------------------------------------------------------
(* The conversation.                                                         *)

\* The introduction that is on its way to p, and what follows it.
Intro(p) == Carries(proto, wire[p], Heard(proto, end[p]), Said(proto, Other(p), end[Other(p)]))
Talk(p) == Rest(wire[p], Heard(proto, end[p]), Said(proto, Other(p), end[Other(p)]))

Asking == {"SND", "IDLE", "TRY_AGAIN"}
Settled == Asking \cup {"GET", "RUNNING"}

\* The end that is e downloads.
Loader(e) == e.st \in Asking \/ (e.st = "RUNNING" /\ e.dir = "download")

\* The states in which p may be, with the roles that go with them.
Placed(p) ==
    /\ p = "in" => end[p].st # "CONNECT"
    /\ \/ end[p].st \in Settled \cup {"CONNECT", "SUPNICK"}
       \/ proto = "NMDC" /\ end[p].st \in {"LOCK", "DIRECTION", "KEY"}
       \/ proto = "ADC" /\ end[p].st = "INF"
    /\ end[p].st \in Settled => end[p].assoc
    /\ end[p].st \in Asking => end[p].dir = "download"
    /\ end[p].st = "GET" => end[p].dir = "upload"
    /\ end[p].st = "RUNNING" => end[p].dir \in {"download", "upload"}

\* What is on its way between an end that downloads and the other one, of states st
\* and other: one request for dl, or the answer to it.
Exchange(st, dl, other, answer, request) ==
    \/ /\ st \in {"IDLE", "TRY_AGAIN"}
       /\ answer = <<>> /\ request = <<>> /\ other # "RUNNING"
    \/ /\ st = "SND"
       /\ \/ answer = <<>> /\ request = <<<<"GET", dl>>>> /\ other # "RUNNING"
          \/ answer = <<<<"SND", dl>>>> /\ request = <<>> /\ other = "RUNNING"
          \/ answer = <<<<"SND", dl>>, Msg("Data")>> /\ request = <<>> /\ other = "GET"
          \/ answer = <<Msg("MaxedOut")>> /\ request = <<>> /\ other = "GET"
          \/ answer = <<Msg("NotAvailable")>> /\ request = <<>> /\ other = "GET"
    \/ /\ st = "RUNNING"
       /\ \/ answer = <<>> /\ request = <<>> /\ other = "RUNNING"
          \/ answer = <<Msg("Data")>> /\ request = <<>> /\ other = "GET"

Dialogue(p) == Exchange(end[p].st, end[p].dl, end[Other(p)].st, Talk(p), Talk(Other(p)))

\* The ends are where the messages on their way say.
Shape ==
    /\ proto \in {"NMDC", "ADC"}
    /\ \A p \in Peers : Placed(p) /\ Intro(p)
    /\ \A p \in Peers : Loader(end[p]) => Dialogue(p)
    /\ (\A p \in Peers : ~Loader(end[p])) => \A p \in Peers : Talk(p) = <<>> /\ end[p].st # "RUNNING"

CommandsInv == Going => Shape

-----------------------------------------------------------------------------
\* How far an end can be in the introduction.
LEMMA Progress ==
    ASSUME Shape, NEW p \in Peers
    PROVE  /\ Heard(proto, end[p]) \in Nat /\ Said(proto, p, end[p]) \in Nat
           /\ Heard(proto, end[p]) <= Length(proto) /\ Said(proto, p, end[p]) <= Length(proto)
           /\ end[p].st \in Settled => /\ Heard(proto, end[p]) = Length(proto)
                                       /\ Said(proto, p, end[p]) = Length(proto)
           /\ end[p].st \notin Settled => Heard(proto, end[p]) < Length(proto)
BY DEF Shape, Placed, Heard, Said, Length, Settled, Asking

\* Not both ends download.
LEMMA OneLoader ==
    ASSUME Shape, RolesAgree, NEW p \in Peers, Loader(end[p])
    PROVE  ~Loader(end[Other(p)])
<1>1. \A q \in Peers : Loader(end[q]) => end[q].assoc /\ end[q].dir = "download"
  BY DEF Shape, Placed, Loader, Settled
<1> QED BY <1>1 DEF RolesAgree, Peers, Other

\* The first message on its way to p is the next word of the introduction or, when
\* both ends have introduced themselves, one of the dialogue.
LEMMA FirstWord ==
    ASSUME WireOK, Shape, NEW p \in Peers, wire[p] # <<>>
    PROVE  \/ /\ end[p].st \notin Settled
              /\ Heard(proto, end[p]) < Said(proto, Other(p), end[Other(p)])
              /\ Head(wire[p])[1] = Greeting(proto)[Heard(proto, end[p]) + 1]
           \/ /\ end[p].st \in Settled /\ Talk(p) = wire[p]
              /\ Loader(end[p]) \/ Loader(end[Other(p)])
<1> DEFINE q == Other(p)
           h == Heard(proto, end[p])
           s == Said(proto, q, end[q])
<1>1. q \in Peers /\ Peers = {p, q}
  BY OtherPeer
<1>2. wire[p] \in Seq(AllMessages) /\ Head(wire[p]) = wire[p][1]
  BY DEF WireOK
<1>3. h \in Nat /\ s \in Nat /\ h <= s /\ s <= Length(proto) /\ Carries(proto, wire[p], h, s)
  <2>1. h \in Nat /\ s \in Nat /\ s <= Length(proto)
    BY <1>1, Progress
  <2>2. Carries(proto, wire[p], h, s)
    BY DEF Shape, Intro
  <2> QED BY <2>1, <2>2 DEF Carries
<1>4. end[p].st \notin Settled <=> h < Length(proto)
  BY Progress
<1>5. Length(proto) \in Nat
  BY DEF Length
<1> HIDE DEF h, s
<1>6. CASE h < s
  <2>1. 1 \in 1 .. (s - h)
    BY <1>3, <1>6
  <2>2. wire[p][1][1] = Greeting(proto)[h + 1]
    BY <1>3, <2>1 DEF Carries
  <2>3. h < Length(proto)
    BY <1>3, <1>5, <1>6
  <2> QED BY <1>2, <1>4, <1>6, <2>2, <2>3 DEF h, s
<1>7. CASE h = s
  <2>1. Talk(p) = wire[p]
    BY <1>2, <1>3, <1>7, RestWhole DEF Talk, h, s
  <2>2. Loader(end[p]) \/ Loader(end[q])
    BY <1>1, <2>1 DEF Shape
  <2>3. end[p].st \in Settled
    <3>1. CASE Loader(end[p])
      BY <3>1 DEF Loader, Settled
    <3>2. CASE Loader(end[q])
      <4>1. end[q].st \in Settled
        BY <3>2 DEF Loader, Settled
      <4>2. s = Length(proto)
        BY <1>1, <4>1, Progress DEF s
      <4> QED BY <1>4, <1>5, <1>7, <4>2
    <3> QED BY <2>2, <3>1, <3>2
  <2> QED BY <2>1, <2>2, <2>3
<1> QED BY <1>3, <1>6, <1>7

\* What the downloading end may be sent, and what the other one.
LEMMA DialogueHeads ==
    ASSUME WireOK, Shape, RolesAgree, NEW p \in Peers, wire[p] # <<>>, end[p].st \in Settled
    PROVE  \/ /\ Loader(end[p]) /\ Dialogue(p) /\ Talk(p) = wire[p]
              /\ \/ end[p].st = "SND" /\ Head(wire[p]) = <<"SND", end[p].dl>>
                 \/ end[p].st = "SND" /\ Head(wire[p]) = Msg("MaxedOut")
                 \/ end[p].st = "SND" /\ Head(wire[p]) = Msg("NotAvailable")
                 \/ end[p].st = "RUNNING" /\ Head(wire[p]) = Msg("Data")
           \/ /\ ~Loader(end[p]) /\ Loader(end[Other(p)]) /\ Dialogue(Other(p)) /\ Talk(p) = wire[p]
              /\ end[p].st = "GET" /\ end[Other(p)].st = "SND"
              /\ wire[p] = <<<<"GET", end[Other(p)].dl>>>> /\ Talk(Other(p)) = <<>>
<1> DEFINE q == Other(p)
<1>1. q \in Peers /\ Other(q) = p
  BY OtherPeer
<1>2. Talk(p) = wire[p] /\ (Loader(end[p]) \/ Loader(end[q]))
  BY FirstWord
<1>3. CASE Loader(end[p])
  <2>1. Dialogue(p)
    BY <1>3 DEF Shape
  <2> QED BY <1>2, <1>3, <2>1 DEF Dialogue, Exchange
<1>4. CASE Loader(end[q])
  <2>1. Dialogue(q) /\ ~Loader(end[p])
    BY <1>1, <1>4, OneLoader DEF Shape
  <2>2. end[q].st = "SND" /\ wire[p] = <<<<"GET", end[q].dl>>>> /\ Talk(q) = <<>> /\ end[p].st # "RUNNING"
    BY <1>1, <1>2, <2>1 DEF Dialogue, Exchange, Msg
  <2>3. end[p].st = "GET"
    BY <2>1, <2>2 DEF Settled, Loader
  <2> QED BY <1>2, <1>4, <2>1, <2>2, <2>3
<1> QED BY <1>2, <1>3, <1>4

\* The states that the words of the introduction are meant for.
LEMMA GreetingAwaited ==
    ASSUME Shape, NEW p \in Peers, end[p].st \notin Settled
    PROVE  /\ Heard(proto, end[p]) + 1 \in 1 .. Length(proto)
           /\ end[p].st \in {"CONNECT", "SUPNICK"} <=> Heard(proto, end[p]) = 0
           /\ end[p].st \in {"LOCK", "INF"} <=> Heard(proto, end[p]) = 1
           /\ end[p].st = "DIRECTION" <=> Heard(proto, end[p]) = 2
           /\ end[p].st = "KEY" <=> Heard(proto, end[p]) = 3
           /\ proto = "NMDC" => end[p].st # "INF"
           /\ proto = "ADC" => end[p].st \notin {"LOCK", "DIRECTION", "KEY"}
           /\ proto \in {"NMDC", "ADC"}
BY DEF Shape, Placed, Heard, Length, Settled, Asking

\* The words of the introductions.
LEMMA GreetingWords ==
    /\ Greeting("NMDC")[1] = "MyNick" /\ Greeting("NMDC")[2] = "Lock"
    /\ Greeting("NMDC")[3] = "Direction" /\ Greeting("NMDC")[4] = "Key"
    /\ Greeting("ADC")[1] = "SUP" /\ Greeting("ADC")[2] = "INF"
BY DEF Greeting

\* The next word of the introduction, by the state of the end that is to hear it.
LEMMA NextWord ==
    ASSUME Shape, NEW p \in Peers, end[p].st \notin Settled, NEW word,
           word = Greeting(proto)[Heard(proto, end[p]) + 1]
    PROVE  \/ word \in {"MyNick", "SUP"} /\ end[p].st \in {"CONNECT", "SUPNICK"}
           \/ word = "Lock" /\ end[p].st = "LOCK"
           \/ word = "Direction" /\ end[p].st = "DIRECTION"
           \/ word = "Key" /\ end[p].st = "KEY"
           \/ word = "INF" /\ end[p].st = "INF"
<1> DEFINE h == Heard(proto, end[p])
<1>1. /\ end[p].st \in {"CONNECT", "SUPNICK"} => h = 0
      /\ end[p].st \in {"LOCK", "INF"} => h = 1
      /\ end[p].st = "DIRECTION" => h = 2
      /\ end[p].st = "KEY" => h = 3
  BY GreetingAwaited
<1>2. \/ end[p].st \in {"CONNECT", "SUPNICK"}
      \/ proto = "NMDC" /\ end[p].st \in {"LOCK", "DIRECTION", "KEY"}
      \/ proto = "ADC" /\ end[p].st = "INF"
  BY DEF Shape, Placed
<1>3. proto \in {"NMDC", "ADC"} /\ word = Greeting(proto)[h + 1]
  BY DEF Shape
<1> HIDE DEF h
<1>4. CASE end[p].st \in {"CONNECT", "SUPNICK"}
  BY <1>1, <1>3, <1>4, GreetingWords
<1>5. CASE proto = "NMDC" /\ end[p].st = "LOCK"
  BY <1>1, <1>3, <1>5, GreetingWords
<1>6. CASE proto = "NMDC" /\ end[p].st = "DIRECTION"
  BY <1>1, <1>3, <1>6, GreetingWords
<1>7. CASE proto = "NMDC" /\ end[p].st = "KEY"
  BY <1>1, <1>3, <1>7, GreetingWords
<1>8. CASE proto = "ADC" /\ end[p].st = "INF"
  BY <1>1, <1>3, <1>8, GreetingWords
<1> QED BY <1>2, <1>4, <1>5, <1>6, <1>7, <1>8

\* Where the ends are as the messages say, every command is expected.
LEMMA ShapeExpected ==
    ASSUME WireOK, RolesAgree, CommandsInv
    PROVE  CommandsExpected
<1> SUFFICES ASSUME NEW p \in Peers, Listening(p), wire[p] # <<>>, Going,
                    Head(wire[p])[1] \in DOMAIN Awaits
             PROVE  /\ end[p].st = Awaits[Head(wire[p])[1]]
                    /\ Head(wire[p])[1] = "SND" => Head(wire[p])[2] = end[p].dl
  BY Zenon DEF CommandsExpected, Going
<1> DEFINE kind == Head(wire[p])[1]
<1>0. Shape
  BY DEF CommandsInv
<1>1. CASE end[p].st \notin Settled
  <2>1. kind = Greeting(proto)[Heard(proto, end[p]) + 1]
    BY <1>0, <1>1, FirstWord
  <2>2. end[p].st # "CONNECT"
    BY DEF Listening
  <2>3. \/ kind \in {"MyNick", "SUP"} /\ end[p].st = "SUPNICK"
        \/ kind = "Lock" /\ end[p].st = "LOCK"
        \/ kind = "Direction" /\ end[p].st = "DIRECTION"
        \/ kind = "Key" /\ end[p].st = "KEY"
        \/ kind = "INF" /\ end[p].st = "INF"
    BY <1>0, <1>1, <2>1, <2>2, NextWord
  <2> QED BY <2>3 DEF Awaits
<1>2. CASE end[p].st \in Settled
  <2>1. \/ end[p].st = "SND" /\ kind = "SND" /\ Head(wire[p])[2] = end[p].dl
        \/ end[p].st = "SND" /\ kind \in {"MaxedOut", "NotAvailable"}
        \/ end[p].st = "RUNNING" /\ kind = "Data"
        \/ end[p].st = "GET" /\ kind = "GET"
    BY <1>0, <1>2, DialogueHeads DEF Msg
  <2> QED BY <2>1 DEF Awaits
<1> QED BY <1>1, <1>2

-----------------------------------------------------------------------------
(* Steps.                                                                    *)

\* p's end becomes e, w is what is on its way to p then, and ms is sent.
Passes(p, e, w, ms) ==
    /\ end'[p] = e /\ end'[Other(p)] = end[Other(p)] /\ UNCHANGED config
    /\ wire'[p] = w /\ wire'[Other(p)] = wire[Other(p)] \o ms

\* A step of the introduction: p may hear a word and may say the words g, and then t.
Greets(p, e, w, g, t) ==
    /\ Passes(p, e, w, g \o t)
    /\ end[p].st \notin Settled
    /\ \/ /\ w = Tail(wire[p])
          /\ Heard(proto, end[p]) < Said(proto, Other(p), end[Other(p)])
          /\ Heard(proto, e) = Heard(proto, end[p]) + 1
       \/ w = wire[p] /\ Heard(proto, e) = Heard(proto, end[p])
    /\ Said(proto, p, e) = Said(proto, p, end[p]) + Len(g)
    /\ \A i \in 1 .. Len(g) : g[i][1] = Greeting(proto)[Said(proto, p, end[p]) + i]

\* What is on its way after it.
LEMMA GreetsWires ==
    ASSUME WireOK, Shape, NEW p \in Peers, NEW e, NEW w,
           NEW g \in Seq(AllMessages), NEW t \in Seq(AllMessages), Greets(p, e, w, g, t)
    PROVE  Intro(p)' /\ Intro(Other(p))' /\ Talk(p)' = Talk(p) /\ Talk(Other(p)) = <<>> /\ Talk(Other(p))' = t
<1> DEFINE q == Other(p)
           h == Heard(proto, end[p])
           s == Said(proto, p, end[p])
           hq == Heard(proto, end[q])
           sq == Said(proto, q, end[q])
<1>1. q \in Peers /\ Peers = {p, q} /\ Other(q) = p
  BY OtherPeer
<1>2. wire[p] \in Seq(AllMessages) /\ wire[q] \in Seq(AllMessages)
  BY <1>1 DEF WireOK
<1>3. h \in Nat /\ s \in Nat /\ hq \in Nat /\ sq \in Nat
  BY <1>1, Progress
<1>4. Carries(proto, wire[p], h, sq) /\ Carries(proto, wire[q], hq, s)
  BY <1>1 DEF Shape, Intro
<1>5. Talk(p) = Rest(wire[p], h, sq) /\ Talk(q) = Rest(wire[q], hq, s)
  BY <1>1 DEF Talk
<1>6. Talk(q) = <<>>
  <2>1. CASE Loader(end[q])
    <3>1. Dialogue(q)
      BY <1>1, <2>1 DEF Shape
    <3>2. end[p].st # "RUNNING" /\ end[p].st # "GET"
      BY DEF Settled, Greets
    <3> QED BY <1>1, <3>1, <3>2 DEF Dialogue, Exchange
  <2>2. CASE ~Loader(end[q])
    <3>1. ~Loader(end[p])
      BY DEF Loader, Settled, Greets
    <3> QED BY <1>1, <2>2, <3>1 DEF Shape
  <2> QED BY <2>1, <2>2
<1>7. /\ Intro(p)' = Carries(proto, w, Heard(proto, e), sq)
      /\ Intro(q)' = Carries(proto, wire[q] \o (g \o t), hq, Said(proto, p, e))
      /\ Talk(p)' = Rest(w, Heard(proto, e), sq)
      /\ Talk(q)' = Rest(wire[q] \o (g \o t), hq, Said(proto, p, e))
  BY <1>1 DEF Greets, Passes, Intro, Talk, config
<1> HIDE DEF h, s, hq, sq
<1>9. Intro(p)' /\ Talk(p)' = Talk(p)
  <2>1. CASE w = wire[p] /\ Heard(proto, e) = h
    BY <1>4, <1>5, <1>7, <2>1
  <2>2. CASE w = Tail(wire[p]) /\ h < sq /\ Heard(proto, e) = h + 1
    <3>1. Carries(proto, Tail(wire[p]), h + 1, sq) /\ Rest(Tail(wire[p]), h + 1, sq) = Rest(wire[p], h, sq)
      BY <1>2, <1>3, <1>4, <2>2, RestTail
    <3> QED BY <1>5, <1>7, <2>2, <3>1
  <2> QED BY <2>1, <2>2 DEF h, sq, Greets
<1>10. /\ Carries(proto, wire[q] \o (g \o t), hq, s + Len(g))
       /\ Rest(wire[q] \o (g \o t), hq, s + Len(g)) = t
  <2>1. \A i \in 1 .. Len(g) : g[i][1] = Greeting(proto)[s + i]
    BY DEF s, Greets
  <2>2. Rest(wire[q], hq, s) = <<>>
    BY <1>5, <1>6
  <2> DEFINE v == wire[q]
  <2>3. v \in Seq(AllMessages) /\ Carries(proto, v, hq, s) /\ Rest(v, hq, s) = <<>>
    BY <1>2, <1>4, <2>2
  <2> HIDE DEF v
  <2>4. Carries(proto, v \o (g \o t), hq, s + Len(g)) /\ Rest(v \o (g \o t), hq, s + Len(g)) = t
    BY <1>3, <2>1, <2>3, RestSays
  <2> QED BY <2>4 DEF v
<1>11. Said(proto, p, e) = s + Len(g)
  BY DEF s, Greets
<1> QED BY <1>6, <1>7, <1>9, <1>10, <1>11

\* p has introduced itself: it may take the first message, and say ms.
LEMMA TalksWires ==
    ASSUME WireOK, Shape, NEW p \in Peers, NEW e, NEW w, NEW ms \in Seq(AllMessages),
           Passes(p, e, w, ms), w \in Seq(AllMessages),
           end[p].st \in Settled, e.st \in Settled
    PROVE  /\ Intro(p)' /\ Intro(Other(p))' /\ Talk(p) = wire[p] /\ Talk(p)' = w
           /\ Talk(Other(p))' = Talk(Other(p)) \o ms
<1> DEFINE q == Other(p)
           s == Said(proto, p, end[p])
           hq == Heard(proto, end[q])
           sq == Said(proto, q, end[q])
           n == Length(proto)
<1>1. q \in Peers /\ Peers = {p, q} /\ Other(q) = p
  BY OtherPeer
<1>2. wire[p] \in Seq(AllMessages) /\ wire[q] \in Seq(AllMessages)
  BY <1>1 DEF WireOK
<1>3. Heard(proto, end[p]) = n /\ s = n /\ hq \in Nat /\ sq \in Nat /\ sq <= n /\ n \in Nat
  BY <1>1, Progress DEF Length
<1>4. Carries(proto, wire[p], n, sq) /\ Carries(proto, wire[q], hq, n)
  BY <1>1, <1>3 DEF Shape, Intro
<1>5. Heard(proto, e) = n /\ Said(proto, p, e) = n
  BY DEF Heard, Said, Settled, Asking
<1>6. sq = n
  BY <1>3, <1>4 DEF Carries
<1>7. /\ Intro(p)' = Carries(proto, w, n, n)
      /\ Intro(q)' = Carries(proto, wire[q] \o ms, hq, n)
      /\ Talk(p)' = Rest(w, n, n)
      /\ Talk(q)' = Rest(wire[q] \o ms, hq, n)
      /\ Talk(p) = Rest(wire[p], n, n) /\ Talk(q) = Rest(wire[q], hq, n)
  BY <1>1, <1>3, <1>5, <1>6 DEF Passes, Intro, Talk, config
<1> HIDE DEF s, hq, sq, n
<1>8. Carries(proto, w, n, n) /\ Rest(w, n, n) = w /\ Rest(wire[p], n, n) = wire[p]
  BY ZenonT(40), <1>2, <1>3, RestWhole
<1>9. Carries(proto, wire[q] \o ms, hq, n) /\ Rest(wire[q] \o ms, hq, n) = Rest(wire[q], hq, n) \o ms
  BY ZenonT(40), <1>2, <1>3, <1>4, RestConcat
<1> QED BY <1>7, <1>8, <1>9

\* A step of the introduction that leaves p without a Download to ask for.
LEMMA GreetsShape ==
    ASSUME WireOK, Shape, NEW p \in Peers, NEW e, NEW w, NEW g \in Seq(AllMessages),
           Greets(p, e, w, g, <<>>), Placed(p)', e.st \notin Asking \cup {"RUNNING"}
    PROVE  Shape'
<1> DEFINE q == Other(p)
<1>1. q \in Peers /\ Peers = {p, q} /\ Other(q) = p
  BY OtherPeer
<1>2. <<>> \in Seq(AllMessages)
  BY NoneMute
<1>3. Intro(p)' /\ Intro(q)' /\ Talk(p)' = Talk(p) /\ Talk(q) = <<>> /\ Talk(q)' = <<>>
  BY ZenonT(40), <1>2, GreetsWires
<1>4. end'[p] = e /\ end'[q] = end[q] /\ proto' = proto
  BY DEF Greets, Passes, config
<1>5. Placed(q)' /\ proto' \in {"NMDC", "ADC"}
  BY <1>1, <1>4 DEF Shape, Placed
<1>6. ~Loader(e) /\ ~Loader(end[p])
  BY DEF Loader, Settled, Greets
<1>7. Loader(end[q]) => Dialogue(q)'
  <2> SUFFICES ASSUME Loader(end[q]) PROVE Dialogue(q)'
    OBVIOUS
  <2>1. Dialogue(q)
    BY <1>1 DEF Shape
  <2>2. end[p].st \notin {"GET", "RUNNING"} /\ e.st # "RUNNING"
    BY DEF Settled, Greets
  <2> QED BY <1>1, <1>3, <1>4, <2>1, <2>2 DEF Dialogue, Exchange
<1>8. ~Loader(end[q]) => Talk(p) = <<>> /\ end[q].st # "RUNNING"
  BY <1>1, <1>6 DEF Shape
<1> QED BY <1>1, <1>3, <1>4, <1>5, <1>6, <1>7, <1>8 DEF Shape

\* The last step of the introduction of an end that is to download.
LEMMA AsksShape ==
    ASSUME WireOK, Shape, RolesAgree', NEW p \in Peers, NEW e, NEW w,
           NEW g \in Seq(AllMessages), NEW t \in Seq(AllMessages), Greets(p, e, w, g, t),
           Placed(p)', \/ e.st = "IDLE" /\ t = <<>>
                       \/ e.st = "SND" /\ t = <<<<"GET", e.dl>>>>
    PROVE  Shape'
<1> DEFINE q == Other(p)
<1>1. q \in Peers /\ Peers = {p, q} /\ Other(q) = p
  BY OtherPeer
<1>3. Intro(p)' /\ Intro(q)' /\ Talk(p)' = Talk(p) /\ Talk(q)' = t
  BY ZenonT(40), GreetsWires
<1>4. end'[p] = e /\ end'[q] = end[q] /\ proto' = proto
  BY DEF Greets, Passes, config
<1>5. Placed(q)' /\ proto' \in {"NMDC", "ADC"}
  BY <1>1, <1>4 DEF Shape, Placed
<1>6. ~Loader(end[p]) /\ e.assoc /\ e.dir = "download"
  BY <1>4 DEF Loader, Settled, Placed, Asking, Greets
<1>7. ~Loader(end[q])
  <2>1. Loader(end[q]) => end[q].assoc /\ end[q].dir = "download"
    BY <1>1 DEF Shape, Placed, Loader, Settled
  <2> QED BY <1>1, <1>4, <1>6, <2>1 DEF RolesAgree, Peers, Other
<1>8. Talk(p) = <<>> /\ end[q].st # "RUNNING"
  BY <1>1, <1>6, <1>7 DEF Shape
<1>9. Dialogue(p)' /\ Loader(e)
  BY <1>3, <1>4, <1>8 DEF Dialogue, Exchange, Loader, Asking
<1> QED BY <1>1, <1>3, <1>4, <1>5, <1>7, <1>9 DEF Shape

\* A step of an end that has introduced itself.
LEMMA TalksShape ==
    ASSUME WireOK, Shape, RolesAgree, NEW p \in Peers, NEW e, NEW w, NEW ms \in Seq(AllMessages),
           Passes(p, e, w, ms), w \in Seq(AllMessages), end[p].st \in Settled, Placed(p)',
           e.st \in Settled, Loader(e) <=> Loader(end[p]),
           Loader(end[p]) /\ Talk(p)' = w /\ Talk(Other(p))' = Talk(Other(p)) \o ms => Dialogue(p)',
           ~Loader(end[p]) => Loader(end[Other(p)]),
           ~Loader(end[p]) /\ Talk(p)' = w /\ Talk(Other(p))' = Talk(Other(p)) \o ms => Dialogue(Other(p))'
    PROVE  Shape'
<1> DEFINE q == Other(p)
<1>1. q \in Peers /\ Peers = {p, q} /\ Other(q) = p
  BY OtherPeer
<1>2. Intro(p)' /\ Intro(q)' /\ Talk(p)' = w /\ Talk(q)' = Talk(q) \o ms
  BY ZenonT(40), TalksWires
<1>3. end'[p] = e /\ end'[q] = end[q] /\ proto' = proto
  BY DEF Passes, config
<1>4. Placed(q)' /\ proto' \in {"NMDC", "ADC"}
  BY <1>1, <1>3 DEF Shape, Placed
<1>5. CASE Loader(end[p])
  BY <1>1, <1>2, <1>3, <1>4, <1>5, OneLoader DEF Shape
<1>6. CASE ~Loader(end[p])
  BY <1>1, <1>2, <1>3, <1>4, <1>6 DEF Shape
<1> QED BY <1>5, <1>6

-----------------------------------------------------------------------------
(* Both ends go on only if they went on before.                              *)

\* A message that is on its way stays there until it is taken.
LEMMA ElemsBack ==
    ASSUME NEW S, NEW s \in Seq(S), NEW t \in Seq(S)
    PROVE  /\ Elems(s) \subseteq Elems(s \o t) /\ Elems(t) \subseteq Elems(s \o t)
           /\ s # <<>> => Elems(s) \subseteq Elems(Tail(s)) \cup {Head(s)}
<1>1. /\ DOMAIN s = 1 .. Len(s) /\ DOMAIN t = 1 .. Len(t) /\ Len(s) \in Nat /\ Len(t) \in Nat
      /\ DOMAIN (s \o t) = 1 .. (Len(s) + Len(t))
  OBVIOUS
<1>2. \A i \in 1 .. Len(s) : i \in 1 .. (Len(s) + Len(t)) /\ s[i] = (s \o t)[i]
  BY <1>1
<1>3. \A i \in 1 .. Len(t) : i + Len(s) \in 1 .. (Len(s) + Len(t)) /\ t[i] = (s \o t)[i + Len(s)]
  BY <1>1
<1>4. Elems(s) \subseteq Elems(s \o t) /\ Elems(t) \subseteq Elems(s \o t)
  BY <1>1, <1>2, <1>3 DEF Elems
<1>5. ASSUME s # <<>> PROVE Elems(s) \subseteq Elems(Tail(s)) \cup {Head(s)}
  <2>1. DOMAIN Tail(s) = 1 .. (Len(s) - 1) /\ Head(s) = s[1]
    BY <1>1, <1>5
  <2>2. ASSUME NEW i \in 1 .. Len(s) PROVE i = 1 \/ (i - 1 \in DOMAIN Tail(s) /\ s[i] = Tail(s)[i - 1])
    BY <1>1, <1>5, <2>1
  <2>3. ASSUME NEW i \in DOMAIN s PROVE s[i] \in Elems(Tail(s)) \cup {Head(s)}
    <3>1. CASE i = 1
      BY <2>1, <3>1
    <3>2. CASE i - 1 \in DOMAIN Tail(s) /\ s[i] = Tail(s)[i - 1]
      BY <3>2 DEF Elems
    <3> QED BY <1>1, <2>2, <3>1, <3>2
  <2> QED BY <2>3 DEF Elems
<1> QED BY <1>4, <1>5

\* The connection is put away.
LEMMA PutStops ==
    ASSUME end \in [Peers -> End], NEW p \in Peers, NEW ms, Put(p, ms)
    PROVE  ~Going'
<1>1. end'[p] = Unused(end[p])
  BY DEF Put, Become, Acts
<1>2. Unused(end[p]).sock # "open"
  BY DEF Unused, End
<1> QED BY <1>1, <1>2 DEF Going

\* It is disconnected.
LEMMA DisconnectStops ==
    ASSUME end \in [Peers -> End], NEW p \in Peers, NEW e \in End, NEW ms, NEW o, Disconnect(p, e, ms, o)
    PROVE  ~Going'
<1>1. PICK s \in {"draining", "stopping"} : Become(p, [e EXCEPT !.sock = s], ms, o)
  BY DEF Disconnect
<1>2. end'[p] = [e EXCEPT !.sock = s] /\ [e EXCEPT !.sock = s].sock = s
  BY <1>1 DEF Become, Acts, End
<1> QED BY ZenonT(40), <1>2 DEF Going

\* What p sends reaches the other end, if that one goes on.
LEMMA BecomeWires ==
    ASSUME end \in [Peers -> End], WireOK, NEW p \in Peers, NEW e, NEW ms, NEW o, Become(p, e, ms, o),
           Going'
    PROVE  Passes(p, e, Tail(wire[p]), ms)
<1> DEFINE q == Other(p)
<1>1. q \in Peers /\ q # p
  BY OtherPeer
<1>2. end'[p] = e /\ end'[q] = end[q] /\ UNCHANGED config
  BY <1>1 DEF Become, Acts
<1>3. end[q].sock # "closed"
  BY <1>1, <1>2 DEF Going
<1>4. wire'[p] = Tail(wire[p]) /\ wire'[q] = wire[q] \o ms
  BY <1>1, <1>3 DEF Become, WireOK, Sent
<1> QED BY <1>2, <1>4 DEF Passes

\* An error is sent.
LEMMA ErrorStops ==
    ASSUME end \in [Peers -> End], WireOK, NEW p \in Peers, NEW e, NEW ms \in Seq(AllMessages), NEW o,
           Become(p, e, ms, o), Msg("Error") \in Elems(ms)
    PROVE  ~Going'
<1> SUFFICES ASSUME Going' PROVE FALSE
  OBVIOUS
<1> DEFINE q == Other(p)
<1>1. q \in Peers /\ wire[q] \in Seq(AllMessages)
  BY OtherPeer DEF WireOK
<1>2. wire'[q] = wire[q] \o ms
  BY BecomeWires DEF Passes
<1>3. Msg("Error") \in Elems(wire'[q])
  BY <1>1, <1>2, ElemsBack
<1>4. Refused(q)'
  BY <1>3 DEF Refused, Elems
<1> QED BY <1>1, <1>4 DEF Going

\* A handler that neither fails nor disconnects.
LEMMA GoingBack ==
    ASSUME EndsOK, WireOK, NEW p \in Peers, NEW e, NEW ms \in Seq(AllMessages), NEW o,
           Become(p, e, ms, o), wire[p] # <<>>, Head(wire[p])[1] # "Error",
           e.sock = end[p].sock, e.failing = end[p].failing, Going'
    PROVE  Going /\ ~Checking(p) /\ Passes(p, e, Tail(wire[p]), ms)
<1> DEFINE q == Other(p)
<1>1. q \in Peers /\ q # p /\ Peers = {p, q} /\ wire[p] \in Seq(AllMessages) /\ wire[q] \in Seq(AllMessages)
  BY OtherPeer DEF WireOK
<1>2. Passes(p, e, Tail(wire[p]), ms)
  BY BecomeWires DEF EndsOK
<1>3. end'[p] = e /\ end'[q] = end[q] /\ wire'[p] = Tail(wire[p]) /\ wire'[q] = wire[q] \o ms
  BY <1>2 DEF Passes
<1>4. crossed' = [crossed EXCEPT ![p] = @ \/ Checking(p)]
  BY DEF Become, Acts
<1>5. ~crossed[p] /\ ~crossed[q] /\ ~Checking(p)
  BY ZenonT(40), <1>1, <1>4 DEF Going, EndsOK
<1>6. \A r \in Peers : Refused(r)' <=> Msg("Error") \in Elems(wire'[r])
  BY DEF Refused, Elems
<1>7. \A r \in Peers : Refused(r) <=> Msg("Error") \in Elems(wire[r])
  BY DEF Refused, Elems
<1>8. ~Refused(p)
  <2>1. Head(wire[p]) # Msg("Error")
    BY DEF Msg
  <2>2. Elems(wire[p]) \subseteq Elems(Tail(wire[p])) \cup {Head(wire[p])}
    BY <1>1, ElemsBack
  <2> QED BY <1>1, <1>3, <1>6, <1>7, <2>1, <2>2 DEF Going
<1>9. ~Refused(q)
  <2>1. Elems(wire[q]) \subseteq Elems(wire[q] \o ms)
    BY <1>1, ElemsBack
  <2> QED BY ZenonT(40), <1>1, <1>3, <1>6, <1>7, <2>1 DEF Going
<1> QED BY <1>1, <1>2, <1>3, <1>5, <1>8, <1>9 DEF Going

-----------------------------------------------------------------------------
(* The introduction.                                                         *)

\* What the steps start from.
Before == EndsOK /\ KeptInv /\ RolesInv /\ CommandsInv

\* The types that are behind it.
LEMMA BeforeFacts ==
    ASSUME Before
    PROVE  /\ EndsOK /\ WireOK /\ RolesAgree /\ end \in [Peers -> End] /\ CommandsExpected
           /\ \A p \in Peers : end[p] \in End /\ wire[p] \in Seq(AllMessages)
<1>1. EndsOK /\ WireOK /\ RolesAgree /\ end \in [Peers -> End] /\ CommandsInv
  BY RolesInvAgree DEF Before, EndsOK, RolesInv
<1>2. \A p \in Peers : end[p] \in End /\ wire[p] \in Seq(AllMessages)
  BY <1>1 DEF WireOK
<1> QED BY <1>1, <1>2, ShapeExpected

\* A handler of a command that the end still goes on after: the command was expected.
LEMMA Meant ==
    ASSUME Before, NEW p \in Peers, NEW type \in DOMAIN Awaits, Receives(p, type),
           NEW e, NEW ms \in Seq(AllMessages), NEW o, Become(p, e, ms, o),
           e.sock = end[p].sock, e.failing = end[p].failing, Going'
    PROVE  /\ Going /\ Shape /\ ~Checking(p) /\ Passes(p, e, Tail(wire[p]), ms)
           /\ wire[p] # <<>> /\ Head(wire[p])[1] = type /\ end[p].st = Awaits[type]
<1>1. wire[p] # <<>> /\ Head(wire[p])[1] = type /\ Listening(p)
  BY DEF Receives
<1>2. type # "Error"
  BY DEF Awaits
<1>3. Going /\ ~Checking(p) /\ Passes(p, e, Tail(wire[p]), ms)
  BY <1>1, <1>2, BeforeFacts, GoingBack
<1>4. Shape
  BY <1>3 DEF Before, CommandsInv
<1>5. end[p].st = Awaits[type]
  BY ZenonT(40), <1>1, <1>3, BeforeFacts DEF CommandsExpected, Going
<1> QED BY <1>1, <1>3, <1>4, <1>5

\* No command is dropped.
LEMMA IgnoreStops ==
    ASSUME Before, NEW p \in Peers, NEW type \in DOMAIN Awaits, Receives(p, type), Ignore(p),
           end[p].st # Awaits[type]
    PROVE  ~Going'
<1> SUFFICES ASSUME Going' PROVE FALSE
  OBVIOUS
<1>1. Become(p, end[p], <<>>, out[p]) /\ <<>> \in Seq(AllMessages)
  BY NoneMute DEF Ignore
<1> QED BY ZenonT(40), <1>1, Meant

\* The words that are said, spelt out.
LEMMA Words ==
    ASSUME NEW pr, NEW k \in Nat, NEW m, NEW n
    PROVE  /\ Len(<<>>) = 0 /\ \A i \in 1 .. Len(<<>>) : <<>>[i][1] = Greeting(pr)[k + i]
           /\ Len(<<m>>) = 1
           /\ m[1] = Greeting(pr)[k + 1] => \A i \in 1 .. Len(<<m>>) : <<m>>[i][1] = Greeting(pr)[k + i]
           /\ Len(<<m, n>>) = 2
           /\ m[1] = Greeting(pr)[k + 1] /\ n[1] = Greeting(pr)[k + 2]
                => \A i \in 1 .. Len(<<m, n>>) : <<m, n>>[i][1] = Greeting(pr)[k + i]
<1>1. Len(<<>>) = 0 /\ 1 .. 0 = {}
  OBVIOUS
<1>2. Len(<<m>>) = 1 /\ <<m>>[1] = m /\ 1 .. 1 = {1}
  OBVIOUS
<1>3. Len(<<m, n>>) = 2 /\ <<m, n>>[1] = m /\ <<m, n>>[2] = n /\ 1 .. 2 = {1, 2}
  OBVIOUS
<1> QED BY <1>1, <1>2, <1>3

\* A word of the introduction is heard.
LEMMA HearsGreets ==
    ASSUME WireOK, Shape, NEW p \in Peers, wire[p] # <<>>, end[p].st \notin Settled,
           NEW e, NEW g \in Seq(AllMessages), NEW t \in Seq(AllMessages),
           Passes(p, e, Tail(wire[p]), g \o t),
           Heard(proto, e) = Heard(proto, end[p]) + 1,
           Said(proto, p, e) = Said(proto, p, end[p]) + Len(g),
           \A i \in 1 .. Len(g) : g[i][1] = Greeting(proto)[Said(proto, p, end[p]) + i]
    PROVE  Greets(p, e, Tail(wire[p]), g, t)
<1>1. Heard(proto, end[p]) < Said(proto, Other(p), end[Other(p)])
  BY FirstWord
<1> QED BY <1>1 DEF Greets

\* A handler of the introduction after which p asks for nothing yet.
LEMMA GreetsBecome ==
    ASSUME Before, Going', NEW p \in Peers, NEW type \in DOMAIN Awaits, Receives(p, type),
           NEW e, NEW g \in Seq(AllMessages), NEW o, Become(p, e, g, o),
           e.sock = end[p].sock, e.failing = end[p].failing,
           end[p].st \notin Settled, e.st \notin Asking \cup {"RUNNING"},
           Heard(proto, e) = Heard(proto, end[p]) + 1,
           Said(proto, p, e) = Said(proto, p, end[p]) + Len(g),
           \A i \in 1 .. Len(g) : g[i][1] = Greeting(proto)[Said(proto, p, end[p]) + i],
           end'[p] = e /\ proto' = proto => Placed(p)'
    PROVE  Shape'
<1>1. Shape /\ Passes(p, e, Tail(wire[p]), g) /\ wire[p] # <<>> /\ WireOK
  BY Meant, BeforeFacts
<1>2. g \o <<>> = g /\ <<>> \in Seq(AllMessages)
  BY NoneMute, JoinEmpty
<1>3. Greets(p, e, Tail(wire[p]), g, <<>>)
  BY ZenonT(40), <1>1, <1>2, HearsGreets
<1>4. Placed(p)'
  BY <1>1 DEF Passes, config
<1> QED BY <1>1, <1>3, <1>4, GreetsShape

\* The last handler of the introduction, after which p asks for a Download or idles.
LEMMA AsksBecome ==
    ASSUME Before, RolesAgree', Going', NEW p \in Peers, NEW type \in DOMAIN Awaits, Receives(p, type),
           NEW e, NEW g \in Seq(AllMessages), NEW t \in Seq(AllMessages), NEW o, Become(p, e, g \o t, o),
           e.sock = end[p].sock, e.failing = end[p].failing,
           end[p].st \notin Settled, e.assoc, e.dir = "download",
           \/ e.st = "IDLE" /\ t = <<>>
           \/ e.st = "SND" /\ t = <<<<"GET", e.dl>>>>,
           Length(proto) = Heard(proto, end[p]) + 1,
           Length(proto) = Said(proto, p, end[p]) + Len(g),
           \A i \in 1 .. Len(g) : g[i][1] = Greeting(proto)[Said(proto, p, end[p]) + i]
    PROVE  Shape'
<1>0. g \o t \in Seq(AllMessages)
  BY JoinIs
<1>1. Shape /\ Passes(p, e, Tail(wire[p]), g \o t) /\ wire[p] # <<>> /\ WireOK
  BY ZenonT(40), <1>0, Meant, BeforeFacts
<1>2. Heard(proto, e) = Length(proto) /\ Said(proto, p, e) = Length(proto)
  BY DEF Heard, Said
<1>3. Greets(p, e, Tail(wire[p]), g, t)
  BY ZenonT(40), <1>1, <1>2, HearsGreets
<1>4. Placed(p)'
  <2>1. end'[p] = e
    BY ZenonT(40), <1>1 DEF Passes
  <2> QED BY <2>1 DEF Placed, Settled, Asking
<1> QED BY ZenonT(40), <1>1, <1>3, <1>4, AsksShape

\* $MyNick.
LEMMA MyNickCommands ==
    ASSUME Before, NEW p \in Peers, ProcessMyNick(p), Going'
    PROVE  Shape'
<1>0. "MyNick" \in DOMAIN Awaits /\ Awaits["MyNick"] = "SUPNICK" /\ Receives(p, "MyNick")
  BY DEF Awaits, ProcessMyNick
<1>1. ~Put(p, <<>>) /\ ~(Ignore(p) /\ end[p].st # "SUPNICK")
  BY <1>0, BeforeFacts, PutStops, IgnoreStops
<1> DEFINE ms == IF p = "in" THEN <<Msg("MyNick"), Msg("Lock")>> ELSE <<>>
<1>2. PICK d \in {"download", "upload"} :
             Become(p, [end[p] EXCEPT !.st = "LOCK", !.dir = d], ms, out[p])
  BY Zenon, <1>1 DEF ProcessMyNick
<1> DEFINE e == [end[p] EXCEPT !.st = "LOCK", !.dir = d]
<1>3. /\ e.st = "LOCK" /\ e.sock = end[p].sock /\ e.failing = end[p].failing
      /\ end[p] \in End
  BY BeforeFacts DEF End
<1>4. ms \in Seq(AllMessages)
  <2>1. Msg("MyNick") \in AllMessages /\ Msg("Lock") \in AllMessages
    BY PlainMsg DEF Types
  <2>2. <<Msg("MyNick"), Msg("Lock")>> \in Seq(AllMessages)
    BY ZenonT(40), <2>1, FewElems
  <2> QED BY Zenon, <2>2, NoneMute
<1> HIDE DEF e
<1>5. /\ Shape /\ Passes(p, e, Tail(wire[p]), ms) /\ wire[p] # <<>> /\ Head(wire[p])[1] = "MyNick"
      /\ end[p].st = "SUPNICK"
  <2>1. Become(p, e, ms, out[p])
    BY <1>2 DEF e
  <2> HIDE DEF ms
  <2> QED BY <1>0, <1>3, <1>4, <2>1, Meant
<1>6. end[p].st \notin Settled /\ WireOK
  BY <1>5, BeforeFacts DEF Settled, Asking
<1>7. proto = "NMDC"
  <2>1. Head(wire[p]) \in In(p)
    BY <1>0, <1>6, FirstMessage
  <2> QED BY <1>5, <2>1 DEF Before, RolesInv, Separate
<1>8. Heard(proto, end[p]) = 0 /\ Heard(proto, e) = 1 /\ Said(proto, p, e) = 2
      /\ Said(proto, p, end[p]) = IF p = "in" THEN 0 ELSE 2
  BY <1>3, <1>5, <1>7 DEF Heard, Said
<1>9. /\ Said(proto, p, e) = Said(proto, p, end[p]) + Len(ms)
      /\ \A i \in 1 .. Len(ms) : ms[i][1] = Greeting(proto)[Said(proto, p, end[p]) + i]
  <2>1. CASE p = "in"
    <3>1. ms = <<Msg("MyNick"), Msg("Lock")>> /\ Msg("MyNick")[1] = "MyNick" /\ Msg("Lock")[1] = "Lock"
      BY <2>1 DEF Msg
    <3>2. 0 + 1 = 1 /\ 0 + 2 = 2 /\ 0 \in Nat
      OBVIOUS
    <3> QED BY <1>7, <1>8, <2>1, <3>1, <3>2, Words, GreetingWords
  <2>2. CASE p # "in"
    <3>1. ms = <<>> /\ 2 \in Nat
      BY <2>2
    <3> QED BY <1>8, <2>2, <3>1, Words
  <2> QED BY <2>1, <2>2
<1> HIDE DEF ms
<1>10. Greets(p, e, Tail(wire[p]), ms, <<>>)
  <2>1. ms \o <<>> = ms /\ <<>> \in Seq(AllMessages)
    BY <1>4, NoneMute, JoinEmpty
  <2>2. Heard(proto, e) = Heard(proto, end[p]) + 1
    BY <1>8
  <2> QED BY ZenonT(40), <1>4, <1>5, <1>6, <1>9, <2>1, <2>2, HearsGreets
<1>11. Placed(p)' /\ e.st \notin Asking \cup {"RUNNING"}
  <2>1. end'[p] = e /\ proto' = proto
    BY <1>5 DEF Passes, config
  <2> QED BY <1>3, <1>7, <2>1 DEF Placed, Settled, Asking
<1> QED BY ZenonT(40), <1>4, <1>5, <1>6, <1>10, <1>11, GreetsShape

\* $Lock: the $Direction and the $Key are sent.
LEMMA LockCommands ==
    ASSUME Before, NEW p \in Peers, ProcessLock(p), Going'
    PROVE  Shape'
<1>0. "Lock" \in DOMAIN Awaits /\ Awaits["Lock"] = "LOCK" /\ Receives(p, "Lock")
  BY DEF Awaits, ProcessLock
<1>1. end[p].st = "LOCK"
  BY <1>0, IgnoreStops DEF ProcessLock
<1> DEFINE e == [end[p] EXCEPT !.st = "DIRECTION"]
           m == <<"Direction", end[p].dir, end[p].number>>
<1>2. Become(p, e, <<m, Msg("Key")>>, out[p])
  BY <1>1 DEF ProcessLock
<1>3. e.st = "DIRECTION" /\ e.sock = end[p].sock /\ e.failing = end[p].failing /\ end[p] \in End
  BY BeforeFacts DEF End
<1>4. m \in AllMessages /\ Msg("Key") \in AllMessages
  <2>1. end[p].dir \in {"none", "download", "upload"} /\ end[p].number \in Int
    BY <1>3, BeforeFacts, NumberInt DEF End
  <2>2. m \in {"Direction"} \X {"none", "download", "upload"} \X Int
    BY <2>1
  <2> QED BY <2>2, PlainMsg DEF AllMessages, Types
<1>5. m[1] = "Direction" /\ Msg("Key")[1] = "Key"
  BY DEF Msg
<1> HIDE DEF m, e
<1>6. <<m, Msg("Key")>> \in Seq(AllMessages)
  BY ZenonT(40), <1>4, FewElems
<1>7. proto = "NMDC"
  BY <1>1 DEF Before, RolesInv, Separate
<1>8. Heard(proto, end[p]) = 1 /\ Heard(proto, e) = 2 /\ Said(proto, p, e) = 4 /\ Said(proto, p, end[p]) = 2
  BY <1>1, <1>3, <1>7 DEF Heard, Said, Length
<1>9. /\ Said(proto, p, e) = Said(proto, p, end[p]) + Len(<<m, Msg("Key")>>)
      /\ \A i \in 1 .. Len(<<m, Msg("Key")>>) :
            <<m, Msg("Key")>>[i][1] = Greeting(proto)[Said(proto, p, end[p]) + i]
  <2>1. 2 + 1 = 3 /\ 2 + 2 = 4 /\ 2 \in Nat
    OBVIOUS
  <2> QED BY <1>5, <1>7, <1>8, <2>1, Words, GreetingWords
<1>10. /\ Heard(proto, e) = Heard(proto, end[p]) + 1
       /\ end[p].st \notin Settled /\ e.st \notin Asking \cup {"RUNNING"}
  BY <1>1, <1>3, <1>8 DEF Settled, Asking
<1>11. end'[p] = e /\ proto' = proto => Placed(p)'
  BY <1>3, <1>7 DEF Placed, Settled, Asking
<1> QED BY ZenonT(40), <1>0, <1>2, <1>3, <1>6, <1>9, <1>10, <1>11, GreetsBecome

\* $Direction.
LEMMA DirectionCommands ==
    ASSUME Before, NEW p \in Peers, ProcessDirection(p), Going'
    PROVE  Shape'
<1> DEFINE d == Direction(p, Head(wire[p])[2], Head(wire[p])[3])
           e == [end[p] EXCEPT !.number = 0, !.st = "KEY", !.dir = d]
<1>0. "Direction" \in DOMAIN Awaits /\ Awaits["Direction"] = "DIRECTION" /\ Receives(p, "Direction")
  BY DEF Awaits, ProcessDirection
<1>1. end[p].st = "DIRECTION"
  BY <1>0, IgnoreStops DEF ProcessDirection
<1>2. Become(p, e, <<>>, out[p])
  BY <1>1, BeforeFacts, PutStops DEF ProcessDirection
<1>3. e.st = "KEY" /\ e.sock = end[p].sock /\ e.failing = end[p].failing
  BY BeforeFacts DEF End
<1> HIDE DEF e
<1>7. proto = "NMDC"
  BY <1>1 DEF Before, RolesInv, Separate
<1>8. Heard(proto, end[p]) = 2 /\ Heard(proto, e) = 3 /\ Said(proto, p, e) = 4 /\ Said(proto, p, end[p]) = 4
  BY <1>1, <1>3, <1>7 DEF Heard, Said, Length
<1>9. /\ Said(proto, p, e) = Said(proto, p, end[p]) + Len(<<>>)
      /\ \A i \in 1 .. Len(<<>>) : <<>>[i][1] = Greeting(proto)[Said(proto, p, end[p]) + i]
      /\ <<>> \in Seq(AllMessages)
  BY <1>8, Words, NoneMute
<1>10. /\ Heard(proto, e) = Heard(proto, end[p]) + 1
       /\ end[p].st \notin Settled /\ e.st \notin Asking \cup {"RUNNING"}
  BY <1>1, <1>3, <1>8 DEF Settled, Asking
<1>11. end'[p] = e /\ proto' = proto => Placed(p)'
  BY <1>3, <1>7 DEF Placed, Settled, Asking
<1> QED BY ZenonT(40), <1>0, <1>2, <1>3, <1>9, <1>10, <1>11, GreetsBecome

\* SUP.
LEMMA SupCommands ==
    ASSUME Before, NEW p \in Peers, ProcessSUP(p), Going'
    PROVE  Shape'
<1> DEFINE e == [end[p] EXCEPT !.st = "INF"]
           m == Msg(IF p = "in" THEN "SUP" ELSE "INF")
<1>0. "SUP" \in DOMAIN Awaits /\ Awaits["SUP"] = "SUPNICK" /\ Receives(p, "SUP")
  BY DEF Awaits, ProcessSUP
<1>1. end[p].st = "SUPNICK"
  BY <1>0, IgnoreStops DEF ProcessSUP
<1>2. Become(p, e, <<m>>, out[p])
  BY <1>1 DEF ProcessSUP
<1>3. e.st = "INF" /\ e.sock = end[p].sock /\ e.failing = end[p].failing
  BY BeforeFacts DEF End
<1>4. m \in AllMessages /\ m[1] = IF p = "in" THEN "SUP" ELSE "INF"
  <2>1. (IF p = "in" THEN "SUP" ELSE "INF") \in Types
    BY DEF Types
  <2>2. m[1] = IF p = "in" THEN "SUP" ELSE "INF"
    BY DEF Msg
  <2> QED BY <2>1, <2>2, PlainMsg
<1> HIDE DEF m, e
<1>6. <<m>> \in Seq(AllMessages)
  BY ZenonT(40), <1>4, FewElems
<1>7. proto = "ADC"
  <2>1. Head(wire[p]) \in In(p) /\ Head(wire[p])[1] = "SUP"
    BY <1>0, BeforeFacts, FirstMessage
  <2> QED BY <2>1 DEF Before, RolesInv, Separate
<1>8. /\ Heard(proto, end[p]) = 0 /\ Heard(proto, e) = 1
      /\ p = "in" => Said(proto, p, end[p]) = 0 /\ Said(proto, p, e) = 1
      /\ p # "in" => Said(proto, p, end[p]) = 1 /\ Said(proto, p, e) = 2
  BY <1>1, <1>3, <1>7 DEF Heard, Said
<1>9. /\ Said(proto, p, e) = Said(proto, p, end[p]) + Len(<<m>>)
      /\ \A i \in 1 .. Len(<<m>>) : <<m>>[i][1] = Greeting(proto)[Said(proto, p, end[p]) + i]
  <2>1. 0 + 1 = 1 /\ 1 + 1 = 2 /\ 0 \in Nat /\ 1 \in Nat
    OBVIOUS
  <2> QED BY <1>4, <1>7, <1>8, <2>1, Words, GreetingWords
<1>10. /\ Heard(proto, e) = Heard(proto, end[p]) + 1
       /\ end[p].st \notin Settled /\ e.st \notin Asking \cup {"RUNNING"}
  BY <1>1, <1>3, <1>8 DEF Settled, Asking
<1>11. end'[p] = e /\ proto' = proto => Placed(p)'
  BY <1>3, <1>7 DEF Placed, Settled, Asking
<1> QED BY ZenonT(40), <1>0, <1>2, <1>3, <1>6, <1>9, <1>10, <1>11, GreetsBecome

\* addDownloadConnection, after the words g.
LEMMA AddDownloadCommands ==
    ASSUME Before, RolesAgree', Going', NEW p \in Peers, NEW type \in DOMAIN Awaits, Receives(p, type),
           NEW g \in Seq(AllMessages), AddDownloadConnection(p, g), end[p].st \in {"KEY", "INF"},
           Length(proto) = Heard(proto, end[p]) + 1,
           Length(proto) = Said(proto, p, end[p]) + Len(g),
           \A i \in 1 .. Len(g) : g[i][1] = Greeting(proto)[Said(proto, p, end[p]) + i]
    PROVE  Shape'
<1> DEFINE e == [end[p] EXCEPT !.dir = "download", !.assoc = TRUE]
<1>0. end \in [Peers -> End] /\ end[p] \in End
  BY BeforeFacts
<1>1. e \in End /\ e.assoc /\ e.dir = "download" /\ e.sock = end[p].sock /\ e.failing = end[p].failing
  BY <1>0, ZenonT(40) DEF End
<1>2. end[p].st \notin Settled
  BY DEF Settled, Asking
<1>3. \/ Put(p, g) \/ Disconnect(p, e, g, out[p])
      \/ Disconnect(p, e, Append(g, Msg("Error")), out[p]) \/ CheckDownloads(p, e, g, out[p])
  BY DEF AddDownloadConnection
<1> HIDE DEF e
<1>4. CheckDownloads(p, e, g, out[p])
  BY <1>0, <1>1, <1>3, PutStops, DisconnectStops
<1>5. ASSUME NEW d \in Downloads, NEW o,
             Become(p, [e EXCEPT !.st = "SND", !.dl = d], Append(g, <<"GET", d>>), o)
      PROVE  Shape'
  <2> DEFINE f == [e EXCEPT !.st = "SND", !.dl = d]
             m == <<"GET", d>>
  <2>1. /\ f.st = "SND" /\ f.dl = d /\ f.assoc /\ f.dir = "download"
        /\ f.sock = end[p].sock /\ f.failing = end[p].failing
    BY <1>1 DEF End
  <2>2. m \in AllMessages
    <3>1. "GET" \in Types /\ d \in Downloads \cup {NoDownload}
      BY DEF Types
    <3> QED BY <3>1, PlainMessages
  <2>a. <<m>> = <<<<"GET", f.dl>>>>
    BY <2>1
  <2> HIDE DEF f, m
  <2>3. <<m>> \in Seq(AllMessages)
    BY ZenonT(40), <2>2, FewElems
  <2>4. Append(g, m) = g \o <<m>>
    BY <2>2, AddIsJoin
  <2>5. Become(p, f, g \o <<m>>, o)
    BY ZenonT(40), <1>5, <2>4 DEF f, m
  <2> QED BY ZenonT(40), <1>2, <2>1, <2>3, <2>5, <2>a, AsksBecome
<1>6. CASE Become(p, [e EXCEPT !.st = "IDLE"], g, out[p])
  <2> DEFINE f == [e EXCEPT !.st = "IDLE"]
  <2>1. /\ f.st = "IDLE" /\ f.assoc /\ f.dir = "download"
        /\ f.sock = end[p].sock /\ f.failing = end[p].failing
    BY <1>1 DEF End
  <2> HIDE DEF f
  <2>2. g \o <<>> = g /\ <<>> \in Seq(AllMessages)
    BY NoneMute, JoinEmpty
  <2>3. Become(p, f, g \o <<>>, out[p])
    BY <1>6, <2>2 DEF f
  <2> QED BY ZenonT(40), <1>2, <2>1, <2>2, <2>3, AsksBecome
<1> QED BY ZenonT(40), <1>4, <1>5, <1>6 DEF CheckDownloads

\* addUploadConnection, after the words g.
LEMMA AddUploadCommands ==
    ASSUME Before, Going', NEW p \in Peers, NEW type \in DOMAIN Awaits, Receives(p, type),
           NEW g \in Seq(AllMessages), AddUploadConnection(p, g), end[p].st \in {"KEY", "INF"},
           Length(proto) = Heard(proto, end[p]) + 1,
           Length(proto) = Said(proto, p, end[p]) + Len(g),
           \A i \in 1 .. Len(g) : g[i][1] = Greeting(proto)[Said(proto, p, end[p]) + i]
    PROVE  Shape'
<1> DEFINE e == [end[p] EXCEPT !.dir = "upload", !.assoc = TRUE]
           f == [e EXCEPT !.st = "GET"]
<1>0. end \in [Peers -> End] /\ end[p] \in End /\ WireOK
  BY BeforeFacts
<1>1. /\ f.st = "GET" /\ f.assoc /\ f.dir = "upload" /\ f.sock = end[p].sock
      /\ f.failing = end[p].failing
  <2>1. e \in End /\ e.assoc /\ e.dir = "upload" /\ e.sock = end[p].sock /\ e.failing = end[p].failing
    BY <1>0, ZenonT(40) DEF End
  <2> HIDE DEF e
  <2> QED BY <2>1, SMTT(30) DEF End
<1>2. end[p].st \notin Settled
  BY DEF Settled, Asking
<1>3. \/ Put(p, g) \/ Become(p, e, Append(g, Msg("Error")), out[p]) \/ Become(p, f, g, out[p])
  BY DEF AddUploadConnection
<1> HIDE DEF e, f
<1>4. ~Put(p, g)
  BY <1>0, PutStops
<1>5. ~Become(p, e, Append(g, Msg("Error")), out[p])
  <2>1. Msg("Error") \in AllMessages
    BY PlainMsg DEF Types
  <2>2. Append(g, Msg("Error")) = g \o <<Msg("Error")>> /\ <<Msg("Error")>> \in Seq(AllMessages)
    BY <2>1, AddIsJoin
  <2>3. Elems(<<Msg("Error")>>) \subseteq Elems(g \o <<Msg("Error")>>)
    BY ZenonT(40), <2>2, ElemsBack
  <2>4. Elems(<<Msg("Error")>>) = {Msg("Error")}
    BY ZenonT(40), <2>1, FewElems
  <2>5. Append(g, Msg("Error")) \in Seq(AllMessages) /\ Msg("Error") \in Elems(Append(g, Msg("Error")))
    BY ZenonT(40), <2>1, <2>2, <2>3, <2>4, AddedIs
  <2> QED BY ZenonT(40), <1>0, <2>5, ErrorStops
<1>6. Become(p, f, g, out[p])
  BY <1>3, <1>4, <1>5
<1>7. Heard(proto, f) = Length(proto) /\ Said(proto, p, f) = Length(proto)
  BY <1>1 DEF Heard, Said
<1>8. f.st \notin Asking \cup {"RUNNING"}
  BY <1>1 DEF Asking
<1>9. end'[p] = f /\ proto' = proto => Placed(p)'
  BY <1>1 DEF Placed, Settled, Asking
<1> QED BY ZenonT(40), <1>1, <1>2, <1>6, <1>7, <1>8, <1>9, GreetsBecome

\* $Key.
LEMMA KeyCommands ==
    ASSUME Before, RolesAgree', NEW p \in Peers, ProcessKey(p), Going'
    PROVE  Shape'
<1>0. "Key" \in DOMAIN Awaits /\ Awaits["Key"] = "KEY" /\ Receives(p, "Key")
  BY ZenonT(40) DEF Awaits, ProcessKey
<1>1. end[p].st = "KEY"
  BY <1>0, IgnoreStops DEF ProcessKey
<1>2. ~Become(p, end[p], <<Msg("Error")>>, out[p])
  <2>1. Msg("Error") \in AllMessages
    BY PlainMsg DEF Types
  <2>2. <<Msg("Error")>> \in Seq(AllMessages) /\ Elems(<<Msg("Error")>>) = {Msg("Error")}
    BY ZenonT(40), <2>1, FewElems
  <2>3. Msg("Error") \in Elems(<<Msg("Error")>>)
    BY <2>2
  <2> QED BY ZenonT(40), <2>2, <2>3, BeforeFacts, ErrorStops
<1>3. AddDownloadConnection(p, <<>>) \/ AddUploadConnection(p, <<>>)
  BY <1>1, <1>2 DEF ProcessKey
<1>4. proto = "NMDC"
  BY <1>1 DEF Before, RolesInv, Separate
<1>5. Heard(proto, end[p]) = 3 /\ Said(proto, p, end[p]) = 4 /\ Length(proto) = 4
  BY <1>1, <1>4 DEF Heard, Said, Length
<1>6. /\ Length(proto) = Heard(proto, end[p]) + 1
      /\ Length(proto) = Said(proto, p, end[p]) + Len(<<>>)
      /\ \A i \in 1 .. Len(<<>>) : <<>>[i][1] = Greeting(proto)[Said(proto, p, end[p]) + i]
      /\ <<>> \in Seq(AllMessages) /\ end[p].st \in {"KEY", "INF"}
  BY <1>1, <1>5, Words, NoneMute
<1> QED BY ZenonT(40), <1>0, <1>3, <1>6, AddDownloadCommands, AddUploadCommands

\* INF.
LEMMA InfCommands ==
    ASSUME Before, RolesAgree', NEW p \in Peers, ProcessINF(p), Going'
    PROVE  Shape'
<1> DEFINE g == IF p = "in" THEN <<Msg("INF")>> ELSE <<>>
<1>0. "INF" \in DOMAIN Awaits /\ Receives(p, "INF") /\ end \in [Peers -> End] /\ end[p] \in End
  BY BeforeFacts DEF Awaits, ProcessINF
<1>1. end[p].st = "INF" /\ (AddDownloadConnection(p, g) \/ AddUploadConnection(p, g))
  BY <1>0, PutStops, DisconnectStops DEF ProcessINF
<1>2. proto = "ADC"
  BY <1>1 DEF Before, RolesInv, Separate
<1>3. /\ Heard(proto, end[p]) = 1 /\ Length(proto) = 2
      /\ Said(proto, p, end[p]) = IF p = "in" THEN 1 ELSE 2
  BY <1>1, <1>2 DEF Heard, Said, Length
<1>4. g \in Seq(AllMessages)
  BY Zenon, MuteMsgsOK, NoneMute DEF MuteMsgs
<1>5. /\ Length(proto) = Said(proto, p, end[p]) + Len(g)
      /\ \A i \in 1 .. Len(g) : g[i][1] = Greeting(proto)[Said(proto, p, end[p]) + i]
  <2>1. CASE p = "in"
    <3>1. g = <<Msg("INF")>> /\ Msg("INF")[1] = "INF"
      BY <2>1 DEF Msg
    <3>2. 1 + 1 = 2 /\ 1 \in Nat
      OBVIOUS
    <3> QED BY <1>2, <1>3, <2>1, <3>1, <3>2, Words, GreetingWords
  <2>2. CASE p # "in"
    <3>1. g = <<>> /\ 2 \in Nat
      BY <2>2
    <3> QED BY <1>3, <2>2, <3>1, Words
  <2> QED BY <2>1, <2>2
<1> HIDE DEF g
<1>6. Length(proto) = Heard(proto, end[p]) + 1 /\ end[p].st \in {"KEY", "INF"}
  BY <1>1, <1>3
<1> QED BY ZenonT(40), <1>0, <1>1, <1>4, <1>5, <1>6, AddDownloadCommands, AddUploadCommands

-----------------------------------------------------------------------------
(* Requests and answers.                                                     *)

\* What the end that downloads hears, and what follows.
LEMMA LoaderHears ==
    ASSUME WireOK, Shape, RolesAgree, NEW p \in Peers, Loader(end[p]), wire[p] # <<>>
    PROVE  /\ end[p].st \in Settled /\ Talk(Other(p)) = <<>>
           /\ \/ /\ Head(wire[p])[1] = "SND" /\ Tail(wire[p]) = <<>>
                 /\ end[Other(p)].st = "RUNNING"
              \/ /\ Head(wire[p])[1] = "SND" /\ Tail(wire[p]) = <<Msg("Data")>>
                 /\ end[Other(p)].st = "GET"
              \/ /\ Head(wire[p])[1] \in {"Data", "MaxedOut", "NotAvailable"} /\ Tail(wire[p]) = <<>>
                 /\ end[Other(p)].st = "GET"
<1>1. end[p].st \in Settled
  BY DEF Loader, Settled
<1>2. Talk(p) = wire[p] /\ Dialogue(p)
  BY <1>1, FirstWord DEF Shape
<1>3. \/ /\ wire[p] = <<<<"SND", end[p].dl>>>> /\ Talk(Other(p)) = <<>> /\ end[Other(p)].st = "RUNNING"
      \/ /\ wire[p] = <<<<"SND", end[p].dl>>, Msg("Data")>> /\ Talk(Other(p)) = <<>>
         /\ end[Other(p)].st = "GET"
      \/ /\ wire[p] = <<Msg("Data")>> \/ wire[p] = <<Msg("MaxedOut")>> \/ wire[p] = <<Msg("NotAvailable")>>
         /\ Talk(Other(p)) = <<>> /\ end[Other(p)].st = "GET"
  BY <1>2 DEF Dialogue, Exchange
<1>4. /\ Head(<<<<"SND", end[p].dl>>>>) = <<"SND", end[p].dl>> /\ Tail(<<<<"SND", end[p].dl>>>>) = <<>>
      /\ Head(<<<<"SND", end[p].dl>>, Msg("Data")>>) = <<"SND", end[p].dl>>
      /\ Tail(<<<<"SND", end[p].dl>>, Msg("Data")>>) = <<Msg("Data")>>
      /\ <<"SND", end[p].dl>>[1] = "SND"
  OBVIOUS
<1>5. /\ \A m : Head(<<m>>) = m /\ Tail(<<m>>) = <<>>
      /\ Msg("Data")[1] = "Data" /\ Msg("MaxedOut")[1] = "MaxedOut"
      /\ Msg("NotAvailable")[1] = "NotAvailable"
  BY DEF Msg
<1> QED BY ZenonT(40), <1>1, <1>3, <1>4, <1>5

\* The end that downloads takes an answer.
LEMMA LoaderCommands ==
    ASSUME Before, Going', NEW p \in Peers, NEW type \in DOMAIN Awaits, Receives(p, type),
           Loader(end[p]), NEW e, NEW ms \in Seq(AllMessages), NEW o, Become(p, e, ms, o),
           e.sock = end[p].sock, e.failing = end[p].failing, e.assoc = end[p].assoc, e.dir = end[p].dir,
           \/ type = "SND" /\ e.st = "RUNNING" /\ ms = <<>>
           \/ type \in {"Data", "MaxedOut", "NotAvailable"} /\ e.st \in {"IDLE", "TRY_AGAIN"} /\ ms = <<>>
           \/ /\ type \in {"Data", "MaxedOut", "NotAvailable"} /\ e.st = "SND"
              /\ ms = <<<<"GET", e.dl>>>>
    PROVE  Shape'
<1> DEFINE q == Other(p)
<1>1. /\ Shape /\ Passes(p, e, Tail(wire[p]), ms) /\ wire[p] # <<>> /\ Head(wire[p])[1] = type
      /\ WireOK /\ RolesAgree /\ wire[p] \in Seq(AllMessages)
  BY Meant, BeforeFacts
<1>2. Tail(wire[p]) \in Seq(AllMessages)
  BY ZenonT(40), <1>1, TailElems
<1>3. /\ end[p].st \in Settled /\ Talk(q) = <<>>
      /\ \/ type = "SND" /\ Tail(wire[p]) = <<>> /\ end[q].st = "RUNNING"
         \/ type = "SND" /\ Tail(wire[p]) = <<Msg("Data")>> /\ end[q].st = "GET"
         \/ type # "SND" /\ Tail(wire[p]) = <<>> /\ end[q].st = "GET"
  BY ZenonT(40), <1>1, LoaderHears
<1>4. end[p].assoc /\ end[p].dir = "download"
  BY ZenonT(40), <1>1, <1>3 DEF Shape, Placed, Loader
<1>5. end'[p] = e /\ end'[q] = end[q]
  BY <1>1 DEF Passes
<1>6. e.st \in Settled /\ Loader(e)
  BY <1>4 DEF Settled, Asking, Loader
<1>7. Placed(p)'
  BY ZenonT(40), <1>4, <1>5 DEF Placed, Settled, Asking
<1>8. <<>> \o ms = ms
  BY JoinEmpty
<1>9. Talk(p)' = Tail(wire[p]) /\ Talk(q)' = Talk(q) \o ms => Dialogue(p)'
  BY ZenonT(40), <1>3, <1>5, <1>8 DEF Dialogue, Exchange
<1> QED BY ZenonT(40), <1>1, <1>2, <1>3, <1>6, <1>7, <1>9, TalksShape

\* checkDownloads after an answer.
LEMMA CheckCommands ==
    ASSUME Before, Going', NEW p \in Peers, NEW type \in {"Data", "MaxedOut", "NotAvailable"},
           Receives(p, type), Loader(end[p]), NEW o, CheckDownloads(p, end[p], <<>>, o)
    PROVE  Shape'
<1>0. type \in DOMAIN Awaits /\ end[p] \in End
  BY BeforeFacts DEF Awaits
<1>1. ASSUME NEW d \in Downloads, NEW r,
             Become(p, [end[p] EXCEPT !.st = "SND", !.dl = d], Append(<<>>, <<"GET", d>>), r)
      PROVE  Shape'
  <2> DEFINE f == [end[p] EXCEPT !.st = "SND", !.dl = d]
  <2>1. /\ f.st = "SND" /\ f.dl = d /\ f.assoc = end[p].assoc /\ f.dir = end[p].dir
        /\ f.sock = end[p].sock /\ f.failing = end[p].failing
    BY <1>0 DEF End
  <2>2. <<"GET", d>> \in AllMessages
    <3>1. "GET" \in Types /\ d \in Downloads \cup {NoDownload}
      BY DEF Types
    <3> QED BY <3>1, PlainMessages
  <2>3. Append(<<>>, <<"GET", d>>) = <<<<"GET", d>>>>
    OBVIOUS
  <2>4. <<<<"GET", d>>>> \in Seq(AllMessages)
    BY ZenonT(40), <2>2, FewElems
  <2> HIDE DEF f
  <2>5. Become(p, f, <<<<"GET", f.dl>>>>, r) /\ <<<<"GET", f.dl>>>> \in Seq(AllMessages)
    BY <1>1, <2>1, <2>3, <2>4 DEF f
  <2> QED BY ZenonT(40), <1>0, <2>1, <2>5, LoaderCommands
<1>2. CASE Become(p, [end[p] EXCEPT !.st = "IDLE"], <<>>, o)
  <2> DEFINE f == [end[p] EXCEPT !.st = "IDLE"]
  <2>1. /\ f.st = "IDLE" /\ f.assoc = end[p].assoc /\ f.dir = end[p].dir
        /\ f.sock = end[p].sock /\ f.failing = end[p].failing
    BY <1>0 DEF End
  <2> HIDE DEF f
  <2>2. Become(p, f, <<>>, o) /\ <<>> \in Seq(AllMessages)
    BY <1>2, NoneMute DEF f
  <2>3. f.st \in {"IDLE", "TRY_AGAIN"}
    BY <2>1
  <2> QED BY ZenonT(40), <1>0, <2>1, <2>2, <2>3, LoaderCommands
<1> QED BY ZenonT(40), <1>1, <1>2 DEF CheckDownloads

\* An answer that the end goes on after finds it downloading.
LEMMA AnswerMeant ==
    ASSUME Before, Going', NEW p \in Peers, NEW type \in {"SND", "Data", "MaxedOut", "NotAvailable"},
           Receives(p, type), NEW e, NEW ms \in Seq(AllMessages), NEW o, Become(p, e, ms, o),
           e.sock = end[p].sock, e.failing = end[p].failing
    PROVE  /\ Loader(end[p]) /\ end[p].assoc /\ end[p].dir = "download" /\ end[p].st = Awaits[type]
<1>1. type \in DOMAIN Awaits /\ Awaits[type] \in Settled
  BY DEF Awaits, Settled, Asking
<1>2. /\ Shape /\ wire[p] # <<>> /\ Head(wire[p])[1] = type /\ end[p].st = Awaits[type]
      /\ WireOK /\ RolesAgree
  BY ZenonT(40), <1>1, Meant, BeforeFacts
<1>3. Loader(end[p])
  <2> SUFFICES ASSUME ~Loader(end[p]) PROVE FALSE
    OBVIOUS
  <2>1. wire[p] = <<<<"GET", end[Other(p)].dl>>>>
    BY <1>1, <1>2, DialogueHeads
  <2> DEFINE get == <<"GET", end[Other(p)].dl>>
  <2>2. Head(<<get>>) = get /\ get[1] = "GET"
    OBVIOUS
  <2> HIDE DEF get
  <2>3. Head(wire[p])[1] = "GET"
    BY Zenon, <2>1, <2>2 DEF get
  <2> QED BY Zenon, <1>2, <2>3
<1>4. end[p].assoc /\ end[p].dir = "download"
  BY ZenonT(40), <1>1, <1>2, <1>3 DEF Shape, Placed, Loader
<1> QED BY <1>2, <1>3, <1>4

\* The answers.
LEMMA AnswerCommands ==
    ASSUME Before, Going', NEW p \in Peers,
           ProcessSND(p) \/ OnData(p) \/ MaxedOut(p) \/ FileNotAvailable(p)
    PROVE  Shape'
<1>0. end \in [Peers -> End] /\ end[p] \in End /\ <<>> \in Seq(AllMessages)
  BY BeforeFacts, NoneMute
<1>1. ASSUME NEW ms, NEW o PROVE ~Disconnect(p, end[p], ms, o)
  BY <1>0, DisconnectStops
<1>2. ASSUME NEW type \in {"SND", "Data", "MaxedOut", "NotAvailable"}, Receives(p, type), Ignore(p)
      PROVE  Loader(end[p]) /\ end[p].assoc /\ end[p].dir = "download" /\ end[p].st = Awaits[type]
  <2>1. Become(p, end[p], <<>>, out[p])
    BY <1>2 DEF Ignore
  <2> QED BY ZenonT(40), <1>0, <1>2, <2>1, AnswerMeant
<1>3. /\ "SND" \in DOMAIN Awaits /\ Awaits["SND"] = "SND" /\ Awaits["Data"] = "RUNNING"
      /\ "MaxedOut" \in DOMAIN Awaits /\ Awaits["MaxedOut"] = "SND" /\ Awaits["NotAvailable"] = "SND"
  BY DEF Awaits
<1>4. CASE ProcessSND(p)
  <2> DEFINE e == [end[p] EXCEPT !.st = "RUNNING"]
  <2>1. Receives(p, "SND")
    BY <1>4 DEF ProcessSND
  <2>2. Become(p, e, <<>>, out[p])
    BY <1>1, <1>2, <1>3, <1>4, <2>1 DEF ProcessSND
  <2>3. /\ e.st = "RUNNING" /\ e.sock = end[p].sock /\ e.failing = end[p].failing
        /\ e.assoc = end[p].assoc /\ e.dir = end[p].dir
    BY <1>0 DEF End
  <2> HIDE DEF e
  <2>4. Loader(end[p])
    BY ZenonT(40), <1>0, <2>1, <2>2, <2>3, AnswerMeant
  <2> QED BY ZenonT(40), <1>0, <1>3, <2>1, <2>2, <2>3, <2>4, LoaderCommands
<1>5. CASE OnData(p)
  <2>1. Receives(p, "Data")
    BY <1>5 DEF OnData
  <2>2. CASE end[p].st = "RUNNING" /\ end[p].dir = "download"
    <3>1. CheckDownloads(p, end[p], <<>>, PutBack(p)) /\ Loader(end[p])
      BY <1>1, <1>5, <2>2 DEF OnData, Loader
    <3> QED BY <2>1, <3>1, CheckCommands
  <2>3. CASE ~(end[p].st = "RUNNING" /\ end[p].dir = "download")
    BY ZenonT(40), <1>1, <1>2, <1>3, <1>5, <2>1, <2>3 DEF OnData
  <2> QED BY <2>2, <2>3
<1>6. ASSUME NEW type \in {"MaxedOut", "NotAvailable"}, Receives(p, type), Ignore(p)
      PROVE  ~Unexpected(p)
  BY <1>2, <1>3, <1>6 DEF Unexpected
<1>7. CASE MaxedOut(p)
  <2> DEFINE e == [end[p] EXCEPT !.st = "TRY_AGAIN"]
  <2>1. Receives(p, "MaxedOut")
    BY <1>7 DEF MaxedOut
  <2>2. Become(p, e, <<>>, PutBack(p))
    BY <1>1, <1>6, <1>7, <2>1 DEF MaxedOut
  <2>3. /\ e.st \in {"IDLE", "TRY_AGAIN"} /\ e.sock = end[p].sock /\ e.failing = end[p].failing
        /\ e.assoc = end[p].assoc /\ e.dir = end[p].dir
    BY <1>0 DEF End
  <2> HIDE DEF e
  <2>4. Loader(end[p])
    BY ZenonT(40), <1>0, <2>1, <2>2, <2>3, AnswerMeant
  <2> QED BY ZenonT(40), <1>0, <1>3, <2>1, <2>2, <2>3, <2>4, LoaderCommands
<1>8. CASE FileNotAvailable(p)
  <2>1. Receives(p, "NotAvailable")
    BY <1>8 DEF FileNotAvailable
  <2>2. CheckDownloads(p, end[p], <<>>, PutBack(p))
    BY <1>1, <1>6, <1>8, <2>1 DEF FileNotAvailable
  <2>3. Loader(end[p])
    <3>1. \E e, o : \E ms \in Seq(AllMessages) :
             Become(p, e, ms, o) /\ e.sock = end[p].sock /\ e.failing = end[p].failing
      <4>1. CASE Become(p, [end[p] EXCEPT !.st = "IDLE"], <<>>, PutBack(p))
        <5>1. /\ [end[p] EXCEPT !.st = "IDLE"].sock = end[p].sock
              /\ [end[p] EXCEPT !.st = "IDLE"].failing = end[p].failing
          BY <1>0 DEF End
        <5> QED BY ZenonT(40), <1>0, <4>1, <5>1
      <4>2. ASSUME NEW d \in Downloads, NEW o,
                   Become(p, [end[p] EXCEPT !.st = "SND", !.dl = d], Append(<<>>, <<"GET", d>>), o)
            PROVE  \E e, r : \E ms \in Seq(AllMessages) :
                      Become(p, e, ms, r) /\ e.sock = end[p].sock /\ e.failing = end[p].failing
        <5>1. /\ [end[p] EXCEPT !.st = "SND", !.dl = d].sock = end[p].sock
              /\ [end[p] EXCEPT !.st = "SND", !.dl = d].failing = end[p].failing
          BY <1>0 DEF End
        <5>2. Append(<<>>, <<"GET", d>>) \in Seq(AllMessages)
          <6>1. "GET" \in Types /\ d \in Downloads \cup {NoDownload}
            BY DEF Types
          <6>2. <<"GET", d>> \in AllMessages
            BY <6>1, PlainMessages
          <6> QED BY <1>0, <6>2, AddedIs
        <5> QED BY ZenonT(40), <4>2, <5>1, <5>2
      <4> QED BY ZenonT(40), <2>2, <4>1, <4>2 DEF CheckDownloads
    <3> QED BY <2>1, <3>1, AnswerMeant
  <2> QED BY <2>1, <2>2, <2>3, CheckCommands
<1> QED BY <1>4, <1>5, <1>7, <1>8

\* A step of the end that uploads, by which the request is answered.
LEMMA UploaderShape ==
    ASSUME WireOK, Shape, RolesAgree, NEW p \in Peers, ~Loader(end[p]), Loader(end[Other(p)]),
           Dialogue(Other(p)), end[p].st \in {"GET", "RUNNING"},
           NEW e, NEW w \in Seq(AllMessages), NEW ms \in Seq(AllMessages), Passes(p, e, w, ms),
           e.assoc = end[p].assoc, e.dir = end[p].dir, e.st \in {"GET", "RUNNING"},
           Talk(p)' = w /\ Talk(Other(p))' = Talk(Other(p)) \o ms => Dialogue(Other(p))'
    PROVE  Shape'
<1>1. end[p].st \in Settled /\ e.st \in Settled
  BY DEF Settled
<1>2. end[p].assoc /\ end[p].dir = "upload"
  BY <1>1 DEF Shape, Placed, Loader, Asking
<1>3. ~Loader(e)
  BY <1>2 DEF Loader, Asking
<1>4. Placed(p)'
  <2>1. end'[p] = e
    BY DEF Passes
  <2> QED BY ZenonT(40), <1>2, <2>1 DEF Placed, Settled, Asking
<1> QED BY ZenonT(40), <1>1, <1>3, <1>4, TalksShape

\* What a request is for.
LEMMA GetAnswered ==
    ASSUME WireOK, NEW p \in Peers, Receives(p, "GET")
    PROVE  <<<<"SND", Head(wire[p])[2]>>>> \in Seq(AllMessages)
<1>1. Head(wire[p]) \in AllMessages /\ Head(wire[p])[1] = "GET"
  BY FirstMessage
<1>2. \A x \in {"Direction"} \X {"none", "download", "upload"} \X Int : x[1] = "Direction"
  OBVIOUS
<1>3. Head(wire[p]) \in Types \X (Downloads \cup {NoDownload})
  BY <1>1, <1>2 DEF AllMessages
<1>4. Head(wire[p])[2] \in Downloads \cup {NoDownload} /\ "SND" \in Types
  BY <1>3 DEF Types
<1>5. <<"SND", Head(wire[p])[2]>> \in AllMessages
  BY ZenonT(40), <1>4, PlainMessages
<1> QED BY ZenonT(40), <1>5, FewElems

\* A request.
LEMMA GetCommands ==
    ASSUME Before, Going', NEW p \in Peers, ProcessGET(p)
    PROVE  Shape'
<1> DEFINE q == Other(p)
           dl == end[q].dl
<1>0. /\ end \in [Peers -> End] /\ end[p] \in End /\ WireOK /\ RolesAgree /\ <<>> \in Seq(AllMessages)
      /\ "GET" \in DOMAIN Awaits /\ Awaits["GET"] = "GET" /\ Receives(p, "GET")
  BY BeforeFacts, NoneMute DEF Awaits, ProcessGET
<1>1. q \in Peers /\ Other(q) = p
  BY OtherPeer
<1>2. ~(end[p].st # "GET" /\ Ignore(p))
  BY <1>0, IgnoreStops
<1>3. ASSUME NEW e, NEW ms \in Seq(AllMessages), Become(p, e, ms, out[p]),
             e.sock = end[p].sock, e.failing = end[p].failing,
             e.assoc = end[p].assoc, e.dir = end[p].dir,
             \/ e.st = "RUNNING" /\ ms = <<<<"SND", Head(wire[p])[2]>>>>
             \/ e.st = "GET" /\ ms \in {<<Msg("MaxedOut")>>, <<Msg("NotAvailable")>>}
      PROVE  Shape'
  <2>1. Shape /\ Passes(p, e, Tail(wire[p]), ms) /\ wire[p] # <<>> /\ end[p].st = "GET"
    BY <1>0, <1>3, Meant
  <2>2. end[p].st \in Settled /\ ~Loader(end[p])
    BY <2>1 DEF Settled, Loader, Asking
  <2>3. /\ Loader(end[q]) /\ Dialogue(q) /\ end[q].st = "SND" /\ Talk(q) = <<>>
        /\ wire[p] = <<<<"GET", dl>>>>
    BY ZenonT(40), <1>0, <2>1, <2>2, DialogueHeads
  <2>4. Tail(wire[p]) = <<>> /\ Head(wire[p])[2] = dl
    BY <2>3
  <2>5. <<>> \o ms = ms
    BY <1>3, JoinEmpty
  <2>6. end'[p] = e /\ end'[q] = end[q]
    BY <2>1 DEF Passes
  <2>7. Talk(p)' = Tail(wire[p]) /\ Talk(q)' = Talk(q) \o ms => Dialogue(q)'
    BY ZenonT(40), <1>1, <1>3, <2>3, <2>4, <2>5, <2>6 DEF Dialogue, Exchange
  <2>8. Tail(wire[p]) \in Seq(AllMessages) /\ end[p].st \in {"GET", "RUNNING"} /\ e.st \in {"GET", "RUNNING"}
    BY ZenonT(40), <1>0, <1>3, <2>1, <2>4
  <2> QED BY ZenonT(40), <1>0, <1>3, <2>1, <2>2, <2>3, <2>7, <2>8, UploaderShape
<1>4. CASE Become(p, [end[p] EXCEPT !.st = "RUNNING"], <<<<"SND", Head(wire[p])[2]>>>>, out[p])
  <2> DEFINE e == [end[p] EXCEPT !.st = "RUNNING"]
             ms == <<<<"SND", Head(wire[p])[2]>>>>
  <2>1. /\ e.st = "RUNNING" /\ e.sock = end[p].sock /\ e.failing = end[p].failing
        /\ e.assoc = end[p].assoc /\ e.dir = end[p].dir
    BY <1>0 DEF End
  <2>2. ms \in Seq(AllMessages)
    BY <1>0, GetAnswered
  <2> HIDE DEF e, ms
  <2> QED BY ZenonT(40), <1>3, <1>4, <2>1, <2>2 DEF e, ms
<1>5. ASSUME NEW type \in {"MaxedOut", "NotAvailable", "Error"}, end[p].st = "GET",
             Become(p, end[p], <<Msg(type)>>, out[p])
      PROVE  Shape'
  <2>1. Msg(type) \in AllMessages
    BY PlainMessages DEF Msg, Types
  <2>2. <<Msg(type)>> \in Seq(AllMessages) /\ Elems(<<Msg(type)>>) = {Msg(type)}
    BY ZenonT(40), <2>1, FewElems
  <2>3. type # "Error"
    BY ZenonT(40), <1>0, <1>5, <2>2, ErrorStops
  <2>4. <<Msg(type)>> \in {<<Msg("MaxedOut")>>, <<Msg("NotAvailable")>>}
    BY <2>3
  <2> QED BY ZenonT(40), <1>3, <1>5, <2>2, <2>4
<1>6. {"MaxedOut", "NotAvailable"} \cup (IF proto = "NMDC" THEN {"Error"} ELSE {})
        \subseteq {"MaxedOut", "NotAvailable", "Error"}
  OBVIOUS
<1> QED BY ZenonT(40), <1>2, <1>4, <1>5, <1>6 DEF ProcessGET

-----------------------------------------------------------------------------
(* Steps that take no message.                                               *)

\* p's end becomes e and sends ms.
LEMMA SendsBack ==
    ASSUME EndsOK, WireOK, NEW p \in Peers, NEW e, NEW ms \in Seq(AllMessages),
           end' = [end EXCEPT ![p] = e], UNCHANGED config, \A r \in Peers : crossed[r] => crossed'[r],
           wire' = [wire EXCEPT ![Other(p)] = Sent(Other(p), ms)],
           e.sock = end[p].sock, e.failing = end[p].failing, Going'
    PROVE  Going /\ Passes(p, e, wire[p], ms)
<1> DEFINE q == Other(p)
<1>1. q \in Peers /\ q # p /\ Peers = {p, q} /\ wire[p] \in Seq(AllMessages) /\ wire[q] \in Seq(AllMessages)
  BY OtherPeer DEF WireOK
<1>2. end'[p] = e /\ end'[q] = end[q]
  BY <1>1 DEF EndsOK
<1>3. end[q].sock # "closed"
  BY <1>1, <1>2 DEF Going
<1>4. wire'[p] = wire[p] /\ wire'[q] = wire[q] \o ms
  BY <1>1, <1>3 DEF WireOK, Sent
<1>5. /\ \A r \in Peers : Refused(r)' <=> Msg("Error") \in Elems(wire'[r])
      /\ \A r \in Peers : Refused(r) <=> Msg("Error") \in Elems(wire[r])
  BY DEF Refused, Elems
<1>6. Elems(wire[q]) \subseteq Elems(wire[q] \o ms)
  BY <1>1, ElemsBack
<1>7. ~Refused(p) /\ ~Refused(q)
  BY ZenonT(40), <1>1, <1>4, <1>5, <1>6 DEF Going
<1> QED BY <1>1, <1>2, <1>4, <1>7 DEF Going, Passes

\* The end that opened the connection introduces itself.
LEMMA ConnectedCommands ==
    ASSUME Before, Going', OnConnected
    PROVE  Shape'
<1> DEFINE e == [end["out"] EXCEPT !.st = "SUPNICK"]
           g == IF proto = "NMDC" THEN <<Msg("MyNick"), Msg("Lock")>> ELSE <<Msg("SUP")>>
<1>0. /\ EndsOK /\ WireOK /\ end["out"] \in End /\ "out" \in Peers /\ Other("out") = "in"
      /\ end["out"].st = "CONNECT" /\ crossed \in [Peers -> BOOLEAN]
  BY BeforeFacts DEF OnConnected, Peers, Other, EndsOK
<1>1. e.st = "SUPNICK" /\ e.sock = end["out"].sock /\ e.failing = end["out"].failing
  BY <1>0 DEF End
<1>2. Msg("MyNick") \in AllMessages /\ Msg("Lock") \in AllMessages /\ Msg("SUP") \in AllMessages
  BY PlainMessages DEF Msg, Types
<1>3. g \in Seq(AllMessages)
  BY ZenonT(40), <1>2, FewElems
<1>4. Said(proto, "out", end["out"]) = 0 /\ Heard(proto, end["out"]) = 0 /\ Heard(proto, e) = 0
  BY <1>0, <1>1 DEF Said, Heard
<1>5. /\ Said(proto, "out", e) = Len(g)
      /\ \A i \in 1 .. Len(g) : g[i][1] = Greeting(proto)[0 + i]
  <2>1. CASE proto = "NMDC"
    <3>1. g = <<Msg("MyNick"), Msg("Lock")>>
      BY <2>1
    <3>2. Msg("MyNick")[1] = Greeting(proto)[0 + 1] /\ Msg("Lock")[1] = Greeting(proto)[0 + 2]
      BY <2>1 DEF Msg, Greeting
    <3>3. Said(proto, "out", e) = 2
      BY <1>1, <2>1 DEF Said
    <3> QED BY <3>1, <3>2, <3>3, Words
  <2>2. CASE proto # "NMDC"
    <3>1. g = <<Msg("SUP")>>
      BY <2>2
    <3>2. Msg("SUP")[1] = Greeting(proto)[0 + 1]
      BY <2>2 DEF Msg, Greeting
    <3>3. Said(proto, "out", e) = 1
      BY <1>1, <2>2 DEF Said
    <3> QED BY <3>1, <3>2, <3>3, Words
  <2> QED BY <2>1, <2>2
<1>6. /\ end' = [end EXCEPT !["out"] = e] /\ UNCHANGED config
      /\ wire' = [wire EXCEPT !["in"] = Sent("in", g)] /\ \A r \in Peers : crossed[r] => crossed'[r]
  BY <1>0 DEF OnConnected, Acts
<1> HIDE DEF e, g
<1>7. Going /\ Passes("out", e, wire["out"], g)
  BY ZenonT(40), <1>0, <1>1, <1>3, <1>6, SendsBack
<1>8. Shape
  BY <1>7 DEF Before, CommandsInv
<1>9. g \o <<>> = g /\ Len(g) \in Nat
  BY <1>3, JoinEmpty
<1>10. Greets("out", e, wire["out"], g, <<>>)
  <2>1. end["out"].st \notin Settled
    BY <1>0 DEF Settled, Asking
  <2> QED BY <1>4, <1>5, <1>7, <1>9, <2>1 DEF Greets
<1>11. Placed("out")' /\ e.st \notin Asking \cup {"RUNNING"}
  <2>1. end'["out"] = e
    BY <1>7 DEF Passes
  <2> QED BY <1>1, <2>1 DEF Placed, Settled, Asking
<1> QED BY ZenonT(40), <1>0, <1>3, <1>8, <1>10, <1>11, GreetsShape

\* A message is sent after another one, or alone.
LEMMA PairConcat ==
    ASSUME NEW a, NEW b
    PROVE  <<>> \o <<b>> = <<b>> /\ <<a>> \o <<b>> = <<a, b>>
<1>1. <<a>> \in Seq({a, b}) /\ <<b>> \in Seq({a, b}) /\ <<>> \in Seq({a, b}) /\ b \in {a, b}
  OBVIOUS
<1>2. Append(<<a>>, b) = <<a>> \o <<b>> /\ Append(<<a>>, b) = <<a, b>>
  <2> DEFINE s == Append(<<a>>, b)
             t == <<a, b>>
  <2>1. s \in Seq({a, b}) /\ Len(s) = 2 /\ s[1] = a /\ s[2] = b
    BY <1>1, AddedIs
  <2>2. t \in Seq({a, b}) /\ Len(t) = 2 /\ t[1] = a /\ t[2] = b
    OBVIOUS
  <2> HIDE DEF s, t
  <2>3. \A i \in 1 .. Len(s) : s[i] = t[i]
    BY <2>1, <2>2
  <2>4. s = t
    BY <2>1, <2>2, <2>3, SameSeq
  <2> QED BY <1>1, <2>4, AddIsJoin DEF s, t
<1> QED BY ZenonT(40), <1>1, <1>2, JoinEmpty

\* A segment has been written.
LEMMA TransmitCommands ==
    ASSUME Before, Going', NEW p \in Peers, TransmitDone(p)
    PROVE  Shape'
<1> DEFINE q == Other(p)
           e == [end[p] EXCEPT !.st = "GET"]
           ms == <<Msg("Data")>>
<1>0. /\ EndsOK /\ WireOK /\ RolesAgree /\ end[p] \in End /\ crossed \in [Peers -> BOOLEAN]
      /\ end[p].st = "RUNNING" /\ end[p].dir = "upload"
  BY BeforeFacts DEF TransmitDone, EndsOK
<1>1. q \in Peers /\ Other(q) = p /\ Peers = {p, q}
  BY OtherPeer
<1>2. /\ e.st = "GET" /\ e.sock = end[p].sock /\ e.failing = end[p].failing
      /\ e.assoc = end[p].assoc /\ e.dir = end[p].dir
  BY <1>0 DEF End
<1>3. Msg("Data") \in AllMessages
  BY PlainMessages DEF Msg, Types
<1>4. ms \in Seq(AllMessages)
  BY ZenonT(40), <1>3, FewElems
<1>5. /\ end' = [end EXCEPT ![p] = e] /\ UNCHANGED config
      /\ wire' = [wire EXCEPT ![q] = Sent(q, ms)] /\ \A r \in Peers : crossed[r] => crossed'[r]
  BY <1>0 DEF TransmitDone, Acts
<1> HIDE DEF e, ms
<1>6. Going /\ Passes(p, e, wire[p], ms)
  BY ZenonT(40), <1>0, <1>2, <1>4, <1>5, SendsBack
<1>7. Shape /\ wire[p] \in Seq(AllMessages)
  BY <1>0, <1>6 DEF Before, CommandsInv, WireOK
<1>8. ~Loader(end[p]) /\ end[p].st \in Settled /\ e.st \in Settled
  BY <1>0, <1>2 DEF Loader, Settled, Asking
<1>9. Loader(end[q]) /\ Dialogue(q)
  BY <1>0, <1>1, <1>7, <1>8 DEF Shape
<1>10. Talk(p) = wire[p]
  BY ZenonT(40), <1>0, <1>4, <1>6, <1>7, <1>8, TalksWires
<1>11. end'[p] = e /\ end'[q] = end[q]
  BY <1>6 DEF Passes
<1>12. <<>> \o ms = <<Msg("Data")>> /\ <<<<"SND", end[q].dl>>>> \o ms = <<<<"SND", end[q].dl>>, Msg("Data")>>
  BY ZenonT(40), PairConcat DEF ms
<1>13. Talk(p)' = wire[p] /\ Talk(q)' = Talk(q) \o ms => Dialogue(q)'
  BY ZenonT(40), <1>0, <1>1, <1>2, <1>9, <1>10, <1>11, <1>12 DEF Dialogue, Exchange
<1>14. end[p].st \in {"GET", "RUNNING"} /\ e.st \in {"GET", "RUNNING"}
  BY <1>0, <1>2
<1> QED BY ZenonT(40), <1>0, <1>2, <1>4, <1>6, <1>7, <1>8, <1>9, <1>13, <1>14, UploaderShape

\* The end that downloads has nothing to ask for, and may have now.
LEMMA IdlerShape ==
    ASSUME WireOK, Shape, RolesAgree, NEW p \in Peers, end[p].st \in {"IDLE", "TRY_AGAIN"},
           NEW e, NEW ms \in Seq(AllMessages), Passes(p, e, wire[p], ms),
           e.assoc = end[p].assoc, e.dir = end[p].dir,
           \/ e.st \in {"IDLE", "TRY_AGAIN"} /\ ms = <<>>
           \/ e.st = "SND" /\ ms = <<<<"GET", e.dl>>>>
    PROVE  Shape'
<1> DEFINE q == Other(p)
<1>1. /\ end[p].st \in Settled /\ Loader(end[p]) /\ e.st \in Settled /\ Loader(e)
      /\ wire[p] \in Seq(AllMessages)
  BY DEF Settled, Loader, Asking, WireOK
<1>2. Dialogue(p) /\ end[p].assoc /\ end[p].dir = "download"
  BY <1>1 DEF Shape, Placed, Asking, Settled
<1>3. Talk(p) = wire[p]
  BY ZenonT(40), <1>1, TalksWires
<1>4. wire[p] = <<>> /\ Talk(q) = <<>> /\ end[q].st # "RUNNING"
  BY ZenonT(40), <1>2, <1>3 DEF Dialogue, Exchange
<1>5. end'[p] = e /\ end'[q] = end[q]
  BY DEF Passes
<1>6. Placed(p)'
  BY ZenonT(40), <1>2, <1>5 DEF Placed, Settled, Asking
<1>7. <<>> \o ms = ms
  BY JoinEmpty
<1>8. Talk(p)' = wire[p] /\ Talk(q)' = Talk(q) \o ms => Dialogue(p)'
  BY ZenonT(40), <1>4, <1>5, <1>7 DEF Dialogue, Exchange
<1> QED BY ZenonT(40), <1>1, <1>6, <1>8, TalksShape

\* Nothing is sent.
LEMMA SilentSent ==
    ASSUME WireOK, NEW q \in Peers, end[q].sock # "closed"
    PROVE  wire = [wire EXCEPT ![q] = Sent(q, <<>>)]
<1>1. Sent(q, <<>>) = wire[q]
  BY JoinEmpty DEF Sent, WireOK
<1> QED BY <1>1 DEF WireOK

\* The checks of the timer and of the thread that queues something.
LEMMA CheckerCommands ==
    ASSUME Before, Going', NEW p \in Peers, NEW t \in Checkers, GetDownload(p, t) \/ Request(p, t)
    PROVE  Shape'
<1> DEFINE q == Other(p)
<1>0. /\ EndsOK /\ WireOK /\ RolesAgree /\ end \in [Peers -> End] /\ end[p] \in End
      /\ UNCHANGED config /\ UNCHANGED crossed /\ <<>> \in Seq(AllMessages) /\ q \in Peers /\ q # p
  BY BeforeFacts, NoneMute, OtherPeer DEF GetDownload, Request
<1>1. Checking(p) /\ ~crossed[p]
  BY <1>0 DEF Checking, GetDownload, Request, Going
<1>2. PICK u \in Checkers : CheckOK(end[p], out[p], check[p], u)
  BY ZenonT(40), <1>1 DEF Before, KeptInv
<1>3. u = t
  BY <1>2 DEF CheckOK, GetDownload, Request
<1>4. end[p].st \in {"IDLE", "TRY_AGAIN"} /\ (check[p][t].pc = "got" => check[p][t].dl = end[p].dl)
  BY <1>2, <1>3 DEF CheckOK
<1>5. ASSUME NEW e, NEW ms \in Seq(AllMessages), end' = [end EXCEPT ![p] = e],
             end[q].sock # "closed" => wire' = [wire EXCEPT ![q] = Sent(q, ms)],
             e.sock = end[p].sock, e.failing = end[p].failing,
             e.assoc = end[p].assoc, e.dir = end[p].dir,
             \/ e.st \in {"IDLE", "TRY_AGAIN"} /\ ms = <<>>
             \/ e.st = "SND" /\ ms = <<<<"GET", e.dl>>>>
      PROVE  Shape'
  <2>1. end'[q] = end[q]
    BY <1>0, <1>5
  <2>2. wire' = [wire EXCEPT ![q] = Sent(q, ms)]
    BY <1>0, <1>5, <2>1 DEF Going
  <2>3. \A r \in Peers : crossed[r] => crossed'[r]
    BY <1>0
  <2>4. Going /\ Passes(p, e, wire[p], ms)
    BY ZenonT(40), <1>0, <1>5, <2>2, <2>3, SendsBack
  <2>5. Shape
    BY <2>4 DEF Before, CommandsInv
  <2> QED BY ZenonT(40), <1>0, <1>4, <1>5, <2>4, <2>5, IdlerShape
<1>6. ASSUME UNCHANGED wire, end[q].sock # "closed"
      PROVE  wire' = [wire EXCEPT ![q] = Sent(q, <<>>)]
  BY <1>0, <1>6, SilentSent
<1>7. ASSUME NEW d \in Downloads, end' = [end EXCEPT ![p].dl = d], UNCHANGED wire
      PROVE  Shape'
  <2> DEFINE e == [end[p] EXCEPT !.dl = d]
  <2>1. /\ e.st = end[p].st /\ e.sock = end[p].sock /\ e.failing = end[p].failing
        /\ e.assoc = end[p].assoc /\ e.dir = end[p].dir
    BY <1>0 DEF End
  <2>2. end' = [end EXCEPT ![p] = e]
    BY <1>7
  <2> HIDE DEF e
  <2>3. e.st \in {"IDLE", "TRY_AGAIN"}
    BY <1>4, <2>1
  <2> QED BY ZenonT(40), <1>0, <1>5, <1>6, <1>7, <2>1, <2>2, <2>3
<1>8. ASSUME UNCHANGED <<end, wire>> PROVE Shape'
  <2>1. end' = [end EXCEPT ![p] = end[p]]
    BY <1>0, <1>8
  <2> QED BY ZenonT(40), <1>0, <1>4, <1>5, <1>6, <1>8, <2>1
<1>9. ASSUME end' = [end EXCEPT ![p].st = "IDLE"], UNCHANGED wire PROVE Shape'
  <2> DEFINE e == [end[p] EXCEPT !.st = "IDLE"]
  <2>1. /\ e.st = "IDLE" /\ e.sock = end[p].sock /\ e.failing = end[p].failing
        /\ e.assoc = end[p].assoc /\ e.dir = end[p].dir
    BY <1>0 DEF End
  <2>2. end' = [end EXCEPT ![p] = e]
    BY <1>9
  <2> HIDE DEF e
  <2>3. e.st \in {"IDLE", "TRY_AGAIN"}
    BY <2>1
  <2> QED BY ZenonT(40), <1>0, <1>5, <1>6, <1>9, <2>1, <2>2, <2>3
<1>10. ASSUME check[p][t].pc = "got", end' = [end EXCEPT ![p].st = "SND"],
              wire' = [wire EXCEPT ![q] =
                         IF end[p].sock = "closed" THEN @ ELSE Sent(q, <<<<"GET", check[p][t].dl>>>>)]
       PROVE  Shape'
  <2> DEFINE e == [end[p] EXCEPT !.st = "SND"]
             ms == <<<<"GET", e.dl>>>>
  <2>1. /\ e.st = "SND" /\ e.sock = end[p].sock /\ e.failing = end[p].failing
        /\ e.assoc = end[p].assoc /\ e.dir = end[p].dir /\ e.dl = check[p][t].dl
        /\ e.dl \in Downloads \cup {NoDownload} /\ "GET" \in Types
    BY <1>0, <1>4, <1>10 DEF End, Types
  <2>2. end' = [end EXCEPT ![p] = e]
    BY <1>10
  <2> HIDE DEF e
  <2>3. end'[p] = e
    BY <1>0, <2>2
  <2>4. end[p].sock # "closed"
    BY <2>1, <2>3 DEF Going
  <2>5. <<"GET", e.dl>> \in AllMessages
    BY ZenonT(40), <2>1, PlainMessages
  <2>6. ms \in Seq(AllMessages)
    BY ZenonT(40), <2>5, FewElems
  <2>7. wire' = [wire EXCEPT ![q] = Sent(q, ms)]
    BY <1>10, <2>1, <2>4
  <2> QED BY ZenonT(40), <1>5, <2>1, <2>2, <2>6, <2>7
<1> QED BY <1>7, <1>8, <1>9, <1>10 DEF GetDownload, Request

\* What leaves the states and the messages alone.
LEMMA StillShape ==
    ASSUME Before, Going', UNCHANGED <<config, end, wire>>, \A r \in Peers : crossed[r] => crossed'[r]
    PROVE  Shape'
<1>1. Going
  BY DEF Going, Refused
<1>2. Shape
  BY <1>1 DEF Before, CommandsInv
<1>3. UNCHANGED <<proto, end, wire>>
  BY DEF config
<1>4. ASSUME NEW p \in Peers PROVE (Placed(p)' <=> Placed(p)) /\ (Intro(p)' <=> Intro(p)) /\ Talk(p)' = Talk(p)
  BY ZenonT(40), <1>3 DEF Placed, Intro, Talk
<1>5. ASSUME NEW p \in Peers, Dialogue(p) PROVE Dialogue(p)'
  <2>1. Talk(p)' = Talk(p) /\ Talk(Other(p))' = Talk(Other(p))
    BY <1>4, OtherPeer
  <2>2. end'[p] = end[p] /\ end'[Other(p)] = end[Other(p)]
    BY <1>3
  <2> QED BY <1>5, <2>1, <2>2 DEF Dialogue
<1> QED BY <1>2, <1>3, <1>4, <1>5 DEF Shape

\* What ends the connection.
LEMMA EndStops ==
    ASSUME end \in [Peers -> End], NEW p \in Peers,
           \/ ProtocolError(p) \/ PutConnection(p) \/ Stop(p) \/ RemoteClosed(p) \/ Break(p)
           \/ Drain(p) \/ DisconnectAtOnce(p)
    PROVE  ~Going'
<1>0. end[p] \in End
  OBVIOUS
<1>1. CASE ProtocolError(p)
  <2>1. end'[p] = [end[p] EXCEPT !.failing = TRUE]
    BY <1>1 DEF ProtocolError, Become, Acts
  <2>2. [end[p] EXCEPT !.failing = TRUE].failing
    BY <1>0 DEF End
  <2> QED BY ZenonT(40), <2>1, <2>2 DEF Going
<1>2. CASE PutConnection(p)
  <2>1. end'[p] = Unused(end[p])
    BY <1>2 DEF PutConnection, Acts
  <2>2. Unused(end[p]).sock # "open"
    BY <1>0 DEF Unused, End
  <2> QED BY <2>1, <2>2 DEF Going
<1>3. CASE OnFailed(p)
  <2>1. \/ end'[p] = [end[p] EXCEPT !.sock = "closed"]
        \/ end'[p] = [end[p] EXCEPT !.sock = "closed", !.st = "UNCONNECTED", !.failing = TRUE]
    BY <1>3 DEF OnFailed, Acts
  <2>2. /\ [end[p] EXCEPT !.sock = "closed"].sock = "closed"
        /\ [end[p] EXCEPT !.sock = "closed", !.st = "UNCONNECTED", !.failing = TRUE].sock = "closed"
    BY <1>0 DEF End
  <2> QED BY ZenonT(40), <2>1, <2>2 DEF Going
<1>4. CASE end' = [end EXCEPT ![p].sock = "stopping"]
  <2>1. end'[p] = [end[p] EXCEPT !.sock = "stopping"]
    BY <1>4
  <2>2. [end[p] EXCEPT !.sock = "stopping"].sock = "stopping"
    BY <1>0 DEF End
  <2> QED BY ZenonT(40), <2>1, <2>2 DEF Going
<1> QED BY <1>1, <1>2, <1>3, <1>4 DEF Stop, RemoteClosed, Break, Drain, DisconnectAtOnce

\* An end that still goes on is not erased.
LEMMA EraseStops ==
    ASSUME Before, NEW p \in Peers, Erase(p)
    PROVE  ~Going'
<1> SUFFICES ASSUME Going' PROVE FALSE
  OBVIOUS
<1> DEFINE f == [end[p] EXCEPT !.listed = FALSE]
<1>0. end \in [Peers -> End] /\ end[p] \in End /\ UNCHANGED <<wire, crossed>> /\ end[p].st = "UNUSED"
  BY BeforeFacts DEF Erase
<1>1. f.sock = end[p].sock /\ f.failing = end[p].failing
  BY <1>0 DEF End
<1>2. end' = [end EXCEPT ![p] = f]
  BY DEF Erase
<1> HIDE DEF f
<1>3. ASSUME NEW r \in Peers PROVE end'[r].sock = end[r].sock /\ end'[r].failing = end[r].failing
  BY <1>0, <1>1, <1>2
<1>4. Going
  BY <1>0, <1>3 DEF Going, Refused
<1>5. Placed(p)
  BY <1>4 DEF Before, CommandsInv, Shape
<1> QED BY <1>0, <1>5 DEF Placed, Settled, Asking

-----------------------------------------------------------------------------
\* Nothing has been said in the beginning.
LEMMA InitCommands == Init => CommandsInv
<1> SUFFICES ASSUME Init PROVE Shape
  BY DEF CommandsInv
<1>1. /\ proto \in {"NMDC", "ADC"} /\ wire = [p \in Peers |-> <<>>]
      /\ \A p \in Peers : end[p].st = IF p = "in" THEN "SUPNICK" ELSE "CONNECT"
  BY DEF Init, Peers
<1>2. ASSUME NEW p \in Peers PROVE /\ Heard(proto, end[p]) = 0 /\ Said(proto, p, end[p]) = 0
                                   /\ Placed(p) /\ ~Loader(end[p]) /\ end[p].st # "RUNNING"
  BY <1>1 DEF Heard, Said, Placed, Loader, Settled, Asking
<1>3. ASSUME NEW p \in Peers PROVE Intro(p) /\ Talk(p) = <<>>
  <2>1. /\ wire[p] = <<>> /\ Heard(proto, end[p]) = 0
        /\ Said(proto, Other(p), end[Other(p)]) = 0
    BY <1>1, <1>2, OtherPeer
  <2>2. Carries(proto, <<>>, 0, 0) /\ Rest(<<>>, 0, 0) = <<>>
    BY DEF Carries, Rest
  <2> QED BY <2>1, <2>2 DEF Intro, Talk
<1> QED BY <1>1, <1>2, <1>3 DEF Shape

\* Every step keeps the conversation in order.
LEMMA NextCommands == Before /\ RolesAgree' /\ [Next]_vars => CommandsInv'
<1> SUFFICES ASSUME Before, RolesAgree', [Next]_vars, Going' PROVE Shape'
  BY DEF CommandsInv
<1>0. end \in [Peers -> End] /\ crossed \in [Peers -> BOOLEAN]
  BY BeforeFacts DEF EndsOK
<1>1. CASE UNCHANGED vars
  BY <1>1, StillShape DEF vars
<1>2. ASSUME NEW p \in Peers, Handle(p) PROVE Shape'
  BY <1>0, <1>2, MyNickCommands, LockCommands, DirectionCommands, KeyCommands, SupCommands, InfCommands,
     GetCommands, AnswerCommands, EndStops DEF Handle
<1>3. ASSUME NEW p \in Peers, Socket(p) PROVE Shape'
  BY <1>0, <1>2, <1>3, ConnectedCommands, TransmitCommands, EndStops DEF Socket
<1>4. ASSUME NEW p \in Peers, NEW t \in Checkers, Look(p, t) PROVE Shape'
  <2>1. \A r \in Peers : crossed[r] => crossed'[r]
    BY <1>0, <1>4 DEF Look
  <2> QED BY <1>4, <2>1, StillShape DEF Look
<1>5. CASE Next
  BY <1>0, <1>3, <1>4, <1>5, CheckerCommands, EraseStops, EndStops DEF Next
<1> QED BY <1>1, <1>5

\* As long as both ends go on, and no end's calls of checkDownloads overlap, every
\* command finds the state that checkState wants, and an answer is to the Download
\* that the connection has.
THEOREM CommandsExpectedAlways == Spec => []CommandsExpected
<1>1. EndsOK /\ KeptInv /\ RolesInv /\ CommandsInv => CommandsExpected
  BY BeforeFacts DEF Before
<1>2. EndsOK /\ KeptInv /\ RolesInv /\ CommandsInv /\ RolesInv' /\ [Next]_vars => CommandsInv'
  <2>1. RolesInv' => RolesAgree'
    BY RolesInvAgree, PTL
  <2> QED BY <2>1, NextCommands DEF Before
<1> QED BY <1>1, <1>2, InitCommands, InitRoles, NextRoles, KeptInvAlways, PTL DEF Spec

=============================================================================
