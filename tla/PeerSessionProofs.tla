------------------------- MODULE PeerSessionProofs -------------------------
(***************************************************************************)
(* No Download is lost with a connection, however many Downloads there are. *)
(***************************************************************************)
EXTENDS PeerSession, TLAPS

\* The types that the argument needs; what is on the wire does not matter to it.
EndsOK ==
    /\ end \in [Peers -> End]
    /\ out \in [Peers -> SUBSET Downloads]
    /\ check \in [Peers -> [Checkers -> Places]]
    /\ crossed \in [Peers -> BOOLEAN]

Downloading(e) == e.assoc /\ e.dir = "download"

\* An end that is e and has the Downloads in o.  A Download is handed out only while
\* it is asked for or comes in.
EndOK(e, o) ==
    /\ e.st \in {"SND", "IDLE", "TRY_AGAIN"} => Downloading(e)
    /\ e.st = "RUNNING" /\ e.dir = "download" => e.assoc
    /\ e.st = "GET" => e.dir = "upload"
    /\ o \subseteq {e.dl}
    /\ o # {} => e.st \in {"SND", "RUNNING"} /\ Downloading(e) /\ ~e.failing

\* Thread t is in checkDownloads, and no other: the Download that it has got is the
\* connection's.
CheckOK(e, o, c, t) ==
    /\ c[t].pc \in {"looked", "got", "none"}
    /\ \A u \in Checkers \ {t} : c[u].pc \in {"off", "done"}
    /\ e.st \in {"IDLE", "TRY_AGAIN"} /\ Downloading(e) /\ ~e.failing
    /\ o \subseteq {e.dl}
    /\ c[t].pc # "got" => o = {}
    /\ c[t].pc = "got" => c[t].dl = e.dl

KeptInv ==
    \A p \in Peers :
       \/ crossed[p]
       \/ ~Checking(p) /\ EndOK(end[p], out[p])
       \/ \E t \in Checkers : CheckOK(end[p], out[p], check[p], t)

-----------------------------------------------------------------------------
\* The ends keep their types, and KeptInv is an invariant.
LEMMA KeptInvAlways == Spec => [](EndsOK /\ KeptInv)
\* A step of p's socket thread leaves the other end alone, and p's end is as it
\* should be afterwards if it was before.
<1>ActsKeeps.
    ASSUME EndsOK, KeptInv, NEW p \in Peers, NEW e \in End, NEW o \in SUBSET Downloads,
           Acts(p, e, o), ~Checking(p) /\ EndOK(end[p], out[p]) => EndOK(e, o)
    PROVE  EndsOK' /\ KeptInv'
  <2> USE <1>ActsKeeps
  <2>1. EndsOK'
    BY DEF Acts, EndsOK, Peers
  <2>2. ASSUME NEW q \in Peers, q # p
        PROVE  end'[q] = end[q] /\ out'[q] = out[q] /\ check'[q] = check[q] /\ crossed'[q] = crossed[q]
    BY <2>2 DEF Acts, EndsOK
  <2>3. /\ end'[p] = e /\ out'[p] = o /\ check'[p] = check[p]
        /\ crossed'[p] = (crossed[p] \/ Checking(p))
    BY DEF Acts, EndsOK
  <2>4. ASSUME NEW q \in Peers, q # p
        PROVE  \/ crossed'[q]
               \/ ~Checking(q)' /\ EndOK(end'[q], out'[q])
               \/ \E t \in Checkers : CheckOK(end'[q], out'[q], check'[q], t)
    BY <2>2, <2>4 DEF KeptInv, Checking
  <2>5. \/ crossed'[p]
        \/ ~Checking(p)' /\ EndOK(end'[p], out'[p])
    <3>1. CASE crossed[p] \/ Checking(p)
      BY <2>3, <3>1
    <3>2. CASE ~crossed[p] /\ ~Checking(p)
      <4>1. \A t \in Checkers : ~CheckOK(end[p], out[p], check[p], t)
        BY <3>2 DEF CheckOK, Checking
      <4> QED BY <2>3, <3>2, <4>1 DEF KeptInv, Checking
    <3> QED BY <3>1, <3>2
  <2> QED BY <2>1, <2>4, <2>5 DEF KeptInv

\* The same for a handler.
<1>BecomeKeeps.
    ASSUME EndsOK, KeptInv, NEW p \in Peers, NEW e \in End, NEW o \in SUBSET Downloads, NEW ms,
           Become(p, e, ms, o), ~Checking(p) /\ EndOK(end[p], out[p]) => EndOK(e, o)
    PROVE  EndsOK' /\ KeptInv'
  BY <1>BecomeKeeps, <1>ActsKeeps DEF Become

\* What putDownload leaves.
<1>PutBackOK.
    ASSUME EndsOK, NEW p \in Peers
    PROVE  /\ PutBack(p) \in SUBSET Downloads /\ FailDownload(p) \in SUBSET Downloads
           /\ EndOK(end[p], out[p]) => PutBack(p) = {} /\ FailDownload(p) = {}
  BY <1>PutBackOK DEF EndsOK, EndOK, PutBack, FailDownload, Downloading

\* A command that checkState drops.
<1>IgnoreKeeps.
    ASSUME EndsOK, KeptInv, NEW p \in Peers, Ignore(p)
    PROVE  EndsOK' /\ KeptInv'
  BY <1>IgnoreKeeps, <1>BecomeKeeps DEF Ignore, EndsOK

\* What putConnection leaves of an end.
<1>UnusedType.
    ASSUME NEW e \in End
    PROVE  /\ Unused(e) \in End
           /\ Unused(e).st = "UNUSED" /\ ~Unused(e).failing /\ Unused(e).dl = NoDownload
  <2> USE <1>UnusedType
  <2> DEFINE s == IF e.sock = "closed" THEN e.sock ELSE "stopping"
             f == [e EXCEPT !.number = 0, !.st = "UNUSED", !.dl = NoDownload, !.failing = FALSE,
                            !.sock = s]
  <2>1. s \in {"open", "draining", "stopping", "closed"}
    OBVIOUS
  <2>2. Unused(e) = f
    BY DEF Unused
  <2> HIDE DEF s
  <2>3. /\ f \in End
        /\ f.st = "UNUSED" /\ ~f.failing /\ f.dl = NoDownload
    BY <2>1 DEF End, States
  <2> QED BY <2>2, <2>3

\* putConnection by a handler, in a state without a Download.
<1>PutKeeps.
    ASSUME EndsOK, KeptInv, NEW p \in Peers, NEW ms, Put(p, ms),
           end[p].st \notin {"SND", "RUNNING"}
    PROVE  EndsOK' /\ KeptInv'
  <2> USE <1>PutKeeps
  <2>1. Unused(end[p]) \in End /\ out[p] \in SUBSET Downloads /\ Unused(end[p]).st = "UNUSED"
    BY <1>UnusedType DEF EndsOK
  <2>2. EndOK(end[p], out[p]) => EndOK(Unused(end[p]), out[p])
    BY <2>1 DEF EndOK
  <2> QED BY <2>1, <2>2, <1>BecomeKeeps DEF Put

\* disconnect() changes nothing but the socket.
<1>DisconnectKeeps.
    ASSUME EndsOK, KeptInv, NEW p \in Peers, NEW e \in End, NEW o \in SUBSET Downloads, NEW ms,
           Disconnect(p, e, ms, o), ~Checking(p) /\ EndOK(end[p], out[p]) => EndOK(e, o)
    PROVE  EndsOK' /\ KeptInv'
  <2> USE <1>DisconnectKeeps
  <2> PICK s \in {"draining", "stopping"} : Become(p, [e EXCEPT !.sock = s], ms, o)
    BY DEF Disconnect
  <2>1. [e EXCEPT !.sock = s] \in End
    BY DEF End
  <2>2. EndOK(e, o) => EndOK([e EXCEPT !.sock = s], o)
    BY DEF EndOK, End, Downloading
  <2> QED BY <2>1, <2>2, <1>BecomeKeeps

\* checkDownloads by the socket thread, when nothing is handed out.
<1>CheckDownloadsKeeps.
    ASSUME EndsOK, KeptInv, NEW p \in Peers, NEW e \in End, NEW o \in SUBSET Downloads, NEW ms,
           CheckDownloads(p, e, ms, o),
           ~Checking(p) /\ EndOK(end[p], out[p]) => o = {} /\ Downloading(e) /\ ~e.failing
    PROVE  EndsOK' /\ KeptInv'
  <2> USE <1>CheckDownloadsKeeps
  <2>1. ASSUME NEW d \in Downloads \ o,
               Become(p, [e EXCEPT !.st = "SND", !.dl = d], Append(ms, <<"GET", d>>), o \cup {d})
        PROVE  EndsOK' /\ KeptInv'
    <3> DEFINE f == [e EXCEPT !.st = "SND", !.dl = d]
    <3>1. /\ f \in End /\ f.st = "SND" /\ f.dl = d /\ f.assoc = e.assoc /\ f.dir = e.dir
          /\ f.failing = e.failing
      BY DEF End, States
    <3>2. o = {} /\ Downloading(e) /\ ~e.failing => EndOK(f, o \cup {d})
      BY <3>1 DEF EndOK, Downloading
    <3> HIDE DEF f
    <3>3. Become(p, f, Append(ms, <<"GET", d>>), o \cup {d})
      BY <2>1 DEF f
    <3> QED BY <3>1, <3>2, <3>3, <1>BecomeKeeps
  <2>2. CASE Become(p, [e EXCEPT !.st = "IDLE"], ms, o)
    <3> DEFINE f == [e EXCEPT !.st = "IDLE"]
    <3>1. f \in End /\ f.st = "IDLE" /\ f.assoc = e.assoc /\ f.dir = e.dir
      BY DEF End, States
    <3>2. o = {} /\ Downloading(e) => EndOK(f, o)
      BY <3>1 DEF EndOK, Downloading
    <3> QED BY <2>2, <3>1, <3>2, <1>BecomeKeeps
  <2> QED BY <2>1, <2>2 DEF CheckDownloads

\* A download connection is added in the introduction, when nothing is handed out.
<1>AddDownloadKeeps.
    ASSUME EndsOK, KeptInv, NEW p \in Peers, NEW ms, AddDownloadConnection(p, ms),
           end[p].st \in {"KEY", "INF"}, ~end[p].failing
    PROVE  EndsOK' /\ KeptInv'
  <2> USE <1>AddDownloadKeeps
  <2> DEFINE e == [end[p] EXCEPT !.dir = "download", !.assoc = TRUE]
  <2>t. end[p] \in End /\ out[p] \in SUBSET Downloads
    BY DEF EndsOK
  <2>1. /\ e \in End /\ e.st = end[p].st /\ Downloading(e) /\ ~e.failing /\ e.dl = end[p].dl
        /\ out[p] \in SUBSET Downloads
    <3>1. e \in End
      BY <2>t DEF End
    <3>2. e.st = end[p].st /\ e.dl = end[p].dl /\ e.dir = "download" /\ e.assoc /\ e.failing = end[p].failing
      BY <2>t DEF End
    <3> QED BY <2>t, <3>1, <3>2 DEF Downloading
  <2>2. EndOK(end[p], out[p]) => out[p] = {} /\ EndOK(e, out[p])
    BY <2>1 DEF EndOK
  <2>3. \/ Put(p, ms) \/ Disconnect(p, e, ms, out[p])
        \/ Disconnect(p, e, Append(ms, Msg("Error")), out[p]) \/ CheckDownloads(p, e, ms, out[p])
    BY DEF AddDownloadConnection
  <2> HIDE DEF e
  <2>4. CASE Put(p, ms)
    BY <2>4, <1>PutKeeps
  <2>5. CASE Disconnect(p, e, ms, out[p])
    BY <2>1, <2>2, <2>5, <1>DisconnectKeeps
  <2>6. CASE Disconnect(p, e, Append(ms, Msg("Error")), out[p])
    BY <2>1, <2>2, <2>6, <1>DisconnectKeeps
  <2>7. CASE CheckDownloads(p, e, ms, out[p])
    BY <2>1, <2>2, <2>7, <1>CheckDownloadsKeeps
  <2> QED BY <2>3, <2>4, <2>5, <2>6, <2>7

\* addUploadConnection.
<1>AddUploadKeeps.
    ASSUME EndsOK, KeptInv, NEW p \in Peers, NEW ms, AddUploadConnection(p, ms),
           end[p].st \in {"KEY", "INF"}
    PROVE  EndsOK' /\ KeptInv'
  <2> USE <1>AddUploadKeeps
  <2> DEFINE e == [end[p] EXCEPT !.dir = "upload", !.assoc = TRUE]
             f == [e EXCEPT !.st = "GET"]
  <2>1. /\ e \in End /\ e.st = end[p].st /\ e.dir = "upload" /\ out[p] \in SUBSET Downloads
        /\ f \in End /\ f.st = "GET" /\ f.dir = "upload"
    <3>1. end[p] \in End /\ out[p] \in SUBSET Downloads
      BY Zenon DEF EndsOK
    <3>a. e \in End
      BY <3>1 DEF End
    <3>2. e \in End /\ e.st = end[p].st /\ e.dir = "upload"
      BY <3>1, <3>a DEF End
    <3> HIDE DEF e
    <3>3. f \in End /\ f.st = "GET" /\ f.dir = "upload"
      BY <3>2, SMTT(30) DEF End, States
    <3> QED BY <3>1, <3>2, <3>3
  <2>2. EndOK(end[p], out[p]) => EndOK(e, out[p]) /\ EndOK(f, out[p])
    BY <2>1 DEF EndOK
  <2>3. \/ Put(p, ms) \/ Become(p, e, Append(ms, Msg("Error")), out[p])
        \/ Become(p, f, ms, out[p])
    BY DEF AddUploadConnection
  <2> HIDE DEF e, f
  <2>4. CASE Put(p, ms)
    BY <2>4, <1>PutKeeps
  <2>5. CASE Become(p, e, Append(ms, Msg("Error")), out[p])
    BY <2>1, <2>2, <2>5, <1>BecomeKeeps
  <2>6. CASE Become(p, f, ms, out[p])
    BY <2>1, <2>2, <2>6, <1>BecomeKeeps
  <2> QED BY <2>3, <2>4, <2>5, <2>6

\* A handler that moves the end from a state without a Download to another one.
<1>MoveKeeps.
    ASSUME EndsOK, KeptInv, NEW p \in Peers, NEW e \in End, NEW ms, Become(p, e, ms, out[p]),
           end[p].st \notin {"SND", "RUNNING"},
           e.st \notin {"SND", "RUNNING", "IDLE", "TRY_AGAIN", "GET"}
    PROVE  EndsOK' /\ KeptInv'
  <2> USE <1>MoveKeeps
  <2>1. out[p] \in SUBSET Downloads
    BY DEF EndsOK
  <2>2. EndOK(end[p], out[p]) => EndOK(e, out[p])
    BY DEF EndOK
  <2> QED BY <2>1, <2>2, <1>BecomeKeeps

\* The introduction.
<1>IntroductionKeeps.
    ASSUME EndsOK, KeptInv, NEW p \in Peers,
           \/ ProcessMyNick(p) \/ ProcessLock(p) \/ ProcessDirection(p) \/ ProcessKey(p)
           \/ ProcessSUP(p) \/ ProcessINF(p)
    PROVE  EndsOK' /\ KeptInv'
  <2> USE <1>IntroductionKeeps
  <2>t. end[p] \in End /\ out[p] \in SUBSET Downloads
    BY DEF EndsOK
  <2>1. CASE ProcessMyNick(p)
    <3>1. CASE end[p].st # "SUPNICK"
      BY <2>1, <3>1, <1>IgnoreKeeps DEF ProcessMyNick
    <3>2. CASE end[p].st = "SUPNICK" /\ Put(p, <<>>)
      BY <3>2, <1>PutKeeps
    <3>3. ASSUME end[p].st = "SUPNICK", NEW d \in {"download", "upload"}, NEW ms,
                 Become(p, [end[p] EXCEPT !.st = "LOCK", !.dir = d], ms, out[p])
          PROVE  EndsOK' /\ KeptInv'
      <4>1. /\ [end[p] EXCEPT !.st = "LOCK", !.dir = d] \in End
            /\ [end[p] EXCEPT !.st = "LOCK", !.dir = d].st = "LOCK"
        BY <2>t DEF End, States
      <4> QED BY <3>3, <4>1, <1>MoveKeeps
    <3> QED BY Zenon, <2>1, <3>1, <3>2, <3>3 DEF ProcessMyNick
  <2>2. CASE ProcessLock(p)
    <3>1. CASE end[p].st # "LOCK"
      BY <2>2, <3>1, <1>IgnoreKeeps DEF ProcessLock
    <3>2. ASSUME end[p].st = "LOCK", NEW ms, Become(p, [end[p] EXCEPT !.st = "DIRECTION"], ms, out[p])
          PROVE  EndsOK' /\ KeptInv'
      <4>1. /\ [end[p] EXCEPT !.st = "DIRECTION"] \in End
            /\ [end[p] EXCEPT !.st = "DIRECTION"].st = "DIRECTION"
        BY <2>t DEF End, States
      <4> QED BY <3>2, <4>1, <1>MoveKeeps
    <3> QED BY Zenon, <2>2, <3>1, <3>2 DEF ProcessLock
  <2>3. CASE ProcessDirection(p)
    <3> DEFINE d == Direction(p, Head(wire[p])[2], Head(wire[p])[3])
    <3>1. CASE end[p].st # "DIRECTION"
      BY <2>3, <3>1, <1>IgnoreKeeps DEF ProcessDirection
    <3>2. CASE end[p].st = "DIRECTION" /\ Put(p, <<>>)
      BY <3>2, <1>PutKeeps
    <3>3. ASSUME end[p].st = "DIRECTION",
                 Become(p, [end[p] EXCEPT !.number = 0, !.st = "KEY", !.dir = d], <<>>, out[p])
          PROVE  EndsOK' /\ KeptInv'
      <4>1. d \in {"none", "download", "upload"}
        BY Zenon DEF Direction
      <4> HIDE DEF d
      <4>2. /\ [end[p] EXCEPT !.number = 0, !.st = "KEY", !.dir = d] \in End
            /\ [end[p] EXCEPT !.number = 0, !.st = "KEY", !.dir = d].st = "KEY"
        BY <2>t, <4>1 DEF End, States
      <4> QED BY <3>3, <4>2, <1>MoveKeeps
    <3> QED BY Zenon, <2>3, <3>1, <3>2, <3>3 DEF ProcessDirection
  <2>4. CASE ProcessKey(p)
    <3>0. ~end[p].failing
      BY <2>4 DEF ProcessKey, Receives, Listening
    <3>1. CASE end[p].st # "KEY"
      BY <2>4, <3>1, <1>IgnoreKeeps DEF ProcessKey
    <3>2. CASE end[p].st = "KEY" /\ Become(p, end[p], <<Msg("Error")>>, out[p])
      BY <2>t, <3>2, <1>MoveKeeps
    <3>3. CASE end[p].st = "KEY" /\ AddDownloadConnection(p, <<>>)
      BY <3>0, <3>3, <1>AddDownloadKeeps
    <3>4. CASE end[p].st = "KEY" /\ AddUploadConnection(p, <<>>)
      BY <3>4, <1>AddUploadKeeps
    <3> QED BY Zenon, <2>4, <3>1, <3>2, <3>3, <3>4 DEF ProcessKey
  <2>5. CASE ProcessSUP(p)
    <3>1. CASE end[p].st # "SUPNICK"
      BY <2>5, <3>1, <1>IgnoreKeeps DEF ProcessSUP
    <3>2. ASSUME end[p].st = "SUPNICK", NEW ms, Become(p, [end[p] EXCEPT !.st = "INF"], ms, out[p])
          PROVE  EndsOK' /\ KeptInv'
      <4>1. [end[p] EXCEPT !.st = "INF"] \in End /\ [end[p] EXCEPT !.st = "INF"].st = "INF"
        BY <2>t DEF End, States
      <4> QED BY <3>2, <4>1, <1>MoveKeeps
    <3> QED BY Zenon, <2>5, <3>1, <3>2 DEF ProcessSUP
  <2>6. CASE ProcessINF(p)
    <3>0. ~end[p].failing
      BY <2>6 DEF ProcessINF, Receives, Listening
    <3>1. CASE Disconnect(p, end[p], <<Msg("Error")>>, out[p])
      BY <2>t, <3>1, <1>DisconnectKeeps
    <3>2. CASE end[p].st = "INF" /\ Put(p, <<Msg("Error")>>)
      BY <3>2, <1>PutKeeps
    <3>3. ASSUME end[p].st = "INF", NEW ms, AddDownloadConnection(p, ms) PROVE EndsOK' /\ KeptInv'
      BY <3>0, <3>3, <1>AddDownloadKeeps
    <3>4. ASSUME end[p].st = "INF", NEW ms, AddUploadConnection(p, ms) PROVE EndsOK' /\ KeptInv'
      BY <3>4, <1>AddUploadKeeps
    <3> QED BY Zenon, <2>6, <3>1, <3>2, <3>3, <3>4 DEF ProcessINF
  <2> QED BY <2>1, <2>2, <2>3, <2>4, <2>5, <2>6

\* Requests and answers.
<1>TransferKeeps.
    ASSUME EndsOK, KeptInv, NEW p \in Peers,
           \/ ProcessGET(p) \/ TransmitDone(p) \/ ProcessSND(p) \/ OnData(p) \/ MaxedOut(p)
           \/ FileNotAvailable(p) \/ ProtocolError(p)
    PROVE  EndsOK' /\ KeptInv'
  <2> USE <1>TransferKeeps
  <2>t. end[p] \in End /\ out[p] \in SUBSET Downloads
    BY DEF EndsOK
  <2>b. /\ PutBack(p) \in SUBSET Downloads
        /\ EndOK(end[p], out[p]) => PutBack(p) = {}
    BY <1>PutBackOK
  <2>e. EndOK(end[p], out[p]) => EndOK(end[p], PutBack(p))
    BY <2>b DEF EndOK
  <2>d. ASSUME NEW ms, NEW o \in {out[p], PutBack(p)}, Disconnect(p, end[p], ms, o)
        PROVE  EndsOK' /\ KeptInv'
    BY <2>t, <2>b, <2>e, <2>d, <1>DisconnectKeeps
  <2>s. ASSUME NEW s \in {"RUNNING", "GET"}, NEW ms,
               end[p].st = "GET" \/ (end[p].st = "RUNNING" /\ end[p].dir = "upload" /\ s = "GET")
                  \/ (end[p].st = "SND" /\ s = "RUNNING")
        PROVE  /\ [end[p] EXCEPT !.st = s] \in End
               /\ EndOK(end[p], out[p]) => EndOK([end[p] EXCEPT !.st = s], out[p])
    <3> DEFINE f == [end[p] EXCEPT !.st = s]
    <3>1. /\ f \in End /\ f.st = s /\ f.dir = end[p].dir /\ f.assoc = end[p].assoc
          /\ f.dl = end[p].dl /\ f.failing = end[p].failing
      BY <2>t DEF End, States
    <3> HIDE DEF f
    <3>2. EndOK(end[p], out[p]) => EndOK(f, out[p])
      BY <2>s, <3>1 DEF EndOK, Downloading
    <3> QED BY <3>1, <3>2 DEF f
  <2>1. CASE ProcessGET(p)
    <3>1. CASE end[p].st # "GET" /\ Ignore(p)
      BY <3>1, <1>IgnoreKeeps
    <3>2. CASE end[p].st = "GET" /\ Become(p, [end[p] EXCEPT !.st = "RUNNING"],
                                          <<<<"SND", Head(wire[p])[2]>>>>, out[p])
      BY <2>s, <2>t, <3>2, <1>BecomeKeeps
    <3>3. ASSUME NEW type, Become(p, end[p], <<Msg(type)>>, out[p]) PROVE EndsOK' /\ KeptInv'
      BY <2>t, <3>3, <1>BecomeKeeps
    <3> QED BY Zenon, <2>1, <3>1, <3>2, <3>3 DEF ProcessGET
  <2>2. CASE TransmitDone(p)
    BY <2>2, <2>s, <2>t, <1>ActsKeeps DEF TransmitDone
  <2>3. CASE ProcessSND(p)
    <3>1. CASE Ignore(p)
      BY <3>1, <1>IgnoreKeeps
    <3>2. CASE end[p].st = "SND" /\ Become(p, [end[p] EXCEPT !.st = "RUNNING"], <<>>, out[p])
      BY <2>s, <2>t, <3>2, <1>BecomeKeeps
    <3>3. CASE Disconnect(p, end[p], <<>>, PutBack(p)) \/ Disconnect(p, end[p], <<>>, out[p])
      BY <2>d, <3>3
    <3> QED BY Zenon, <2>3, <3>1, <3>2, <3>3 DEF ProcessSND
  <2>4. CASE OnData(p)
    <3>0. ~end[p].failing
      BY <2>4 DEF OnData, Receives, Listening
    <3>1. CASE Ignore(p)
      BY <3>1, <1>IgnoreKeeps
    <3>2. CASE Disconnect(p, end[p], <<>>, PutBack(p)) \/ Disconnect(p, end[p], <<>>, out[p])
      BY <2>d, <3>2
    <3>3. ASSUME end[p].st = "RUNNING", end[p].dir = "download", CheckDownloads(p, end[p], <<>>, PutBack(p))
          PROVE  EndsOK' /\ KeptInv'
      <4>1. EndOK(end[p], out[p]) => Downloading(end[p])
        BY <3>3 DEF EndOK, Downloading
      <4> QED BY <2>b, <2>t, <3>0, <3>3, <4>1, <1>CheckDownloadsKeeps
    <3> QED BY Zenon, <2>4, <3>1, <3>2, <3>3 DEF OnData
  <2>u. ASSUME ~Unexpected(p) PROVE Downloading(end[p]) \/ ~EndOK(end[p], out[p])
    BY <2>u DEF Unexpected, EndOK, Downloading
  <2>5. CASE MaxedOut(p)
    <3>1. CASE Ignore(p)
      BY <3>1, <1>IgnoreKeeps
    <3>2. CASE Disconnect(p, end[p], <<>>, out[p])
      BY <2>d, <3>2
    <3>3. ASSUME ~Unexpected(p), Become(p, [end[p] EXCEPT !.st = "TRY_AGAIN"], <<>>, PutBack(p))
          PROVE  EndsOK' /\ KeptInv'
      <4> DEFINE f == [end[p] EXCEPT !.st = "TRY_AGAIN"]
      <4>1. f \in End /\ f.st = "TRY_AGAIN" /\ (Downloading(end[p]) => Downloading(f))
        BY <2>t DEF End, States, Downloading
      <4>2. EndOK(end[p], out[p]) => EndOK(f, PutBack(p))
        BY <2>b, <2>u, <3>3, <4>1 DEF EndOK
      <4> QED BY <2>b, <3>3, <4>1, <4>2, <1>BecomeKeeps
    <3> QED BY Zenon, <2>5, <3>1, <3>2, <3>3 DEF MaxedOut
  <2>7. CASE ProtocolError(p)
    <3> DEFINE f == [end[p] EXCEPT !.failing = TRUE]
    <3>1. /\ f \in End /\ f.st = end[p].st /\ f.dir = end[p].dir /\ f.assoc = end[p].assoc
          /\ FailDownload(p) \in SUBSET Downloads
      BY <2>t, <1>PutBackOK DEF End
    <3>2. EndOK(end[p], out[p]) => EndOK(f, FailDownload(p))
      BY <3>1, <1>PutBackOK DEF EndOK, Downloading
    <3> QED BY <2>7, <3>1, <3>2, <1>BecomeKeeps DEF ProtocolError
  <2>6. CASE FileNotAvailable(p)
    <3>0. ~end[p].failing
      BY <2>6 DEF FileNotAvailable, Receives, Listening
    <3>1. CASE Ignore(p)
      BY <3>1, <1>IgnoreKeeps
    <3>2. CASE Disconnect(p, end[p], <<>>, out[p])
      BY <2>d, <3>2
    <3>3. ASSUME ~Unexpected(p), CheckDownloads(p, end[p], <<>>, PutBack(p))
          PROVE  EndsOK' /\ KeptInv'
      BY <2>b, <2>t, <2>u, <3>0, <3>3, <1>CheckDownloadsKeeps
    <3> QED BY Zenon, <2>6, <3>1, <3>2, <3>3 DEF FileNotAvailable
  <2> QED BY <2>1, <2>2, <2>3, <2>4, <2>5, <2>6, <2>7

\* The socket is closed, and the connection put away.
<1>EndKeeps.
    ASSUME EndsOK, KeptInv, NEW p \in Peers, OnFailed(p) \/ PutConnection(p)
    PROVE  EndsOK' /\ KeptInv'
  <2> USE <1>EndKeeps
  <2>t. end[p] \in End /\ out[p] \in SUBSET Downloads
    BY DEF EndsOK
  <2>1. CASE OnFailed(p) /\ end[p].st = "UNUSED"
    <3> DEFINE f == [end[p] EXCEPT !.sock = "closed"]
    <3>1. f \in End /\ f.st = "UNUSED"
      BY <2>t, <2>1 DEF End
    <3>2. EndOK(end[p], out[p]) => EndOK(f, out[p])
      BY <2>1, <3>1 DEF EndOK
    <3> QED BY <2>t, <2>1, <3>1, <3>2, <1>ActsKeeps DEF OnFailed
  <2>2. CASE OnFailed(p) /\ end[p].st # "UNUSED"
    <3> DEFINE f == [end[p] EXCEPT !.sock = "closed", !.st = "UNCONNECTED", !.failing = TRUE]
    <3>1. f \in End /\ f.st = "UNCONNECTED" /\ FailDownload(p) \in SUBSET Downloads
      BY <2>t, <1>PutBackOK DEF End, States
    <3>2. EndOK(end[p], out[p]) => EndOK(f, FailDownload(p))
      BY <3>1, <1>PutBackOK DEF EndOK
    <3> QED BY <2>2, <3>1, <3>2, <1>ActsKeeps DEF OnFailed
  <2>3. CASE PutConnection(p)
    <3>1. Unused(end[p]) \in End /\ Unused(end[p]).st = "UNUSED"
      BY <2>t, <1>UnusedType
    <3>2. EndOK(end[p], out[p]) => EndOK(Unused(end[p]), out[p])
      BY <2>3, <3>1 DEF EndOK, PutConnection
    <3> QED BY <2>3, <2>t, <3>1, <3>2, <1>ActsKeeps DEF PutConnection
  <2> QED BY <2>1, <2>2, <2>3

\* A step that changes only the socket's state or userConnections.
<1>QuietKeeps.
    ASSUME EndsOK, KeptInv, NEW p \in Peers, Drain(p) \/ DisconnectAtOnce(p) \/ Erase(p)
    PROVE  EndsOK' /\ KeptInv'
  <2> USE <1>QuietKeeps
  <2>1. /\ UNCHANGED <<out, check, crossed>>
        /\ \/ end' = [end EXCEPT ![p].sock = "stopping"]
           \/ end' = [end EXCEPT ![p].listed = FALSE]
    BY Zenon DEF Drain, DisconnectAtOnce, Erase
  <2>2. /\ end' \in [Peers -> End]
        /\ \A q \in Peers : /\ end'[q].st = end[q].st /\ end'[q].dir = end[q].dir
                           /\ end'[q].assoc = end[q].assoc /\ end'[q].dl = end[q].dl
                           /\ end'[q].failing = end[q].failing
    <3> DEFINE f == [end[p] EXCEPT !.sock = "stopping"]
               g == [end[p] EXCEPT !.listed = FALSE]
    <3>1. end[p] \in End /\ end \in [Peers -> End]
      BY DEF EndsOK
    <3>2. /\ f \in End /\ f.st = end[p].st /\ f.dir = end[p].dir /\ f.assoc = end[p].assoc
          /\ f.dl = end[p].dl /\ f.failing = end[p].failing
      BY <3>1 DEF End
    <3>3. /\ g \in End /\ g.st = end[p].st /\ g.dir = end[p].dir /\ g.assoc = end[p].assoc
          /\ g.dl = end[p].dl /\ g.failing = end[p].failing
      BY <3>1 DEF End
    <3>4. end' = [end EXCEPT ![p] = f] \/ end' = [end EXCEPT ![p] = g]
      BY <2>1
    <3> HIDE DEF f, g
    <3> QED BY <3>1, <3>2, <3>3, <3>4
  <2>3. EndsOK'
    BY <2>1, <2>2 DEF EndsOK
  <2>4. \A q \in Peers : /\ EndOK(end[q], out[q]) => EndOK(end'[q], out'[q])
                       /\ \A t \in Checkers : CheckOK(end[q], out[q], check[q], t)
                                              => CheckOK(end'[q], out'[q], check'[q], t)
    BY <2>1, <2>2 DEF EndOK, CheckOK, Downloading
  <2>5. \A q \in Peers : Checking(q)' = Checking(q)
    BY <2>1 DEF Checking
  <2> QED BY <2>1, <2>3, <2>4, <2>5 DEF KeptInv

\* checkDownloads by the other threads.
<1>CheckerKeeps.
    ASSUME EndsOK, KeptInv, NEW p \in Peers, NEW t \in Checkers,
           Look(p, t) \/ GetDownload(p, t) \/ Request(p, t)
    PROVE  EndsOK' /\ KeptInv'
  <2> USE <1>CheckerKeeps
  <2> DEFINE Fine(q) == \/ crossed[q]
                        \/ ~Checking(q) /\ EndOK(end[q], out[q])
                        \/ \E u \in Checkers : CheckOK(end[q], out[q], check[q], u)
  <2>t. /\ end[p] \in End /\ out[p] \in SUBSET Downloads /\ check[p] \in [Checkers -> Places]
    BY DEF EndsOK
  <2>p. Fine(p)
    BY DEF KeptInv
  <2>o. ASSUME NEW q \in Peers, end'[q] = end[q], out'[q] = out[q], check'[q] = check[q],
               crossed'[q] = crossed[q]
        PROVE  Fine(q)'
    BY <2>o DEF KeptInv, Checking
  <2>1. CASE Look(p, t)
    <3>1. /\ UNCHANGED <<end, out>> /\ check' = [check EXCEPT ![p][t].pc = "looked"]
          /\ crossed' = [crossed EXCEPT ![p] = @ \/ Checking(p) \/ end[p].failing]
          /\ end[p].st \in {"IDLE", "TRY_AGAIN"}
      BY <2>1 DEF Look
    <3>2. EndsOK'
      <4>1. [check[p][t] EXCEPT !.pc = "looked"] \in Places
        BY <2>t DEF Places
      <4>2. check' \in [Peers -> [Checkers -> Places]]
        BY <2>t, <3>1, <4>1 DEF EndsOK
      <4> QED BY <3>1, <4>2 DEF EndsOK
    <3>3. ASSUME NEW q \in Peers, q # p PROVE Fine(q)'
      <4>1. check'[q] = check[q] /\ crossed'[q] = crossed[q] /\ end'[q] = end[q] /\ out'[q] = out[q]
        BY <3>1, <3>3 DEF EndsOK
      <4> QED BY <2>o, <4>1
    <3>4. CASE crossed[p] \/ Checking(p) \/ end[p].failing
      <4>1. crossed'[p]
        BY <3>1, <3>4 DEF EndsOK
      <4> QED BY <3>2, <3>3, <4>1 DEF KeptInv
    <3>5. CASE ~crossed[p] /\ ~Checking(p) /\ ~end[p].failing
      <4>1. EndOK(end[p], out[p])
        BY <2>p, <3>5 DEF CheckOK, Checking
      <4>2. /\ check'[p][t].pc = "looked"
            /\ \A u \in Checkers \ {t} : check'[p][u] = check[p][u]
        BY <2>t, <3>1 DEF EndsOK, Places
      <4>3. CheckOK(end'[p], out'[p], check'[p], t)
        BY <3>1, <3>5, <4>1, <4>2 DEF CheckOK, EndOK, Checking
      <4> QED BY <3>2, <3>3, <4>3 DEF KeptInv
    <3> QED BY <3>4, <3>5
  <2>2. CASE GetDownload(p, t)
    <3>1. /\ check[p][t].pc = "looked" /\ crossed' = crossed
          /\ \/ \E d \in Downloads \ out[p] :
                   /\ check' = [check EXCEPT ![p][t] = [pc |-> "got", dl |-> d]]
                   /\ end' = [end EXCEPT ![p].dl = d]
                   /\ out' = [out EXCEPT ![p] = @ \cup {d}]
             \/ check' = [check EXCEPT ![p][t].pc = "none"] /\ UNCHANGED <<end, out>>
      BY <2>2 DEF GetDownload
    <3>2. CASE check' = [check EXCEPT ![p][t].pc = "none"] /\ UNCHANGED <<end, out>>
      <4>1. EndsOK'
        <5>1. [check[p][t] EXCEPT !.pc = "none"] \in Places
          BY <2>t DEF Places
        <5>2. check' \in [Peers -> [Checkers -> Places]]
          BY <2>t, <3>2, <5>1 DEF EndsOK
        <5> QED BY <3>1, <3>2, <5>2 DEF EndsOK
      <4>2. ASSUME NEW q \in Peers, q # p PROVE Fine(q)'
        <5>1. check'[q] = check[q]
          BY <3>2, <4>2 DEF EndsOK
        <5> QED BY <2>o, <3>1, <3>2, <5>1
      <4>3. /\ check'[p][t].pc = "none"
            /\ \A u \in Checkers \ {t} : check'[p][u] = check[p][u]
        BY <2>t, <3>2 DEF EndsOK, Places
      <4>4. ASSUME NEW u \in Checkers, CheckOK(end[p], out[p], check[p], u)
            PROVE  u = t /\ CheckOK(end'[p], out'[p], check'[p], t)
        BY <3>1, <3>2, <4>3, <4>4 DEF CheckOK
      <4>5. Checking(p)
        BY <3>1 DEF Checking
      <4>6. Fine(p)'
        BY <2>p, <3>1, <4>4, <4>5
      <4> QED BY <4>1, <4>2, <4>6 DEF KeptInv
    <3>3. ASSUME NEW d \in Downloads \ out[p],
                 check' = [check EXCEPT ![p][t] = [pc |-> "got", dl |-> d]],
                 end' = [end EXCEPT ![p].dl = d], out' = [out EXCEPT ![p] = @ \cup {d}]
          PROVE  EndsOK' /\ KeptInv'
      <4>1. end' \in [Peers -> End] /\ out' \in [Peers -> SUBSET Downloads]
        <5>1. [end[p] EXCEPT !.dl = d] \in End
          BY <2>t DEF End
        <5> QED BY <2>t, <3>3, <5>1 DEF EndsOK
      <4>2. check' \in [Peers -> [Checkers -> Places]]
        BY <3>3 DEF EndsOK, Places
      <4>3. EndsOK'
        BY <3>1, <4>1, <4>2 DEF EndsOK
      <4>4. ASSUME NEW q \in Peers, q # p PROVE Fine(q)'
        <5>1. check'[q] = check[q] /\ end'[q] = end[q] /\ out'[q] = out[q]
          BY <3>3, <4>4 DEF EndsOK
        <5> QED BY <2>o, <3>1, <5>1
      <4>5. /\ check'[p][t].pc = "got" /\ check'[p][t].dl = d
            /\ \A u \in Checkers \ {t} : check'[p][u] = check[p][u]
            /\ out'[p] = out[p] \cup {d}
        BY <2>t, <3>3 DEF EndsOK, Places
      <4>6. /\ end'[p].dl = d /\ end'[p].st = end[p].st /\ end'[p].dir = end[p].dir
            /\ end'[p].assoc = end[p].assoc /\ end'[p].failing = end[p].failing
        BY <2>t, <3>3 DEF EndsOK, End
      <4>7. ASSUME NEW u \in Checkers, CheckOK(end[p], out[p], check[p], u)
            PROVE  u = t /\ CheckOK(end'[p], out'[p], check'[p], t)
        BY <3>1, <4>5, <4>6, <4>7 DEF CheckOK, Downloading
      <4>8. Checking(p)
        BY <3>1 DEF Checking
      <4>9. Fine(p)'
        BY <2>p, <3>1, <4>7, <4>8
      <4> QED BY <4>3, <4>4, <4>9 DEF KeptInv
    <3> QED BY <3>1, <3>2, <3>3
  <2>3. CASE Request(p, t)
    <3> DEFINE l == IF t = "timer" THEN "off" ELSE "done"
    <3>1. PICK s \in {"SND", "IDLE"} :
             /\ check[p][t].pc = IF s = "SND" THEN "got" ELSE "none"
             /\ end' = [end EXCEPT ![p].st = s]
             /\ check' = [check EXCEPT ![p][t] = [Off EXCEPT !.pc = l]]
             /\ out' = out /\ crossed' = crossed
      BY <2>3 DEF Request
    <3>2. l \in {"off", "done"}
      OBVIOUS
    <3> HIDE DEF l
    <3>3. [Off EXCEPT !.pc = l] \in Places /\ [Off EXCEPT !.pc = l].pc = l
      BY <3>2 DEF Off, Places
    <3>4. end' \in [Peers -> End] /\ check' \in [Peers -> [Checkers -> Places]]
      <4>1. [end[p] EXCEPT !.st = s] \in End
        BY <2>t DEF End, States
      <4> QED BY <2>t, <3>1, <3>3, <4>1 DEF EndsOK
    <3>5. EndsOK'
      BY <3>1, <3>4 DEF EndsOK
    <3>6. ASSUME NEW q \in Peers, q # p PROVE Fine(q)'
      <4>1. check'[q] = check[q] /\ end'[q] = end[q]
        BY <3>1, <3>6 DEF EndsOK
      <4> QED BY <2>o, <3>1, <4>1
    <3>7. /\ check'[p][t].pc = l /\ \A u \in Checkers \ {t} : check'[p][u] = check[p][u]
      BY <2>t, <3>1, <3>3 DEF EndsOK
    <3>8. /\ end'[p].st = s /\ end'[p].dl = end[p].dl /\ end'[p].dir = end[p].dir
          /\ end'[p].assoc = end[p].assoc /\ end'[p].failing = end[p].failing
      BY <2>t, <3>1 DEF EndsOK, End
    <3>9. ASSUME NEW u \in Checkers, CheckOK(end[p], out[p], check[p], u)
          PROVE  ~Checking(p)' /\ EndOK(end'[p], out'[p])
      <4>1. u = t
        BY <3>1, <3>9 DEF CheckOK
      <4>2. ~Checking(p)'
        BY <3>2, <3>7, <3>9, <4>1 DEF CheckOK, Checking
      <4>3. EndOK(end'[p], out'[p])
        BY <3>1, <3>8, <3>9, <4>1 DEF CheckOK, EndOK, Downloading
      <4> QED BY <4>2, <4>3
    <3>10. Checking(p)
      BY <3>1 DEF Checking
    <3>11. Fine(p)'
      BY <2>p, <3>1, <3>9, <3>10
    <3> QED BY <3>5, <3>6, <3>11 DEF KeptInv
  <2> QED BY <2>1, <2>2, <2>3

<1>1. Init => EndsOK /\ KeptInv
  <2> SUFFICES ASSUME Init PROVE EndsOK /\ KeptInv
    OBVIOUS
  <2>1. EndsOK
    BY DEF Init, EndsOK, End, States, Places, Off
  <2>2. \A p \in Peers : ~Checking(p) /\ EndOK(end[p], out[p])
    BY DEF Init, Checking, EndOK, Off
  <2> QED BY <2>1, <2>2 DEF KeptInv
<1>2. EndsOK /\ KeptInv /\ [Next]_vars => EndsOK' /\ KeptInv'
  <2> SUFFICES ASSUME EndsOK, KeptInv, [Next]_vars PROVE EndsOK' /\ KeptInv'
    OBVIOUS
  <2>1. CASE UNCHANGED vars
    BY <2>1 DEF vars, EndsOK, KeptInv, Checking
  <2>2. CASE OnConnected
    <3>1. /\ "out" \in Peers /\ end["out"] \in End /\ out["out"] \in SUBSET Downloads
      BY DEF EndsOK, Peers
    <3>2. /\ [end["out"] EXCEPT !.st = "SUPNICK"] \in End
          /\ [end["out"] EXCEPT !.st = "SUPNICK"].st = "SUPNICK"
      BY <3>1 DEF End, States
    <3>3. EndOK(end["out"], out["out"]) => EndOK([end["out"] EXCEPT !.st = "SUPNICK"], out["out"])
      BY <2>2, <3>2 DEF EndOK, OnConnected
    <3> QED BY <2>2, <3>1, <3>2, <3>3, <1>ActsKeeps DEF OnConnected
  <2>3. ASSUME NEW p \in Peers, Handle(p) \/ TransmitDone(p) PROVE EndsOK' /\ KeptInv'
    BY Zenon, <2>3, <1>IntroductionKeeps, <1>TransferKeeps DEF Handle
  <2>4. ASSUME NEW p \in Peers, PutConnection(p) \/ Stop(p) \/ RemoteClosed(p) \/ Break(p)
        PROVE  EndsOK' /\ KeptInv'
    BY Zenon, <2>4, <1>EndKeeps DEF Stop, RemoteClosed, Break
  <2>5. ASSUME NEW p \in Peers, Drain(p) \/ DisconnectAtOnce(p) \/ Erase(p) PROVE EndsOK' /\ KeptInv'
    BY <2>5, <1>QuietKeeps
  <2>6. ASSUME NEW p \in Peers, NEW t \in Checkers, Look(p, t) \/ GetDownload(p, t) \/ Request(p, t)
        PROVE  EndsOK' /\ KeptInv'
    BY <2>6, <1>CheckerKeeps
  <2> QED BY Zenon, <2>1, <2>2, <2>3, <2>4, <2>5, <2>6 DEF Next, Socket
<1> QED BY <1>1, <1>2, PTL DEF Spec

\* No Download is lost with the connection (DownloadsKept), for any set of Downloads
\* and of numbers and whatever is on the wire: an end has at most one Download, it is
\* the connection's, and it has been put back when the connection is put away.
THEOREM DownloadsKeptAlways == Spec => []DownloadsKept
<1>1. KeptInv => DownloadsKept
  BY DEF KeptInv, EndOK, CheckOK, DownloadsKept
<1> QED BY <1>1, KeptInvAlways, PTL

=============================================================================
