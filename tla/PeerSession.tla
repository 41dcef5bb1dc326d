---------------------------- MODULE PeerSession ----------------------------
(***************************************************************************)
(* A connection between two peers that both run this program: how its ends  *)
(* introduce themselves and agree on who downloads (NMDC or ADC), and the   *)
(* requests and answers that follow (client/UserConnection.cpp,             *)
(* ConnectionManager.cpp, DownloadManager.cpp, UploadManager.cpp).          *)
(*                                                                          *)
(* "out" is the end that opened the connection, "in" the end that accepted  *)
(* it (FLAG_INCOMING).  The socket thread of an end handles the messages in *)
(* the order in which they were sent; a handler is one step.                *)
(* DownloadManager::checkDownloads is also called by the timer              *)
(* (checkConnections, which holds csConnections meanwhile) and by a thread  *)
(* that queues something from the user (getDownloadConnection, which holds  *)
(* no lock); there it takes several steps.                                  *)
(*                                                                          *)
(* Whether the end finds a download item in the state it needs, and whether *)
(* another connection of the user uploads, is left open here: the items are *)
(* the subject of ConnectionQueue, and other connections and the timer may  *)
(* change them at any time.                                                 *)
(***************************************************************************)
EXTENDS Integers, Sequences

CONSTANTS
    Numbers,    \* numbers that UserConnection::number may be
    Downloads,  \* Downloads that an end's queue may have handed out at a time
    NoDownload

ASSUME NumbersAssumption == Numbers \subseteq Int
ASSUME NoDownloadAssumption == NoDownload \notin Downloads

Peers == {"in", "out"}
Other(p) == IF p = "in" THEN "out" ELSE "in"

\* Threads other than the socket's that call checkDownloads: the timer, again and
\* again, and one that queues something, once.
Checkers == {"timer", "queuer"}

VARIABLES
    proto,   \* the protocol of the connection
    asker,   \* the end whose download item has the connection's token (ADC)
    end,     \* end[p]: p's UserConnection
    wire,    \* wire[p]: messages on their way to p
    out,     \* out[p]: Downloads handed out by p's queue and not put back
    check,   \* check[p][t]: where thread t of p is in checkDownloads
    crossed  \* history: crossed[p]: while a thread of p was in checkDownloads,
             \* another one was, or the socket's thread did something

config == <<proto, asker>>
vars == <<config, end, wire, out, check, crossed>>

States == {"CONNECT", "SUPNICK", "LOCK", "DIRECTION", "KEY", "INF", "GET", "SND", "IDLE",
           "TRY_AGAIN", "RUNNING", "UNCONNECTED", "UNUSED"}

\* dir: FLAG_DOWNLOAD or FLAG_UPLOAD; assoc: FLAG_ASSOCIATED; sock: the state of
\* the BufferedSocket ("draining": a graceful disconnect waits for what is still
\* to be written; "stopping": stopFlag is set); dl: getDownload(); failing:
\* putConnection is still to come; listed: in userConnections.  The number of the
\* connection is forgotten (0) when it has served.
End == [number : Numbers \cup {0}, st : States, dir : {"none", "download", "upload"}, assoc : BOOLEAN,
        sock : {"open", "draining", "stopping", "closed"}, dl : Downloads \cup {NoDownload},
        failing : BOOLEAN, listed : BOOLEAN]

\* "Error" is an $Error or a fatal STA, "NotAvailable" the one that says that the
\* file is not available; "Data" is the whole segment.
Messages ==
    ({"MyNick", "Lock", "Key", "Error", "SUP", "INF", "Data", "MaxedOut", "NotAvailable"} \X {NoDownload})
       \cup ({"Direction"} \X {"download", "upload"} \X Numbers)
       \cup ({"GET", "SND"} \X Downloads)

Msg(type) == <<type, NoDownload>>

Places == [pc : {"off", "looked", "got", "none", "done"}, dl : Downloads \cup {NoDownload}]
Off == [pc |-> "off", dl |-> NoDownload]

TypeOK ==
    /\ proto \in {"NMDC", "ADC"}
    /\ asker \in Peers
    /\ end \in [Peers -> End]
    /\ wire \in [Peers -> Seq(Messages)]
    /\ out \in [Peers -> SUBSET Downloads]
    /\ check \in [Peers -> [Checkers -> Places]]
    /\ crossed \in [Peers -> BOOLEAN]

\* Only NMDC uses the numbers, only ADC the token.
Init ==
    /\ proto \in {"NMDC", "ADC"}
    /\ asker \in (IF proto = "NMDC" THEN {"out"} ELSE Peers)
    /\ \E number \in [Peers -> IF proto = "NMDC" THEN Numbers ELSE {0}] :
         end = [p \in Peers |->
                [number |-> number[p], st |-> IF p = "in" THEN "SUPNICK" ELSE "CONNECT", dir |-> "none",
                 assoc |-> FALSE, sock |-> "open", dl |-> NoDownload,
                 failing |-> FALSE, listed |-> TRUE]]
    /\ wire = [p \in Peers |-> <<>>]
    /\ out = [p \in Peers |-> {}]
    /\ check = [p \in Peers |-> [t \in Checkers |-> Off]]
    /\ crossed = [p \in Peers |-> FALSE]

-----------------------------------------------------------------------------
Checking(p) == \E t \in Checkers : check[p][t].pc \notin {"off", "done"}

\* The socket thread of p does something: its end becomes e, the Downloads in o
\* are handed out and not put back.
Acts(p, e, o) ==
    /\ end' = [end EXCEPT ![p] = e]
    /\ out' = [out EXCEPT ![p] = o]
    /\ crossed' = [crossed EXCEPT ![p] = @ \/ Checking(p)]
    /\ UNCHANGED <<config, check>>

\* What is on its way to q once ms is sent.
Sent(q, ms) == IF end[q].sock = "closed" THEN <<>> ELSE wire[q] \o ms

\* It is done with the first message, and the messages ms are sent.
Become(p, e, ms, o) ==
    /\ Acts(p, e, o)
    /\ wire' = [wire EXCEPT ![p] = Tail(@), ![Other(p)] = Sent(Other(p), ms)]

Listening(p) ==
    end[p].sock \in {"open", "draining"} /\ ~end[p].failing /\ end[p].st # "CONNECT"

Receives(p, type) == Listening(p) /\ wire[p] # <<>> /\ Head(wire[p])[1] = type

\* checkState fails: the command is logged and otherwise ignored.
Ignore(p) == Become(p, end[p], <<>>, out[p])

\* putConnection's effect on the connection.
Unused(e) ==
    [e EXCEPT !.number = 0, !.st = "UNUSED", !.dl = NoDownload, !.failing = FALSE,
              !.sock = IF @ = "closed" THEN @ ELSE "stopping"]

Put(p, ms) == Become(p, Unused(end[p]), ms, out[p])

\* disconnect() of an end that is e: at once, or when all is written.
Disconnect(p, e, ms, o) ==
    \E s \in {"draining", "stopping"} : Become(p, [e EXCEPT !.sock = s], ms, o)

\* What is handed out when p's Download has been put back.
PutBackKept(p) == out[p] \cup {end[p].dl}

PutBack(p) == out[p] \ {end[p].dl}

\* checkDownloads, by the socket thread.  If there is nothing to download, the
\* connection keeps its pointer to the Download that it had.
CheckDownloads(p, e, ms, o) ==
    \/ \E d \in Downloads \ o :
          Become(p, [e EXCEPT !.st = "SND", !.dl = d], Append(ms, <<"GET", d>>), o \cup {d})
    \/ Become(p, [e EXCEPT !.st = "IDLE"], ms, o)

\* addDownloadConnection: put away if the item is not WAITING or CONNECTING;
\* DownloadManager::addConnection disconnects a peer without TTHF or whose IP is
\* blocked.
AddDownloadConnection(p, ms) ==
    LET e == [end[p] EXCEPT !.dir = "download", !.assoc = TRUE]
    IN  \/ Put(p, ms)
        \/ Disconnect(p, e, ms, out[p])
        \/ Disconnect(p, e, Append(ms, Msg("Error")), out[p])
        \/ CheckDownloads(p, e, ms, out[p])

\* addUploadConnection: put away if the user has an upload item;
\* UploadManager::addConnection leaves the state alone if the IP is blocked.
AddUploadConnection(p, ms) ==
    LET e == [end[p] EXCEPT !.dir = "upload", !.assoc = TRUE]
    IN  \/ Put(p, ms)
        \/ Become(p, e, Append(ms, Msg("Error")), out[p])
        \/ Become(p, [e EXCEPT !.st = "GET"], ms, out[p])

-----------------------------------------------------------------------------
(* The introduction.                                                         *)

\* onConnected at the end that opened the connection.
OnConnected ==
    /\ end["out"].st = "CONNECT" /\ end["out"].sock = "open"
    /\ Acts("out", [end["out"] EXCEPT !.st = "SUPNICK"], out["out"])
    /\ wire' = [wire EXCEPT !["in"] =
                  Sent("in", IF proto = "NMDC" THEN <<Msg("MyNick"), Msg("Lock")>> ELSE <<Msg("SUP")>>)]

\* $MyNick: put away if the connection is not expected or the user not online; a
\* download item that is WAITING or CONNECTING makes it a download connection.
ProcessMyNick(p) ==
    /\ Receives(p, "MyNick")
    /\ IF end[p].st # "SUPNICK" THEN Ignore(p)
       ELSE \/ Put(p, <<>>)
            \/ \E d \in {"download", "upload"} :
                  Become(p, [end[p] EXCEPT !.st = "LOCK", !.dir = d],
                         IF p = "in" THEN <<Msg("MyNick"), Msg("Lock")>> ELSE <<>>, out[p])

ProcessLockKeyFirst(p) ==
    /\ Receives(p, "Lock")
    /\ IF end[p].st # "LOCK" THEN Ignore(p)
       ELSE Become(p, [end[p] EXCEPT !.st = "DIRECTION"],
                   <<Msg("Key"), <<"Direction", end[p].dir, end[p].number>>>>, out[p])

ProcessLock(p) ==
    /\ Receives(p, "Lock")
    /\ IF end[p].st # "LOCK" THEN Ignore(p)
       ELSE Become(p, [end[p] EXCEPT !.st = "DIRECTION"],
                   <<<<"Direction", end[p].dir, end[p].number>>, Msg("Key")>>, out[p])

\* What this end does once it knows what the other one wants: both must not want to
\* upload, and if both want to download, the one with the higher number does.
DirectionTie(p, theirs, n) ==
    IF theirs = "upload" THEN IF end[p].dir = "upload" THEN "none" ELSE "download"
    ELSE IF end[p].dir = "upload" \/ end[p].number < n THEN "upload"
    ELSE "download"

Direction(p, theirs, n) ==
    IF theirs = "upload" THEN IF end[p].dir = "upload" THEN "none" ELSE "download"
    ELSE IF end[p].dir = "upload" \/ end[p].number < n THEN "upload"
    ELSE IF end[p].number = n THEN "none"
    ELSE "download"

ProcessDirection(p) ==
    /\ Receives(p, "Direction")
    /\ LET d == Direction(p, Head(wire[p])[2], Head(wire[p])[3])
       IN  IF end[p].st # "DIRECTION" THEN Ignore(p)
           ELSE IF d = "none" THEN Put(p, <<>>)
           ELSE Become(p, [end[p] EXCEPT !.number = 0, !.st = "KEY", !.dir = d], <<>>, out[p])

\* $Key: nothing more happens if the IP address is blocked.
ProcessKey(p) ==
    /\ Receives(p, "Key")
    /\ IF end[p].st # "KEY" THEN Ignore(p)
       ELSE \/ Become(p, end[p], <<Msg("Error")>>, out[p])
            \/ end[p].dir = "download" /\ AddDownloadConnection(p, <<>>)
            \/ end[p].dir = "upload" /\ AddUploadConnection(p, <<>>)

ProcessSUP(p) ==
    /\ Receives(p, "SUP")
    /\ IF end[p].st # "SUPNICK" THEN Ignore(p)
       ELSE Become(p, [end[p] EXCEPT !.st = "INF"],
                   <<Msg(IF p = "in" THEN "SUP" ELSE "INF")>>, out[p])

\* INF: put away if the token is not expected, the user not known or the keyprint
\* wrong; the token is that of a download item, or the connection is for uploads.
ProcessINF(p) ==
    /\ Receives(p, "INF")
    /\ LET ms == IF p = "in" THEN <<Msg("INF")>> ELSE <<>>
       IN  IF end[p].st # "INF" THEN Disconnect(p, end[p], <<Msg("Error")>>, out[p])
           ELSE \/ Put(p, <<Msg("Error")>>)
                \/ p = asker /\ AddDownloadConnection(p, ms)
                \/ AddUploadConnection(p, ms)

-----------------------------------------------------------------------------
(* Requests and answers.                                                     *)

\* processGET: the answer is SND, or that no slot is free or the file is not
\* available; an NMDC peer takes any other $Error for fatal.
ProcessGETSilent(p) ==
    /\ Receives(p, "GET")
    /\ \/ end[p].st # "GET" /\ Ignore(p)
       \/ end[p].st = "GET" /\ Become(p, [end[p] EXCEPT !.st = "RUNNING"],
                                     <<<<"SND", Head(wire[p])[2]>>>>, out[p])
       \/ end[p].st = "GET" /\ Ignore(p)

ProcessGET(p) ==
    /\ Receives(p, "GET")
    /\ \/ end[p].st # "GET" /\ Ignore(p)
       \/ end[p].st = "GET" /\ Become(p, [end[p] EXCEPT !.st = "RUNNING"],
                                     <<<<"SND", Head(wire[p])[2]>>>>, out[p])
       \/ /\ end[p].st = "GET"
          /\ \E type \in {"MaxedOut", "NotAvailable"} \cup (IF proto = "NMDC" THEN {"Error"} ELSE {}) :
                Become(p, end[p], <<Msg(type)>>, out[p])

\* onTransmitDone comes in the call of writeData that wrote the last byte.
TransmitDone(p) ==
    /\ end[p].st = "RUNNING" /\ end[p].dir = "upload" /\ end[p].sock = "open" /\ ~end[p].failing
    /\ Acts(p, [end[p] EXCEPT !.st = "GET"], out[p])
    /\ wire' = [wire EXCEPT ![Other(p)] = Sent(Other(p), <<Msg("Data")>>)]

\* processSND and startData: the start, the size and the type must be those of
\* the Download, and its file is opened.
ProcessSND(p) ==
    /\ Receives(p, "SND")
    /\ \/ end[p].st # "SND" /\ Ignore(p)
       \/ end[p].st = "SND" /\ Become(p, [end[p] EXCEPT !.st = "RUNNING"], <<>>, out[p])
       \/ end[p].st = "SND" /\ Disconnect(p, end[p], <<>>, PutBack(p))
       \/ /\ end[p].st = "SND" /\ Head(wire[p])[2] # end[p].dl
          /\ Disconnect(p, end[p], <<>>, out[p])

\* onData up to endData: the Download is put back, finished or not.  Data that is
\* not waited for is taken for commands.
OnData(p) ==
    /\ Receives(p, "Data")
    /\ IF end[p].st = "RUNNING" /\ end[p].dir = "download"
       THEN \/ CheckDownloads(p, end[p], <<>>, PutBack(p))
            \/ Disconnect(p, end[p], <<>>, PutBack(p))
       ELSE Ignore(p) \/ Disconnect(p, end[p], <<>>, out[p])

\* Only the NMDC command is checked against the state.
Unexpected(p) ==
    IF proto = "NMDC" THEN end[p].st # "SND" ELSE ~end[p].assoc \/ end[p].dir # "download"

MaxedOut(p) ==
    /\ Receives(p, "MaxedOut")
    /\ IF Unexpected(p)
       THEN IF proto = "NMDC" THEN Disconnect(p, end[p], <<>>, out[p]) ELSE Ignore(p)
       ELSE Become(p, [end[p] EXCEPT !.st = "TRY_AGAIN"], <<>>, PutBack(p))

FileNotAvailable(p) ==
    /\ Receives(p, "NotAvailable")
    /\ IF Unexpected(p)
       THEN IF proto = "NMDC" /\ end[p].dl # NoDownload THEN Disconnect(p, end[p], <<>>, out[p])
                                                       ELSE Ignore(p)
       ELSE CheckDownloads(p, end[p], <<>>, PutBack(p))

\* What failDownload puts back.
FailDownload(p) == IF end[p].assoc /\ end[p].dir = "download" THEN PutBack(p) ELSE out[p]

\* protocolError, up to putConnection.
ProtocolError(p) ==
    /\ Receives(p, "Error")
    /\ Become(p, [end[p] EXCEPT !.failing = TRUE], <<>>, FailDownload(p))

-----------------------------------------------------------------------------
(* The end of the connection.                                                *)

\* The socket is closed, and what the other end has not got by then may be lost;
\* onFailed returns at once if the connection has been put away.
OnFailedKeeping(p) ==
    /\ ~end[p].failing
    /\ Acts(p, IF end[p].st = "UNUSED" THEN [end[p] EXCEPT !.sock = "closed"]
               ELSE [end[p] EXCEPT !.sock = "closed", !.st = "UNCONNECTED", !.failing = TRUE], out[p])
    /\ \E k \in 0 .. Len(wire[Other(p)]) :
          wire' = [wire EXCEPT ![p] = <<>>, ![Other(p)] = SubSeq(@, 1, k)]

OnFailed(p) ==
    /\ ~end[p].failing
    /\ IF end[p].st = "UNUSED" THEN Acts(p, [end[p] EXCEPT !.sock = "closed"], out[p])
       ELSE Acts(p, [end[p] EXCEPT !.sock = "closed", !.st = "UNCONNECTED", !.failing = TRUE],
                 FailDownload(p))
    /\ \E k \in 0 .. Len(wire[Other(p)]) :
          wire' = [wire EXCEPT ![p] = <<>>, ![Other(p)] = SubSeq(@, 1, k)]

\* The thread of the socket sees stopFlag, or that the other end is closed.
Stop(p) == end[p].sock = "stopping" /\ OnFailed(p)

RemoteClosed(p) ==
    /\ end[p].sock \in {"open", "draining"} /\ wire[p] = <<>> /\ end[Other(p)].sock = "closed"
    /\ OnFailed(p)

\* The network fails.
Break(p) == end[p].sock \in {"open", "draining"} /\ OnFailed(p)

\* All is written, or it takes too long.
Drain(p) ==
    /\ end[p].sock = "draining"
    /\ end' = [end EXCEPT ![p].sock = "stopping"]
    /\ UNCHANGED <<config, wire, out, check, crossed>>

\* The user or, when the connection is idle, the timer disconnects it.
DisconnectAtOnce(p) ==
    /\ end[p].sock = "open"
    /\ end' = [end EXCEPT ![p].sock = "stopping"]
    /\ UNCHANGED <<config, wire, out, check, crossed>>

\* ConnectionManager::failed ends with putConnection, which waits for
\* csConnections.
PutConnection(p) ==
    /\ end[p].failing /\ check[p]["timer"].pc = "off"
    /\ Acts(p, Unused(end[p]), out[p])
    /\ UNCHANGED wire

\* checkConnections erases connections that are not used any more.
Erase(p) ==
    /\ end[p].st = "UNUSED" /\ end[p].listed /\ check[p]["timer"].pc = "off"
    /\ end' = [end EXCEPT ![p].listed = FALSE]
    /\ UNCHANGED <<config, wire, out, check, crossed>>

-----------------------------------------------------------------------------
(* checkDownloads, by the timer and by a thread that queues something.       *)

\* The state is looked at: by the timer with csConnections held, by
\* getDownloadConnection after it has been released.
Look(p, t) ==
    /\ check[p][t] = Off /\ end[p].listed /\ check[p]["timer"].pc = "off"
    /\ \/ t = "timer" /\ end[p].st \in {"IDLE", "TRY_AGAIN"}
       \/ t = "queuer" /\ end[p].st = "IDLE"
    /\ check' = [check EXCEPT ![p][t].pc = "looked"]
    /\ crossed' = [crossed EXCEPT ![p] = @ \/ Checking(p) \/ end[p].failing]
    /\ UNCHANGED <<config, end, wire, out>>

\* getDownload, which sets the connection's Download.
GetDownload(p, t) ==
    /\ check[p][t].pc = "looked"
    /\ \/ \E d \in Downloads \ out[p] :
             /\ check' = [check EXCEPT ![p][t] = [pc |-> "got", dl |-> d]]
             /\ end' = [end EXCEPT ![p].dl = d]
             /\ out' = [out EXCEPT ![p] = @ \cup {d}]
       \/ check' = [check EXCEPT ![p][t].pc = "none"] /\ UNCHANGED <<end, out>>
    /\ UNCHANGED <<config, wire, crossed>>

\* The state is set, whatever it has become, and the request is sent.
Request(p, t) ==
    /\ \/ /\ check[p][t].pc = "got"
          /\ end' = [end EXCEPT ![p].st = "SND"]
          /\ wire' = [wire EXCEPT ![Other(p)] =
                        IF end[p].sock = "closed" THEN @ ELSE Sent(Other(p), <<<<"GET", check[p][t].dl>>>>)]
       \/ check[p][t].pc = "none" /\ end' = [end EXCEPT ![p].st = "IDLE"] /\ UNCHANGED wire
    /\ check' = [check EXCEPT ![p][t] = [Off EXCEPT !.pc = IF t = "timer" THEN "off" ELSE "done"]]
    /\ UNCHANGED <<config, out, crossed>>

-----------------------------------------------------------------------------
Handle(p) ==
    \/ ProcessMyNick(p) \/ ProcessLock(p) \/ ProcessDirection(p) \/ ProcessKey(p)
    \/ ProcessSUP(p) \/ ProcessINF(p) \/ ProcessGET(p) \/ ProcessSND(p) \/ OnData(p)
    \/ MaxedOut(p) \/ FileNotAvailable(p) \/ ProtocolError(p)

Socket(p) ==
    \/ p = "out" /\ OnConnected
    \/ Handle(p) \/ TransmitDone(p) \/ PutConnection(p) \/ Stop(p) \/ RemoteClosed(p) \/ Drain(p)

Next ==
    \E p \in Peers :
       \/ Socket(p) \/ Erase(p) \/ Break(p) \/ DisconnectAtOnce(p)
       \/ \E t \in Checkers : Look(p, t) \/ GetDownload(p, t) \/ Request(p, t)

Spec == Init /\ [][Next]_vars

\* Every thread goes on, and one that waits for csConnections gets it, although the
\* timer takes it again and again.  Nobody need disconnect, and the network need not
\* fail.
Fairness ==
    \A p \in Peers :
       /\ WF_vars(Socket(p)) /\ SF_vars(PutConnection(p)) /\ WF_vars(Erase(p))
       /\ \A t \in Checkers : WF_vars(GetDownload(p, t) \/ Request(p, t))

FairSpec == Spec /\ Fairness

-----------------------------------------------------------------------------
\* The ends agree on who downloads: never do both take the connection for a
\* download, and with NMDC not both for an upload either ($Direction, with the
\* numbers drawn by the ends, and the token of ADC).
RolesAgree ==
    /\ ~(end["in"].assoc /\ end["out"].assoc /\ end["in"].dir = "download" /\ end["out"].dir = "download")
    /\ proto = "NMDC" /\ end["in"].assoc /\ end["out"].assoc => end["in"].dir # end["out"].dir

\* The state in which a command is waited for (checkState).
Awaits ==
    [MyNick |-> "SUPNICK", SUP |-> "SUPNICK", Lock |-> "LOCK", Direction |-> "DIRECTION",
     Key |-> "KEY", INF |-> "INF", GET |-> "GET", SND |-> "SND", MaxedOut |-> "SND",
     NotAvailable |-> "SND", Data |-> "RUNNING"]

Refused(p) == \E i \in DOMAIN wire[p] : wire[p][i] = Msg("Error")

\* As long as both ends go on, and no end's calls of checkDownloads overlap, every
\* command finds the state that it is meant for: none is dropped by checkState, and
\* an answer is to the Download that the connection has.
CommandsExpected ==
    \A p \in Peers :
       Listening(p) /\ wire[p] # <<>> /\ Head(wire[p])[1] \in DOMAIN Awaits
         => \/ end[p].st = Awaits[Head(wire[p])[1]]
               /\ (Head(wire[p])[1] = "SND" => Head(wire[p])[2] = end[p].dl)
            \/ \E q \in Peers : crossed[q] \/ end[q].sock # "open" \/ end[q].failing \/ Refused(q)

\* No Download is lost with the connection: what the queue has handed out to an end
\* is the connection's Download or about to be, and has been put back when the
\* connection is put away - unless calls of checkDownloads overlap or meet a failure.
DownloadsKept ==
    \A p \in Peers :
       ~crossed[p] => /\ out[p] \subseteq {end[p].dl}
                      /\ end[p].st = "UNUSED" => out[p] = {}

Introducing == {"CONNECT", "SUPNICK", "LOCK", "DIRECTION", "KEY", "INF"}

\* The introduction ends, every request is answered and every transfer comes to its
\* end, and a connection that is put away is erased: an end stays only where it
\* waits for something to do, in GET, IDLE or TRY_AGAIN - unless calls of
\* checkDownloads overlap.  (After "not available" the next request follows at once.)
Settles ==
    \A p \in Peers :
       /\ []<>(end[p].st \notin Introducing \cup {"UNCONNECTED"} \/ crossed[p])
       /\ []<>(end[p].st # "SND" \/ Receives(p, "NotAvailable") \/ crossed[p])
       /\ []<>(end[p].st # "RUNNING" \/ crossed[p])
       /\ []<>(end[p].st # "UNUSED" \/ ~end[p].listed \/ crossed[p])

=============================================================================
