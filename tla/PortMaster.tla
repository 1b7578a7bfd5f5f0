------------------------------ MODULE PortMaster ------------------------------
(***************************************************************************)
(* The PortMaster of the socket library (COSMIC/EXE/Spm.c): a single       *)
(* process that serves one connection after the other and keeps a table of *)
(* server names and ports; and the processes that talk to it with Sopen,   *)
(* Sclose, Srmsrvr and the tools spmtable, spmchk and sktdbg.              *)
(*                                                                         *)
(* The library writes a whole answer at once and then waits, for at most   *)
(* 20 seconds, for the next; a step goes from one such wait to the next.   *)
(* Processes may be killed or be slow at any time, and either side may     *)
(* give up while the other is about to answer.  Programs that are not of   *)
(* the library may also send a part of an event or of a name, and the rest *)
(* later or never.                                                         *)
(***************************************************************************)
EXTENDS Integers, Sequences, SequencesExt, FiniteSets

CONSTANTS
    Proc,       \* processes that use the library
    Name,       \* server names
    Conn,       \* connections to the PortMaster that can exist at a time
    Port,       \* ports that the system gives to servers
    Host,       \* machines
    PmHost,     \* the machine of the PortMaster
    HostOf,     \* HostOf[p]: the machine of a process
    Octet,      \* Octet[h]: one octet of a machine's address, for all four
    FwFiles,    \* the contents that the firewall file may have: sets of octets
    Calls,      \* Calls[p]: what a process does (see Op), with which names
    MaxFd,      \* how many descriptors the PortMaster has for clients
    MaxTry,     \* PM_MAXTRY, how often it asks to send an event again
    MaxMishap,  \* bound on kills and on waits of processes that time out
    None

Op == {"server", "Server", "client", "wait", "close", "remove", "purge",
       "table", "fwinit", "quit", "check", "strange", "tornEvent", "tornName"}

\* A client that sends the first byte of its event, or of the name, alone.
TornOps == {"tornEvent", "tornName"}

\* The calls that are given the name of a server.
NamedOps == {"server", "Server", "client", "wait", "remove", "purge"} \cup TornOps

ASSUME PortMasterAssumption ==
    /\ Conn \subseteq Nat /\ Conn # {}
    /\ Port \subseteq Nat \ {0}
    /\ PmHost \in Host
    /\ HostOf \in [Proc -> Host]
    /\ Octet \in [Host -> 0..255]
    /\ FwFiles \subseteq SUBSET (0..255)
    /\ Calls \in [Proc -> SUBSET (Op \X (Name \cup {None}))]
    /\ MaxFd \in Nat \ {0}
    /\ MaxTry \in Nat \ {0}
    /\ \A p \in Proc : \A c \in Calls[p] : c[1] \in NamedOps => c[2] # None
    /\ MaxMishap \in Nat \ {0}
    /\ None \notin Name \cup Host \cup Proc \cup Conn

VARIABLES
    pm,        \* where the PortMaster is, and the dialogue it is in
    table,     \* the PortTable list: name, sharehost and port of each server
    waiting,   \* the ClientWaiting list: connection and name of each client
    backlog,   \* connections that were made and not accepted yet
    firewall,  \* the list spmfwhd, as the set of its octets; {} is no firewall
    conn,      \* the connections: what was sent and not read, who closed
    proc,      \* the processes
    mishap     \* how much has gone wrong: kills, waits that timed out, removals
               \* by name and ports that two servers have, up to MaxMishap

vars == <<pm, table, waiting, backlog, firewall, conn, proc, mishap>>

(***************************************************************************)
(* Connections.                                                            *)
(***************************************************************************)

Free == [toPm |-> <<>>, toCl |-> <<>>, cl |-> FALSE, pm |-> FALSE,
         from |-> None]

goesWrong == mishap' = IF mishap < MaxMishap THEN mishap + 1 ELSE mishap

FreeConn == {k \in Conn : conn[k] = Free}

\* c[k] after the client, or the PortMaster, has closed its end.
clCloses(c, k) ==
    IF k = None THEN c
    ELSE [c EXCEPT ![k] = IF @.pm THEN [@ EXCEPT !.cl = FALSE, !.toCl = <<>>]
                          ELSE Free]

pmCloses(c, k) ==
    [c EXCEPT ![k] = IF @.cl THEN [@ EXCEPT !.pm = FALSE, !.toPm = <<>>]
                     ELSE Free]

\* What is sent to an end that was closed is lost.
clSends(c, k, msgs) ==
    [c EXCEPT ![k].toPm = IF c[k].pm THEN @ \o msgs ELSE @]

pmSends(c, k, msgs) ==
    [c EXCEPT ![k].toCl = IF c[k].cl THEN @ \o msgs ELSE @]

Ok    == <<"PM_OK">>
Sorry == <<"PM_SORRY">>
Part  == <<"part">>         \* of an event or a name, without its last byte

(***************************************************************************)
(* The PortMaster.                                                         *)
(***************************************************************************)

\* Where it waits.  "dead": not running; "spin": in a loop without end.
Places == {"dead", "accept", "event", "host", "name", "port", "final",
           "tell", "tellMore", "cname", "wname", "cport", "rname", "qname",
           "spin"}

Accepting == [at |-> "accept", conn |-> None, share |-> None, name |-> None,
              port |-> 0, tries |-> 0]

InDialogue == pm.at \notin {"dead", "accept", "spin"}

Waits == InDialogue /\ pm.at \notin {"tell", "tellMore"}

\* What is there is read by Sreadbytes and Sgets, which read all of it.
Input == Head(conn[pm.conn].toPm)

HasInput == conn[pm.conn].toPm # <<>> /\ Input # Part

\* Stimeoutwait is content with a part; for the rest Sreadbytes and Sgets wait
\* without a limit.
HalfRead ==
    /\ pm.at \in {"event", "cname"}
    /\ conn[pm.conn].toPm # <<>> /\ Input = Part

\* The connections after the input was read and msgs were written in answer.
Answering(msgs) ==
    pmSends([conn EXCEPT ![pm.conn].toPm = Tail(@)], pm.conn, msgs)

\* The dialogue goes on at another place, with what was read.
Continue(place, msgs) ==
    /\ pm' = [pm EXCEPT !.at = place]
    /\ conn' = Answering(msgs)

\* The dialogue is over: the loop in main closes the connection.
Finish(msgs) ==
    /\ pm' = Accepting
    /\ conn' = pmCloses(Answering(msgs), pm.conn)

\* char is signed, so that the octet of the own host is stored as it is only
\* when it is below 128; -1 is also what stands for *.
hostaddr == IF Octet[PmHost] > 127 THEN Octet[PmHost] - 256 ELSE Octet[PmHost]

firewall_init(file) == IF file = {} THEN {} ELSE file \cup {hostaddr}

Rejected(h) ==
    /\ firewall # {}
    /\ \A datum \in firewall : datum # -1 /\ datum # Octet[h]

InBacklog(k) == \E i \in DOMAIN backlog : backlog[i] = k

\* The connections that were accepted and not closed.
Accepted == {k \in Conn : conn[k].pm /\ ~InBacklog(k)}

\* Saccept fails, and main tries again at once.  Only the telling of clients
\* that wait would close connections, and that needs an accepted server.
NoDescriptor == pm.at = "accept" /\ Cardinality(Accepted) >= MaxFd

Accept ==
    /\ pm.at = "accept" /\ ~NoDescriptor
    /\ backlog # <<>>
    /\ backlog' = Tail(backlog)
    /\ LET k == Head(backlog) IN
       IF Rejected(conn[k].from)
       THEN /\ conn' = pmCloses(pmSends(conn, k, <<Sorry>>), k)
            /\ goesWrong
            /\ UNCHANGED pm
       ELSE /\ pm' = [pm EXCEPT !.at = "event", !.conn = k]
            /\ UNCHANGED <<conn, mishap>>
    /\ UNCHANGED <<table, waiting, firewall, proc>>

\* The first answer to an event that a dialogue follows, and the next place.
Opening == [PM_SERVER |-> "name", PM_SHARE |-> "host", PM_CLIENT |-> "cname",
            PM_CLIENTWAIT |-> "wname", PM_CLOSE |-> "cport",
            PM_RMSERVER |-> "rname", PM_QUIT |-> "qname"]

BeginDialogue ==
    /\ pm.at = "event" /\ HasInput
    /\ Input[1] \in DOMAIN Opening
    /\ Continue(Opening[Input[1]], <<Ok>>)
    /\ UNCHANGED <<table, waiting, backlog, firewall, proc, mishap>>

\* The text of the table goes out as a whole after the count.
pm_table ==
    /\ pm.at = "event" /\ HasInput
    /\ Input[1] = "PM_TABLE"
    /\ Finish(<<Ok, <<"table", Len(table)>> >>)
    /\ UNCHANGED <<table, waiting, backlog, firewall, proc, mishap>>

pm_fwinit ==
    /\ pm.at = "event" /\ HasInput
    /\ Input[1] = "PM_FWINIT"
    /\ \E file \in FwFiles : firewall' = firewall_init(file)
    /\ Finish(<<Ok>>)
    /\ UNCHANGED <<table, waiting, backlog, proc, mishap>>

Unknown ==
    /\ pm.at = "event" /\ HasInput
    /\ Input[1] = "other"
    /\ IF pm.tries < MaxTry
       THEN /\ pm' = [pm EXCEPT !.tries = @ + 1]
            /\ conn' = Answering(<<<<"PM_RESEND">>>>)
       ELSE Finish(<<<<"PM_RESEND">>>>)
    /\ UNCHANGED <<table, waiting, backlog, firewall, proc, mishap>>

\* pm_server: the machine that shares this PortMaster, if it does; the name;
\* the port, with which the server is put into the table; and, when the server
\* says that it listens, the clients that wait for it.
ReadHost ==
    /\ pm.at = "host" /\ HasInput
    /\ pm' = [pm EXCEPT !.at = "name", !.share = Input[2]]
    /\ conn' = Answering(<<>>)
    /\ UNCHANGED <<table, waiting, backlog, firewall, proc, mishap>>

Entries(name) == {i \in DOMAIN table : table[i].name = name}

\* Mutant: the name is not looked up before the port is asked for.
ReadName_NoCheck ==
    /\ pm.at = "name" /\ HasInput
    /\ pm' = [pm EXCEPT !.at = "port", !.name = Input[2]]
    /\ conn' = Answering(<<>>)
    /\ UNCHANGED <<table, waiting, backlog, firewall, proc, mishap>>

ReadName ==
    /\ pm.at = "name" /\ HasInput
    /\ IF Entries(Input[2]) # {}
       THEN Finish(<<Sorry>>)
       ELSE /\ pm' = [pm EXCEPT !.at = "port", !.name = Input[2]]
            /\ conn' = Answering(<<>>)
    /\ UNCHANGED <<table, waiting, backlog, firewall, proc, mishap>>

makePortTable(port) ==
    table' = Append(table, [name |-> pm.name, share |-> pm.share, port |-> port])

\* Mutant: the clients that wait are told before the server listens.
ReadPort_TellAtOnce ==
    /\ pm.at = "port" /\ HasInput
    /\ makePortTable(Input[2])
    /\ pm' = [pm EXCEPT !.at = "tell", !.port = Input[2]]
    /\ conn' = Answering(<<Ok>>)
    /\ IF \E i \in DOMAIN table : table[i].port = Input[2]
       THEN goesWrong ELSE UNCHANGED mishap
    /\ UNCHANGED <<waiting, backlog, firewall, proc>>

ReadPort ==
    /\ pm.at = "port" /\ HasInput
    /\ makePortTable(Input[2])
    /\ pm' = [pm EXCEPT !.at = "final", !.port = Input[2]]
    /\ conn' = Answering(<<Ok>>)
    /\ IF \E i \in DOMAIN table : table[i].port = Input[2]
       THEN goesWrong ELSE UNCHANGED mishap
    /\ UNCHANGED <<waiting, backlog, firewall, proc>>

ReadFinalOk ==
    /\ pm.at = "final" /\ HasInput
    /\ Continue("tell", <<>>)
    /\ UNCHANGED <<table, waiting, backlog, firewall, proc, mishap>>

\* PM_OK with the port, or PM_OKSHARE with the machine and the port.
Located(entry) ==
    IF entry.share = None THEN <<"PM_OK", entry.port>>
    ELSE <<"PM_OKSHARE", entry.share, entry.port>>

TellWaiting ==
    /\ pm.at \in {"tell", "tellMore"}
    /\ waiting # <<>>
    /\ Head(waiting).name = pm.name
    /\ LET k == Head(waiting).conn IN
       conn' = pmCloses(pmSends(conn, k, <<Located(pm)>>), k)
    /\ waiting' = Tail(waiting)
    /\ pm' = [pm EXCEPT !.at = "tellMore"]
    /\ UNCHANGED <<table, backlog, firewall, proc, mishap>>

\* The loop ends at a client that waits for another server when it is the
\* first of the list; after one that was told, cwnxt still points to it and
\* the loop goes on for ever.
EndTelling ==
    /\ pm.at \in {"tell", "tellMore"}
    /\ waiting # <<>> => Head(waiting).name # pm.name
    /\ IF pm.at = "tell" \/ waiting = <<>>
       THEN /\ pm' = Accepting
            /\ conn' = pmCloses(conn, pm.conn)
       ELSE /\ pm' = [pm EXCEPT !.at = "spin"]
            /\ UNCHANGED conn
    /\ UNCHANGED <<table, waiting, backlog, firewall, proc, mishap>>

\* Mutant: the table is not looked at before the client is put on the list.
pm_client_NoLook ==
    /\ pm.at \in {"cname", "wname"} /\ HasInput
    /\ IF pm.at = "wname"
       THEN /\ waiting' = Append(waiting, [conn |-> pm.conn, name |-> Input[2]])
            /\ pm' = Accepting
            /\ conn' = Answering(<<>>)
       ELSE /\ Finish(<<Sorry>>)
            /\ UNCHANGED waiting
    /\ UNCHANGED <<table, backlog, firewall, proc, mishap>>

\* Mutant: the connection of a client that waits is closed.
pm_client_Closes ==
    /\ pm.at \in {"cname", "wname"} /\ HasInput
    /\ IF Entries(Input[2]) = {} /\ pm.at = "wname"
       THEN waiting' = Append(waiting, [conn |-> pm.conn, name |-> Input[2]])
       ELSE UNCHANGED waiting
    /\ Finish(<<Sorry>>)
    /\ UNCHANGED <<table, backlog, firewall, proc, mishap>>

\* The connection of a client that waits is not closed.
pm_client ==
    /\ pm.at \in {"cname", "wname"} /\ HasInput
    /\ LET found == Entries(Input[2]) IN
       IF found = {} /\ pm.at = "wname"
       THEN /\ waiting' = Append(waiting, [conn |-> pm.conn, name |-> Input[2]])
            /\ pm' = Accepting
            /\ conn' = Answering(<<>>)
       ELSE /\ Finish(<<IF found = {} THEN Sorry
                        ELSE Located(table[CHOOSE i \in found : \A j \in found : i <= j])>>)
            /\ UNCHANGED waiting
    /\ UNCHANGED <<table, backlog, firewall, proc, mishap>>

\* Removes the first entry of those in the set; answers whether there was one.
delPortTable(found) ==
    IF found = {}
    THEN /\ Finish(<<Sorry>>)
         /\ UNCHANGED table
    ELSE /\ Finish(<<Ok>>)
         /\ table' = RemoveAt(table, CHOOSE i \in found : \A j \in found : i <= j)

\* Mutant: the first entry of the table is removed.
pm_close_First ==
    /\ pm.at = "cport" /\ HasInput
    /\ delPortTable(DOMAIN table)
    /\ UNCHANGED <<waiting, backlog, firewall, proc, mishap>>

pm_close ==
    /\ pm.at = "cport" /\ HasInput
    /\ delPortTable({i \in DOMAIN table : table[i].port = Input[2]})
    /\ UNCHANGED <<waiting, backlog, firewall, proc, mishap>>

pm_rmserver ==
    /\ pm.at = "rname" /\ HasInput
    /\ delPortTable(Entries(Input[2]))
    /\ goesWrong
    /\ UNCHANGED <<waiting, backlog, firewall, proc>>

\* The PortMaster ends: the system closes its sockets.
pmEnds ==
    /\ pm' = [Accepting EXCEPT !.at = "dead"]
    /\ conn' = [k \in Conn |-> IF conn[k].pm THEN pmCloses(conn, k)[k]
                               ELSE conn[k]]
    /\ table' = <<>> /\ waiting' = <<>> /\ backlog' = <<>> /\ firewall' = {}
    /\ goesWrong
    /\ UNCHANGED proc

pm_quit ==
    /\ pm.at = "qname" /\ HasInput
    /\ IF Input[2] = "PortMaster" THEN pmEnds
       ELSE /\ Finish(<<Sorry>>)
            /\ UNCHANGED <<table, waiting, backlog, firewall, proc, mishap>>

\* Mutant: only the end of the connection ends a dialogue.
longjmp_AtEof ==
    /\ Waits /\ conn[pm.conn].toPm = <<>>
    /\ ~conn[pm.conn].cl
    /\ pm' = Accepting
    /\ conn' = pmCloses(conn, pm.conn)
    /\ UNCHANGED <<table, waiting, backlog, firewall, proc, mishap>>

\* Nothing comes for 20 seconds, or the other end is closed: longjmp to the
\* top of the loop, which closes the connection.  What was entered in the table
\* stays there.  The variable client was set after setjmp and is not volatile:
\* it may be NULL again, and then the connection is left open.
longjmp ==
    /\ Waits /\ conn[pm.conn].toPm = <<>>
    /\ pm' = Accepting
    /\ conn' \in {conn, pmCloses(conn, pm.conn)}
    /\ IF conn[pm.conn].cl THEN goesWrong ELSE UNCHANGED mishap
    /\ UNCHANGED <<table, waiting, backlog, firewall, proc>>

\* The client goes after a part of its event: recv answers 0, which does not
\* end the loop of Sreadbytes.
Spins ==
    /\ HalfRead /\ pm.at = "event" /\ ~conn[pm.conn].cl
    /\ pm' = [pm EXCEPT !.at = "spin"]
    /\ UNCHANGED <<table, waiting, backlog, firewall, conn, proc, mishap>>

\* It goes after a part of the name: Sgets fails.  What pm_client answers then
\* is lost.
CutName ==
    /\ HalfRead /\ pm.at = "cname" /\ ~conn[pm.conn].cl
    /\ pm' = Accepting
    /\ conn' = pmCloses(conn, pm.conn)
    /\ UNCHANGED <<table, waiting, backlog, firewall, proc, mishap>>

\* Killed; also by SIGPIPE, which is not caught, when it writes a second time
\* to a connection whose client has gone.
PmKilled ==
    /\ pm.at # "dead" /\ mishap < MaxMishap
    /\ pmEnds

\* Spm is started (again), with an empty table.
Sopen_prtmstr ==
    /\ pm.at = "dead"
    /\ pm' = Accepting
    /\ \E file \in FwFiles : firewall' = firewall_init(file)
    /\ UNCHANGED <<table, waiting, backlog, conn, proc, mishap>>

PmStep ==
    \/ Accept \/ BeginDialogue \/ pm_table \/ pm_fwinit \/ Unknown
    \/ ReadHost \/ ReadName \/ ReadPort \/ ReadFinalOk
    \/ TellWaiting \/ EndTelling
    \/ pm_client \/ pm_close \/ pm_rmserver \/ pm_quit \/ longjmp
    \/ Spins \/ CutName

(***************************************************************************)
(* The processes.  phase: "idle"; "next", about to connect again in         *)
(* Sopen(name,"S"); "asked", the event is sent; "told", the rest is sent;  *)
(* "spin", Sreadbytes on a closed connection.                              *)
(***************************************************************************)

Idle == [op |-> "none", phase |-> "idle", name |-> None, conn |-> None,
         port |-> 0, listening |-> FALSE]

shares(p) == HostOf[p] # PmHost       \* PMSHARE is set on other machines

EventOf(p, op) ==
    CASE op \in {"server", "Server"} /\ ~shares(p) -> "PM_SERVER"
      [] op \in {"server", "Server"} /\ shares(p)  -> "PM_SHARE"
      [] op \in {"client", "tornName"} -> "PM_CLIENT"
      [] op = "tornEvent"            -> "part"
      [] op = "wait"                 -> "PM_CLIENTWAIT"
      [] op = "close"                -> "PM_CLOSE"
      [] op \in {"remove", "purge"}  -> "PM_RMSERVER"
      [] op = "table"                -> "PM_TABLE"
      [] op = "fwinit"               -> "PM_FWINIT"
      [] op = "quit"                 -> "PM_QUIT"
      [] OTHER                       -> "other"

\* What is left of the process when the call has failed: Sopen(name,"S") goes
\* on by removing the name and opening once more.
Failed(r) ==
    CASE r.op = "Server" -> [Idle EXCEPT !.op = "purge", !.phase = "next",
                                         !.name = r.name]
      [] r.op = "purge"  -> [Idle EXCEPT !.op = "server", !.phase = "next",
                                         !.name = r.name]
      [] OTHER -> Idle

\* Sopen_clientport.
connected(p) == [Free EXCEPT !.pm = TRUE, !.cl = TRUE, !.from = HostOf[p]]

Sopen_clientport(k, new) ==
    /\ k \in FreeConn /\ \A l \in FreeConn : k <= l
    /\ backlog' = Append(backlog, k)
    /\ conn' = [conn EXCEPT ![k] = new]

\* ... and the first Swrite, of the event.
Connect(p, rec, op) ==
    \E k \in Conn :
       /\ Sopen_clientport(k, [connected(p) EXCEPT !.toPm = << <<EventOf(p, op)>> >>])
       /\ proc' = [proc EXCEPT ![p] =
                      [rec EXCEPT !.op = op, !.phase = "asked", !.conn = k]]

FreePort(p) ==
    {q \in Port : \A r \in Proc : HostOf[r] = HostOf[p] => proc[r].port # q}

\* A server binds its socket first.
ConnectServer(p, op, n) ==
    \E q \in FreePort(p) : Connect(p, [Idle EXCEPT !.name = n, !.port = q], op)

Call(p) ==
    /\ proc[p] = Idle
    /\ pm.at # "dead"
    /\ \E c \in Calls[p] :
          LET op == c[1]
              n == c[2]
          IN  CASE op \in {"server", "Server"} -> ConnectServer(p, op, n)
                [] op \notin {"server", "Server", "close", "purge", "check"} ->
                      Connect(p, [Idle EXCEPT !.name = n], op)
                [] OTHER -> FALSE
    /\ UNCHANGED <<pm, table, waiting, firewall, mishap>>

\* spmchk connects and closes without a word.
spmchk(p) ==
    /\ proc[p] = Idle
    /\ pm.at # "dead"
    /\ <<"check", None>> \in Calls[p]
    /\ \E k \in Conn : Sopen_clientport(k, [connected(p) EXCEPT !.cl = FALSE])
    /\ UNCHANGED <<pm, table, waiting, firewall, proc, mishap>>

\* Sclose of a server.  Without a PortMaster the socket is just closed.
Sclose(p) ==
    /\ proc[p].listening /\ proc[p].phase = "idle"
    /\ <<"close", None>> \in Calls[p]
    /\ IF pm.at = "dead"
       THEN /\ proc' = [proc EXCEPT ![p] = Idle]
            /\ UNCHANGED <<conn, backlog>>
       ELSE Connect(p, proc[p], "close")
    /\ UNCHANGED <<pm, table, waiting, firewall, mishap>>

\* The second and third step of Sopen(name,"S").
CallNext(p) ==
    /\ proc[p].phase = "next"
    /\ IF pm.at = "dead"
       THEN /\ proc' = [proc EXCEPT ![p] = Failed(@)]
            /\ UNCHANGED <<conn, backlog>>
       ELSE IF proc[p].op = "server"
       THEN ConnectServer(p, "server", proc[p].name)
       ELSE Connect(p, proc[p], proc[p].op)
    /\ UNCHANGED <<pm, table, waiting, firewall, mishap>>

Calling(p) == proc[p].phase \in {"asked", "told"}

HasAnswer(p) == Calling(p) /\ conn[proc[p].conn].toCl # <<>>

Answer(p) == Head(conn[proc[p].conn].toCl)

\* The connections after the answer was read and msgs were written.
Replying(p, msgs) ==
    clSends([conn EXCEPT ![proc[p].conn].toCl = Tail(@)], proc[p].conn, msgs)

Fails(p) == proc' = [proc EXCEPT ![p] = Failed(@)]

\* The first answer.  PM_SORRY comes from the firewall.
Refused(p) ==
    /\ proc[p].phase = "asked" /\ HasAnswer(p)
    /\ Answer(p) = Sorry
    /\ conn' = clCloses(conn, proc[p].conn)
    /\ Fails(p)
    /\ UNCHANGED <<pm, table, waiting, backlog, firewall, mishap>>

Resend(p) ==
    /\ proc[p].phase = "asked" /\ HasAnswer(p)
    /\ Answer(p)[1] = "PM_RESEND"
    /\ conn' = Replying(p, << <<EventOf(p, proc[p].op)>> >>)
    /\ UNCHANGED <<pm, table, waiting, backlog, firewall, proc, mishap>>

Rest(p) ==
    LET r == proc[p]
        name == <<"name", r.name>>
        port == <<"port", r.port>>
    IN  CASE r.op \in {"server", "Server"} /\ shares(p) ->
               << <<"host", HostOf[p]>>, name, port>>
          [] r.op \in {"server", "Server"} /\ ~shares(p) -> <<name, port>>
          [] r.op \in {"client", "wait", "remove", "purge"} -> <<name>>
          [] r.op = "close" -> <<port>>
          [] r.op = "tornName" -> <<Part>>
          [] OTHER -> <<>>

TellRest(p) ==
    /\ proc[p].phase = "asked" /\ HasAnswer(p)
    /\ Answer(p) = Ok /\ proc[p].op \notin {"quit", "fwinit"}
    /\ conn' = Replying(p, Rest(p))
    /\ proc' = [proc EXCEPT ![p].phase = "told"]
    /\ UNCHANGED <<pm, table, waiting, backlog, firewall, mishap>>

\* The rest of an event or a name, when the PortMaster has begun to read (a
\* rest that comes before is one with its part).
SendRest(p) ==
    /\ proc[p].op \in TornOps /\ Calling(p)
    /\ HalfRead /\ pm.conn = proc[p].conn
    /\ conn' = [conn EXCEPT ![pm.conn].toPm =
                   IF pm.at = "event" THEN << <<"PM_CLIENT">> >>
                   ELSE << <<"name", proc[p].name>> >>]
    /\ proc' = [proc EXCEPT ![p].op = "client"]
    /\ UNCHANGED <<pm, table, waiting, backlog, firewall, mishap>>

\* sktdbg has its answer when the file is read again, and closes at once after
\* the name that ends the PortMaster.
doneAtOnce(p, op) ==
    /\ proc[p].phase = "asked" /\ HasAnswer(p)
    /\ Answer(p) = Ok /\ proc[p].op = op
    /\ proc' = [proc EXCEPT ![p] = Idle]
    /\ UNCHANGED <<pm, table, waiting, backlog, firewall, mishap>>

\* The first leaves its end open until sktdbg ends: at once or, here, never.
Tfwinit(p) ==
    /\ doneAtOnce(p, "fwinit")
    /\ LET read == Replying(p, <<>>) IN
       conn' \in {read, clCloses(read, proc[p].conn)}

Tshut(p) ==
    /\ doneAtOnce(p, "quit")
    /\ conn' = clCloses(Replying(p, << <<"name", "PortMaster">> >>), proc[p].conn)

\* The last answer ends the call.
lastAnswer(p, ops) == proc[p].phase = "told" /\ proc[p].op \in ops /\ HasAnswer(p)

\* A server listens before it says PM_OK.
Sopen_server(p) ==
    /\ lastAnswer(p, {"server", "Server"})
    /\ IF Answer(p) = Ok
       THEN /\ conn' = clCloses(Replying(p, <<Ok>>), proc[p].conn)
            /\ proc' = [proc EXCEPT ![p].op = "none", ![p].phase = "idle",
                                    ![p].conn = None, ![p].listening = TRUE]
       ELSE /\ conn' = clCloses(Replying(p, <<>>), proc[p].conn)
            /\ Fails(p)
    /\ UNCHANGED <<pm, table, waiting, backlog, firewall, mishap>>

\* Whatever the answer is, the connection is closed and the call is over (see
\* Failed for a purge).
endsWith(p, ops) ==
    /\ lastAnswer(p, ops)
    /\ conn' = clCloses(Replying(p, <<>>), proc[p].conn)
    /\ Fails(p)
    /\ UNCHANGED <<pm, table, waiting, backlog, firewall, mishap>>

Sopen_client(p) == endsWith(p, {"client", "wait"})
Srmsrvr(p)      == endsWith(p, {"remove", "purge"})
SclosePM(p)     == endsWith(p, {"close"})
printPMtable(p) == endsWith(p, {"table"})

\* Nothing comes: the PortMaster has closed the connection, or 20 seconds have
\* passed.  A blocking client waits without limit (Swait), and so does Srmsrvr
\* (Sreadbytes), which does not even notice that the connection is closed.
\* Sclose may leave its end open until the program ends: at once or, here, never.
LosesTouch(p) ==
    /\ Calling(p) /\ ~HasAnswer(p)
    /\ LET r == proc[p]
           closed == ~conn[r.conn].pm
           removes == r.op \in {"remove", "purge"} /\ r.phase = "told"
       IN  /\ closed \/ ~(removes \/ (r.op = "wait" /\ r.phase = "told"))
           /\ IF closed THEN UNCHANGED mishap ELSE mishap < MaxMishap /\ goesWrong
           /\ IF removes
              THEN /\ proc' = [proc EXCEPT ![p].phase = "spin"]
                   /\ UNCHANGED conn
              ELSE /\ \/ conn' = clCloses(conn, r.conn)
                      \/ r.op = "close" /\ UNCHANGED conn
                   /\ Fails(p)
    /\ UNCHANGED <<pm, table, waiting, backlog, firewall>>

Kill(p) ==
    /\ proc[p] # Idle /\ mishap < MaxMishap
    /\ proc' = [proc EXCEPT ![p] = Idle]
    /\ conn' = clCloses(conn, proc[p].conn)
    /\ goesWrong
    /\ UNCHANGED <<pm, table, waiting, backlog, firewall>>

Init ==
    /\ pm = Accepting
    /\ table = <<>> /\ waiting = <<>> /\ backlog = <<>>
    /\ \E file \in FwFiles : firewall = firewall_init(file)
    /\ conn = [k \in Conn |-> Free]
    /\ proc = [p \in Proc |-> Idle]
    /\ mishap = 0

Next ==
    \/ PmStep \/ PmKilled \/ Sopen_prtmstr
    \/ \E p \in Proc :
          \/ Call(p) \/ spmchk(p) \/ Sclose(p) \/ CallNext(p) \/ Refused(p) \/ Resend(p)
          \/ TellRest(p) \/ SendRest(p) \/ Tfwinit(p) \/ Tshut(p)
          \/ Sopen_server(p) \/ Sopen_client(p) \/ Srmsrvr(p) \/ SclosePM(p)
          \/ printPMtable(p) \/ LosesTouch(p) \/ Kill(p)

\* The PortMaster runs; nothing is assumed of the processes.
Spec == Init /\ [][Next]_vars /\ WF_vars(PmStep)

(***************************************************************************)
(* Properties.                                                             *)
(***************************************************************************)

Message ==
    [{1} -> {"PM_SERVER", "PM_SHARE", "PM_CLIENT", "PM_CLIENTWAIT", "PM_CLOSE",
             "PM_RMSERVER", "PM_TABLE", "PM_FWINIT", "PM_QUIT", "PM_OK",
             "PM_SORRY", "PM_RESEND", "other", "part"}]
    \cup {"name"} \X (Name \cup {"PortMaster"})
    \cup {"host"} \X Host
    \cup {"port", "PM_OK"} \X Port
    \cup {"table"} \X Nat
    \cup {"PM_OKSHARE"} \X Host \X Port

\* Every variable holds values of its type; a connection that only one end
\* has is in use, and the PortMaster is in a dialogue with a connection that
\* it has not closed.
PortMasterTypeOK ==
    /\ pm \in [at : Places, conn : Conn \cup {None}, share : Host \cup {None},
               name : Name \cup {None}, port : Port \cup {0}, tries : 0..MaxTry]
    /\ InDialogue => conn[pm.conn].pm
    /\ table \in Seq([name : Name, share : Host \cup {None}, port : Port])
    /\ waiting \in Seq([conn : Conn, name : Name])
    /\ \A i \in DOMAIN waiting : conn[waiting[i].conn].pm
    /\ backlog \in Seq(Conn)
    /\ firewall \subseteq -128..255
    /\ conn \in [Conn -> [toPm : Seq(Message), toCl : Seq(Message),
                          cl : BOOLEAN, pm : BOOLEAN, from : Host \cup {None}]]
    /\ proc \in [Proc -> [op : Op \cup {"none"},
                          phase : {"idle", "next", "asked", "told", "spin"},
                          name : Name \cup {None}, conn : Conn \cup {None},
                          port : Port \cup {0}, listening : BOOLEAN]]
    /\ mishap \in 0..MaxMishap

\* No two servers of the table have the same name, though a name is looked up
\* a wait earlier than it is entered (pm_server).
NamesUnique ==
    \A i, j \in DOMAIN table : table[i].name = table[j].name => i = j

EntryOf(p) == [name |-> proc[p].name, port |-> proc[p].port,
               share |-> IF shares(p) THEN HostOf[p] ELSE None]

\* As long as nothing has gone wrong - no process was killed, no wait timed
\* out, no entry was removed by name, no two entries have had the same port -
\* the table is true: a server that listens and does not close is in it, and
\* what is in it is a socket that some process has.
TableIsTrue ==
    mishap = 0 =>
       /\ \A p \in Proc : proc[p].listening /\ proc[p].op = "none" =>
             \E i \in DOMAIN table : table[i] = EntryOf(p)
       /\ \A i \in DOMAIN table : \E p \in Proc : table[i] = EntryOf(p)

\* As long as nothing has gone wrong, no client is left waiting for a server
\* that listens, once the PortMaster is done with that server (pm_server's last
\* loop).
NoneForgotten ==
    mishap = 0 /\ pm.at \in {"accept", "spin"} =>
       \A i \in DOMAIN waiting : ~\E p \in Proc :
          /\ proc[p].listening /\ proc[p].op = "none"
          /\ proc[p].name = waiting[i].name

\* The same of the client at the head of the list only.
HeadNotForgotten ==
    mishap = 0 /\ pm.at = "accept" /\ waiting # <<>> =>
       ~\E p \in Proc : /\ proc[p].listening /\ proc[p].op = "none"
                       /\ proc[p].name = Head(waiting).name

\* A client that waits is told of a server only when that server listens:
\* PM_SERVER's last PM_OK comes after listen (Sopen_server).
ToldWhenListening ==
    [][Len(waiting') < Len(waiting) /\ mishap' = 0 =>
         \E p \in Proc : proc[p].listening /\ proc[p].name = Head(waiting).name]_vars

\* Every connection is taken from the backlog in the end, whatever processes do
\* between whole messages: stop, or leave connections open; unless the
\* PortMaster is stopped.  In three ways it ends in serving nobody: in a loop
\* without end (of pm_server, or of Sreadbytes when an event is cut off); with a
\* part of an event or a name and the rest withheld for ever; with all of its
\* descriptors in use, by clients that wait or by what longjmp left open.
Served ==
    \A k \in Conn :
       InBacklog(k) ~> ~InBacklog(k) \/ pm.at = "spin" \/ NoDescriptor \/ []HalfRead

================================================================================
