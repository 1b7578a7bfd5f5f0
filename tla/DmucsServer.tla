----------------------------- MODULE DmucsServer -----------------------------
(***************************************************************************)
(* The main loop of the dmucs server and the programs that connect to it:  *)
(* gethost, loadavg, remhost and addhost, and monitor.  The server is one  *)
(* thread that selects among its sockets and blocks when it reads.  Of the *)
(* database it uses what HostPool promises, which DmucsDb implements; the  *)
(* server can be stopped and started again, and then it knows nothing.     *)
(***************************************************************************)
EXTENDS Integers, FiniteSets, Sequences, SequencesExt

CONSTANTS
  Gethost,     \* gethost processes
  Sender,      \* processes that send one line and close
  Line,        \* the lines they send (see SenderLine)
  Conn,        \* connections that can exist at a time: Socket objects
  Host,        \* hosts
  NCpus,       \* the number of cpus of each host
  MaxFd,       \* the highest file descriptor; that of the server socket is 0
  MaxAsk,      \* bound on the requests of one gethost
  MaxJoin,     \* bound on how often a host is put into service
  MaxStart,    \* bound on how often the server is started
  None

SenderLine == {"load", "up", "down", "monitor", "bad"}

ASSUME ServerAssumption ==
  /\ Line \subseteq SenderLine
  /\ Conn \subseteq Nat /\ IsFiniteSet(Conn)
  /\ NCpus \in [Host -> Nat \ {0}]
  /\ MaxFd \in Nat /\ MaxAsk \in Nat /\ MaxJoin \in Nat /\ MaxStart \in Nat \ {0}
  /\ None \notin Host \cup Nat \cup {"load", "up", "down", "monitor", "bad", "host",
                                    "0.0.0.0", "text"}
  /\ "0.0.0.0" \notin Host /\ "text" \notin Host

VARIABLES
  at,         \* where the server is
  cur,        \* the connection it reads from
  next,       \* where it goes on after that
  rmask,      \* the file descriptors that select found ready
  mask,       \* those it selects among
  waitall,    \* and the first argument of select
  fdList,     \* the connections, in the order they were accepted
  backlog,    \* connections that wait to be accepted
  conn,       \* the connections
  status, free, holder,  \* the database: host states, free cpus, who has one
  proc,       \* the processes
  joins, starts          \* counters for the bounds

db     == <<status, free, holder>>
select == <<rmask, mask, waitall, fdList>>
vars   == <<at, cur, next, select, backlog, conn, db, proc, joins, starts>>

lent == [h \in Host |-> Cardinality({k \in Conn : holder[k] = h})]

Db == INSTANCE HostPool WITH MaxLent <- Cardinality(Conn)

-----------------------------------------------------------------------------
(* Sockets *)

ServerFd == 0

\* cl, sv: the end of the client and of the server is open; fd: the server's
\* file descriptor after accept; line, reply: what was sent and not read.
Free == [cl |-> FALSE, sv |-> FALSE, fd |-> None, line |-> None, reply |-> None]

Fds == {conn[k].fd : k \in Range(fdList)}

Readable(k) == conn[k].line # None \/ ~conn[k].cl

svCloses(c, k) ==
  [c EXCEPT ![k] = IF @.cl THEN [@ EXCEPT !.sv = FALSE, !.fd = None, !.line = None]
                   ELSE Free]

clCloses(c, k) ==
  [c EXCEPT ![k] = IF @.sv THEN [@ EXCEPT !.cl = FALSE, !.reply = None] ELSE Free]

\* Mutant: the highest descriptor is not recomputed but overwritten.
Smaskset_Overwrite(fd) == mask' = mask \cup {fd} /\ waitall' = fd + 1

Smaskset(fd) ==
  /\ mask' = mask \cup {fd}
  /\ waitall' = IF fd >= waitall THEN fd + 1 ELSE waitall

Smaskunset(fd) == mask' = mask \ {fd} /\ UNCHANGED waitall

\* c is conn after the line was read.
removeFd(c, k) ==
  /\ Smaskunset(conn[k].fd)
  /\ fdList' = RemoveAt(fdList, CHOOSE i \in DOMAIN fdList : fdList[i] = k)
  /\ conn' = svCloses(c, k)

-----------------------------------------------------------------------------
(* The main loop *)

\* Mutant: the first of the list is read, ready or not.
ServeFirst_NotReady(ready) ==
  IF fdList # <<>> THEN at' = "read" /\ cur' = Head(fdList) /\ next' = "accept"
                   ELSE at' = "accept" /\ UNCHANGED <<cur, next>>

\* The first of fdList that is ready is served, and no other.
ServeFirst(ready) ==
  LET isReady(i) == conn[fdList[i]].fd \in ready
  IN  \/ \E i \in DOMAIN fdList :
           /\ isReady(i) /\ \A j \in 1..(i - 1) : ~isReady(j)
           /\ at' = "read" /\ cur' = fdList[i] /\ next' = "accept"
      \/ /\ \A i \in DOMAIN fdList : ~isReady(i)
         /\ at' = "accept" /\ UNCHANGED <<cur, next>>

\* Only descriptors below waitall are looked at.
Smaskwait ==
  /\ at = "select"
  /\ rmask' = {fd \in mask : /\ fd < waitall
                             /\ IF fd = ServerFd THEN backlog # <<>>
                                ELSE \E k \in Range(fdList) : conn[k].fd = fd /\ Readable(k)}
  /\ rmask' # {}
  /\ ServeFirst(rmask')
  /\ UNCHANGED <<mask, waitall, fdList, backlog, conn, db, proc, joins, starts>>

\* A new connection is read from at once.  Without a free descriptor accept fails,
\* and the connection stays where it is.
Saccept ==
  /\ at = "accept"
  /\ LET unused == (1..MaxFd) \ Fds
     IN  IF ServerFd \in rmask /\ unused # {}
         THEN /\ at' = "read" /\ cur' = Head(backlog) /\ next' = "select"
              /\ backlog' = Tail(backlog)
              /\ \E fd \in unused :
                   /\ \A other \in unused : fd <= other
                   /\ conn' = [conn EXCEPT ![Head(backlog)].fd = fd]
                   /\ Smaskset(fd)
              /\ fdList' = Append(fdList, Head(backlog))
         ELSE at' = "select" /\ UNCHANGED <<cur, next, mask, waitall, fdList, backlog, conn>>
  /\ rmask' = {}
  /\ UNCHANGED <<db, proc, joins, starts>>

\* handleReq is at the top of its body, where Sgets blocks until a line or the end
\* of the connection comes.
Handles(line) ==
  /\ at = "read"
  /\ conn[cur].line = line
  /\ at' = next /\ cur' = None /\ next' = "select"
  /\ UNCHANGED <<rmask, backlog, proc, starts>>

Read == [conn EXCEPT ![cur].line = None]

Answer(reply) == [Read EXCEPT ![cur].reply = IF conn[cur].cl THEN reply ELSE None]

\* Mutant: the cpu that is given out stays in the pool.
HostReqMsg_KeepsFree ==
  /\ Handles("host")
  /\ \/ \E h \in Host :
          /\ free[h] > 0
          /\ holder' = [holder EXCEPT ![cur] = h]
          /\ conn' = Answer(h)
     \/ /\ \A h \in Host : free[h] = 0
        /\ conn' = Answer("0.0.0.0")
        /\ UNCHANGED holder
  /\ UNCHANGED <<status, free, mask, waitall, fdList, joins>>

\* Mutant: a gethost that cannot be given a cpu gets no answer.
HostReqMsg_NoRefusal ==
  /\ Handles("host")
  /\ \/ \E h \in Host :
          /\ holder' = [holder EXCEPT ![cur] = h]
          /\ Db!Lend(h)
          /\ conn' = Answer(h)
     \/ /\ \A h \in Host : free[h] = 0
        /\ conn' = Read
        /\ UNCHANGED db
  /\ UNCHANGED <<mask, waitall, fdList, joins>>

HostReqMsg ==
  /\ Handles("host")
  /\ \/ \E h \in Host :
          /\ holder' = [holder EXCEPT ![cur] = h]
          /\ Db!Lend(h)
          /\ conn' = Answer(h)
     \/ /\ \A h \in Host : free[h] = 0
        /\ conn' = Answer("0.0.0.0")
        /\ UNCHANGED db
  /\ UNCHANGED <<mask, waitall, fdList, joins>>

\* Put into service, again or for the first time.
Join(h) ==
  /\ joins[h] < MaxJoin /\ joins' = [joins EXCEPT ![h] = @ + 1]
  /\ UNCHANGED holder
  /\ Db!Join(h)

Keeps == UNCHANGED <<db, joins>>

\* Load averages put a host that is new, silent or overloaded into service, or
\* find it too busy; a host that was taken out of service stays there.
LdAvgMsg ==
  /\ Handles("load")
  /\ \E h \in Host :
       \/ status[h] # "unavailable" /\ Join(h)
       \/ status[h] = "available" /\ UNCHANGED <<holder, joins>> /\ Db!Overload(h)
       \/ Keeps
  /\ removeFd(Read, cur)

StatusUpMsg ==
  /\ Handles("up")
  /\ \E h \in Host : Join(h) \/ Keeps
  /\ removeFd(Read, cur)

StatusDownMsg ==
  /\ Handles("down")
  /\ \E h \in Host : (UNCHANGED <<holder, joins>> /\ Db!Down(h)) \/ Keeps
  /\ removeFd(Read, cur)

MonitorReqMsg ==
  /\ Handles("monitor")
  /\ Keeps
  /\ removeFd(Answer("text"), cur)

BadMsg ==
  /\ Handles("bad")
  /\ Keeps
  /\ removeFd(Read, cur)

\* Mutant: the socket is closed and its cpu is not given back.
Closed_NoRelease ==
  /\ Handles(None) /\ ~conn[cur].cl
  /\ Keeps
  /\ removeFd(conn, cur)

\* The client has closed: the cpu that it has goes back.
Closed ==
  /\ Handles(None) /\ ~conn[cur].cl
  /\ IF holder[cur] = None THEN UNCHANGED db
     ELSE /\ holder' = [holder EXCEPT ![cur] = None]
          /\ Db!Return(holder[cur])
  /\ removeFd(conn, cur)
  /\ UNCHANGED joins

handleReq ==
  \/ HostReqMsg \/ LdAvgMsg \/ StatusUpMsg \/ StatusDownMsg \/ MonitorReqMsg \/ BadMsg
  \/ Closed

\* The thread that looks for silent hosts.
doSilentSearch ==
  /\ at # "dead"
  /\ UNCHANGED holder /\ Db!Silence /\ status' # status
  /\ UNCHANGED <<at, cur, next, select, backlog, conn, proc, joins, starts>>

ServerStep == Smaskwait \/ Saccept \/ handleReq

\* The server is stopped: the database is lost and the system closes the sockets.
Stop ==
  /\ at # "dead" /\ starts < MaxStart
  /\ at' = "dead" /\ cur' = None /\ next' = "select"
  /\ rmask' = {} /\ mask' = {} /\ waitall' = 0 /\ fdList' = <<>> /\ backlog' = <<>>
  /\ conn' = [k \in Conn |-> IF conn[k].sv THEN svCloses(conn, k)[k] ELSE conn[k]]
  /\ status' = [h \in Host |-> "none"]
  /\ free' = [h \in Host |-> 0]
  /\ holder' = [k \in Conn |-> None]
  /\ UNCHANGED <<proc, joins, starts>>

Start ==
  /\ at = "dead"
  /\ at' = "select" /\ Smaskset(ServerFd)
  /\ starts' = starts + 1
  /\ UNCHANGED <<cur, next, rmask, fdList, backlog, conn, db, proc, joins>>

-----------------------------------------------------------------------------
(* The processes.  phase: "idle"; "connected"; "asked" or, for a monitor,   *)
(* "asked" as well; "running", the command of a gethost, on host uses or,   *)
(* when that is None, on its own machine.                                   *)

Process == Gethost \cup Sender

Idle == [phase |-> "idle", conn |-> None, uses |-> None, asks |-> 0]

Sopen(p) ==
  /\ proc[p] = Idle /\ at # "dead"
  /\ \E k \in Conn :
       /\ conn[k] = Free /\ \A l \in Conn : conn[l] = Free => k <= l
       /\ conn' = [conn EXCEPT ![k] = [Free EXCEPT !.cl = TRUE, !.sv = TRUE]]
       /\ backlog' = Append(backlog, k)
       /\ proc' = [proc EXCEPT ![p].phase = "connected", ![p].conn = k]
  /\ UNCHANGED <<at, cur, next, select, db, joins, starts>>

Mine(p) == conn[proc[p].conn]

\* What is sent to a server that has gone is lost.
Sputs(p, line) ==
  IF Mine(p).sv THEN [conn EXCEPT ![proc[p].conn].line = line, ![proc[p].conn].reply = None]
                ELSE conn

\* gethost asks, for the first time or because it got 0.0.0.0.
Ask(p) ==
  /\ p \in Gethost
  /\ \/ proc[p].phase = "connected"
     \/ proc[p].phase = "asked" /\ Mine(p).reply = "0.0.0.0" /\ proc[p].asks < MaxAsk
  /\ conn' = Sputs(p, "host")
  /\ proc' = [proc EXCEPT ![p].phase = "asked", ![p].asks = @ + 1]
  /\ UNCHANGED <<at, cur, next, select, backlog, db, joins, starts>>

WriteAndClose(p, line) ==
  /\ p \in Sender /\ proc[p].phase = "connected"
  /\ line \in Line
  /\ conn' = clCloses(Sputs(p, line), proc[p].conn)
  /\ proc' = [proc EXCEPT ![p] = Idle]
  /\ UNCHANGED <<at, cur, next, select, backlog, db, joins, starts>>

\* loadavg, once in each turn of its loop.
SendLoad(p) == WriteAndClose(p, "load")

\* addhost and remhost.
SendStatus(p) == WriteAndClose(p, "up") \/ WriteAndClose(p, "down")

\* A program that is not of dmucs, or a line that is not as parseMsg wants it.
SendBad(p) == WriteAndClose(p, "bad")

\* The monitor waits for the text, shows it and closes.
SendMonitor(p) ==
  /\ p \in Sender /\ proc[p].phase = "connected"
  /\ "monitor" \in Line
  /\ conn' = Sputs(p, "monitor")
  /\ proc' = [proc EXCEPT ![p].phase = "asked"]
  /\ UNCHANGED <<at, cur, next, select, backlog, db, joins, starts>>

Send(p) == SendLoad(p) \/ SendStatus(p) \/ SendBad(p) \/ SendMonitor(p)

\* Mutant: the address 0.0.0.0 is used like any other.
Run_NoCheck(p) ==
  /\ p \in Gethost /\ proc[p].phase = "asked"
  /\ Mine(p).reply # None
  /\ conn' = [conn EXCEPT ![proc[p].conn].reply = None]
  /\ proc' = [proc EXCEPT ![p].phase = "running", ![p].uses = Mine(p).reply]
  /\ UNCHANGED <<at, cur, next, select, backlog, db, joins, starts>>

\* Mutant: the socket is closed before the command runs.
Run_Closes(p) ==
  /\ p \in Gethost /\ proc[p].phase = "asked"
  /\ Mine(p).reply # None
  /\ conn' = clCloses(conn, proc[p].conn)
  /\ proc' = [proc EXCEPT ![p].phase = "running",
                ![p].uses = IF Mine(p).reply \in Host THEN Mine(p).reply ELSE None]
  /\ UNCHANGED <<at, cur, next, select, backlog, db, joins, starts>>

\* With an answer the command runs, there or here.
Run(p) ==
  /\ p \in Gethost /\ proc[p].phase = "asked"
  /\ Mine(p).reply # None
  /\ conn' = [conn EXCEPT ![proc[p].conn].reply = None]
  /\ proc' = [proc EXCEPT ![p].phase = "running",
                ![p].uses = IF Mine(p).reply \in Host THEN Mine(p).reply ELSE None]
  /\ UNCHANGED <<at, cur, next, select, backlog, db, joins, starts>>

Ends(p) ==
  /\ conn' = clCloses(conn, proc[p].conn)
  /\ proc' = [proc EXCEPT ![p] = Idle]
  /\ UNCHANGED <<at, cur, next, select, backlog, db, joins, starts>>

\* The command has ended; or the monitor has shown what it read.
Done(p) ==
  /\ proc[p].phase = "running" \/ (p \in Sender /\ proc[p].phase = "asked" /\ Mine(p).reply # None)
  /\ Ends(p)

\* Killed, or Sgets failed because the server has gone.  A command that runs keeps
\* the connection open.
Dies(p) ==
  /\ proc[p].phase \in {"connected", "asked"}
  /\ Ends(p)

GivesUp(p) == proc[p].phase = "asked" /\ ~Mine(p).sv /\ Mine(p).reply = None /\ Ends(p)

-----------------------------------------------------------------------------

Init ==
  /\ at = "select" /\ cur = None /\ next = "select" /\ rmask = {}
  /\ mask = {ServerFd} /\ waitall = ServerFd + 1
  /\ fdList = <<>> /\ backlog = <<>>
  /\ conn = [k \in Conn |-> Free]
  /\ status = [h \in Host |-> "none"] /\ free = [h \in Host |-> 0]
  /\ holder = [k \in Conn |-> None]
  /\ proc = [p \in Process |-> Idle]
  /\ joins = [h \in Host |-> 0] /\ starts = 1

Next ==
  \/ ServerStep \/ doSilentSearch \/ Stop \/ Start
  \/ \E p \in Process :
       Sopen(p) \/ Ask(p) \/ Send(p) \/ Run(p) \/ Done(p) \/ Dies(p)

\* The server runs and is started again.  A process that has connected sends its line,
\* one that has an answer uses it, a command ends, and a process that waits for a
\* server that has gone gives up.
Spec ==
  /\ Init /\ [][Next]_vars
  /\ WF_vars(ServerStep) /\ WF_vars(Start)
  /\ \A p \in Process :
       /\ WF_vars(Ask(p) /\ proc[p].phase = "connected") /\ WF_vars(Send(p))
       /\ WF_vars(Run(p)) /\ WF_vars(Done(p)) /\ WF_vars(GivesUp(p))

-----------------------------------------------------------------------------
(* Properties *)

Connection == [cl : BOOLEAN, sv : BOOLEAN, fd : (1..MaxFd) \cup {None},
               line : SenderLine \cup {"host", None},
               reply : Host \cup {"0.0.0.0", "text", None}]
Status == {"none", "available", "unavailable", "overloaded", "silent"}
Activity == [phase : {"idle", "connected", "asked", "running"},
             conn : Conn \cup {None}, uses : Host \cup {None}, asks : 0..(MaxAsk + 1)]

\* The variables hold values of their types.
ServerTypeOK ==
  /\ at \in {"dead", "select", "read", "accept"}
  /\ cur \in Conn \cup {None} /\ next \in {"select", "accept"}
  /\ rmask \subseteq 0..MaxFd /\ mask \subseteq 0..MaxFd /\ waitall \in 0..(MaxFd + 1)
  /\ fdList \in Seq(Conn) /\ backlog \in Seq(Conn)
  /\ conn \in [Conn -> Connection]
  /\ status \in [Host -> Status]
  /\ free \in [Host -> Nat] /\ holder \in [Conn -> Host \cup {None}]
  /\ proc \in [Process -> Activity]

\* select looks at every socket of fdList and at the server's, and at no descriptor
\* that is closed, though descriptors are used again in another order than they were
\* given up (addFd, removeFd and the Smask functions).
MaskIsFdList ==
  at # "dead" =>
    /\ mask = Fds \cup {ServerFd}
    /\ \A fd \in mask : fd < waitall
    /\ Cardinality(Fds) = Len(fdList)
    /\ \A k \in Range(fdList) : conn[k].sv /\ conn[k].fd # None

\* A socket that was accepted earlier is read from only when there is something to
\* read: the server can be blocked only by a connection that it has just accepted.
BlockedOnlyByNew ==
  at = "read" /\ ~Readable(cur) => next = "select" /\ cur = Last(fdList)

\* Whatever dies, restarts or asks again, no more commands are on a host at once
\* than it was given cpus to lend, over all the servers that knew it.
CommandsBounded ==
  \A h \in Host :
    Cardinality({p \in Gethost : proc[p].uses = h}) + free[h] <= joins[h] * NCpus[h]

\* As long as one server runs, a command holds the cpu it was given until it ends.
HoldsWhileRunning ==
  \A p \in Gethost :
    proc[p].uses # None /\ Mine(p).sv => holder[proc[p].conn] = proc[p].uses

\* The cpu of a client that has closed is given back, whatever else the server has
\* to read or accept.
CpuComesBack ==
  \A k \in Conn : holder[k] # None /\ ~conn[k].cl ~> holder[k] = None

\* Every connection is accepted and every gethost gets an answer, unless the server
\* or the gethost stops.
EveryoneServed ==
  /\ \A k \in Conn : (\E i \in DOMAIN backlog : backlog[i] = k)
                       ~> ~\E i \in DOMAIN backlog : backlog[i] = k
  /\ \A p \in Gethost : (proc[p].phase = "asked" /\ Mine(p).reply = None)
                          ~> (proc[p].phase # "asked" \/ Mine(p).reply # None)

=============================================================================
