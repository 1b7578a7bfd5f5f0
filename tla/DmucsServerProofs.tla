--------------------------- MODULE DmucsServerProofs ---------------------------
(***************************************************************************)
(* Proofs about DmucsServer: the types, that select looks at exactly the   *)
(* open sockets, that only a new socket can block the server, that a       *)
(* command holds the cpu that it was given, and how many commands run on a *)
(* host.                                                                   *)
(***************************************************************************)
EXTENDS DmucsServer, Positions, FiniteSetTheorems, TLAPS

-----------------------------------------------------------------------------
(* Types.  The invariant also says where cur, the backlog and the           *)
(* connections of the processes are defined.                                *)

ServerPart ==
  /\ at \in {"dead", "select", "read", "accept"}
  /\ cur \in Conn \cup {None} /\ next \in {"select", "accept"}
  /\ at = "read" => cur \in Range(fdList)
MaskPart ==
  /\ rmask \subseteq 0..MaxFd /\ mask \subseteq 0..MaxFd /\ waitall \in 0..(MaxFd + 1)
  /\ fdList \in Seq(Conn)
QueuePart ==
  /\ backlog \in Seq(Conn)
  /\ ServerFd \in rmask => backlog # <<>>
ConnPart == conn \in [Conn -> Connection]
DbPart ==
  /\ status \in [Host -> Status] /\ free \in [Host -> Nat]
  /\ holder \in [Conn -> Host \cup {None}]
ProcPart ==
  /\ proc \in [Process -> Activity]
  /\ \A p \in Process :
       /\ proc[p].phase # "idle" => proc[p].conn \in Conn
       /\ proc[p].phase = "connected" => proc[p].asks = 0

TypeInv == ServerPart /\ MaskPart /\ QueuePart /\ ConnPart /\ DbPart /\ ProcPart

\* The functions on connections.
LEMMA ConnFunctions ==
  ASSUME NEW c \in [Conn -> Connection], NEW k \in Conn
  PROVE  /\ svCloses(c, k) \in [Conn -> Connection]
         /\ clCloses(c, k) \in [Conn -> Connection]
         /\ [c EXCEPT ![k].line = None] \in [Conn -> Connection]
<1>1. Free \in Connection
  BY DEF Free, Connection
<1> QED BY <1>1 DEF svCloses, clCloses, Connection

LEMMA Answers ==
  ASSUME ConnPart, NEW r \in Host \cup {"0.0.0.0", "text"}, cur \in Conn
  PROVE  Read \in [Conn -> Connection] /\ Answer(r) \in [Conn -> Connection]
<1>1. Read \in [Conn -> Connection]
  BY ConnFunctions DEF Read, ConnPart
<1>2. Answer(r) \in [Conn -> Connection]
  BY <1>1 DEF Answer, Connection, ConnPart
<1> QED BY <1>1, <1>2

LEMMA Puts ==
  ASSUME ConnPart, NEW p \in Process, proc[p].conn \in Conn,
         NEW line \in SenderLine \cup {"host"}
  PROVE  Sputs(p, line) \in [Conn -> Connection]
BY DEF Sputs, Mine, Connection, ConnPart

\* The database.
LEMMA DbSteps ==
  ASSUME ServerAssumption, DbPart, NEW h \in Host,
         \/ Db!Join(h) \/ Db!Down(h) \/ Db!Overload(h) \/ Db!Lend(h) \/ Db!Return(h)
         \/ Db!Silence \/ UNCHANGED <<status, free>>
  PROVE  status' \in [Host -> Status] /\ free' \in [Host -> Nat]
<1>1. CASE Db!Join(h)
  BY <1>1 DEF Db!Join, DbPart, Status, ServerAssumption
<1>2. CASE Db!Down(h) \/ Db!Overload(h) \/ Db!Silence
  BY <1>2 DEF Db!Down, Db!Overload, Db!Silence, Db!Withdraw, DbPart, Status
<1>3. CASE Db!Lend(h)
  BY <1>3 DEF Db!Lend, DbPart
<1>4. CASE Db!Return(h)
  BY <1>4 DEF Db!Return, DbPart
<1> QED BY <1>1, <1>2, <1>3, <1>4 DEF DbPart

LEMMA RemoveFdTypes ==
  ASSUME ServerAssumption, MaskPart, NEW c \in [Conn -> Connection], NEW k \in Conn,
         k \in Range(fdList), removeFd(c, k), UNCHANGED rmask
  PROVE  MaskPart' /\ ConnPart'
<1>1. PICK i \in DOMAIN fdList : fdList[i] = k
  BY DEF Range
<1>2. RemoveAt(fdList, CHOOSE j \in DOMAIN fdList : fdList[j] = k) \in Seq(Conn)
  BY <1>1, Removed DEF MaskPart
<1>3. fdList' \in Seq(Conn)
  BY <1>2 DEF removeFd
<1>4. ConnPart'
  BY ConnFunctions DEF removeFd, ConnPart
<1> QED BY <1>3, <1>4 DEF removeFd, Smaskunset, MaskPart

LEMMA CurIsConn ==
  ASSUME TypeInv, at = "read"
  PROVE  cur \in Conn /\ cur \in Range(fdList)
BY DEF TypeInv, ServerPart, MaskPart, Range

LEMMA TypeInit ==
  ASSUME ServerAssumption, Init
  PROVE  TypeInv
<1>1. ServerPart
  BY DEF Init, ServerPart
<1>2. MaskPart
  BY DEF Init, MaskPart, ServerFd, ServerAssumption
<1>3. QueuePart
  BY DEF Init, QueuePart
<1>4. ConnPart
  BY DEF Init, ConnPart, Free, Connection
<1>5. DbPart
  BY DEF Init, DbPart, Status
<1>6. ProcPart
  BY DEF Init, ProcPart, Idle, Activity, ServerAssumption
<1> QED BY <1>1, <1>2, <1>3, <1>4, <1>5, <1>6 DEF TypeInv

\* The steps of the server's thread.
LEMMA SelectTypes ==
  ASSUME ServerAssumption, TypeInv, Smaskwait
  PROVE  TypeInv'
<1> USE DEF TypeInv
<1>1. ServerPart'
  BY DEF Smaskwait, ServeFirst, ServerPart, MaskPart, Range
<1>2. MaskPart' /\ QueuePart'
  BY DEF Smaskwait, MaskPart, QueuePart, ServerFd
<1>3. ConnPart' /\ DbPart' /\ ProcPart'
  BY DEF Smaskwait, ConnPart, DbPart, ProcPart, db
<1> QED BY <1>1, <1>2, <1>3

LEMMA AcceptTypes ==
  ASSUME ServerAssumption, TypeInv, Saccept
  PROVE  TypeInv'
<1> USE DEF TypeInv
<1>0. DbPart' /\ ProcPart'
  BY DEF Saccept, DbPart, ProcPart, db
<1> DEFINE unused == (1..MaxFd) \ Fds
<1>1. CASE ServerFd \in rmask /\ unused # {}
  <2>1. backlog # <<>> /\ Head(backlog) \in Conn /\ Tail(backlog) \in Seq(Conn)
    BY <1>1 DEF QueuePart
  <2>2. PICK fd \in unused :
          /\ conn' = [conn EXCEPT ![Head(backlog)].fd = fd]
          /\ Smaskset(fd)
    BY <1>1 DEF Saccept
  <2>3. fd \in 1..MaxFd
    OBVIOUS
  <2>4. /\ fdList' = Append(fdList, Head(backlog)) /\ cur' = Head(backlog)
        /\ at' = "read" /\ next' = "select" /\ backlog' = Tail(backlog) /\ rmask' = {}
    BY <1>1 DEF Saccept
  <2>5. fdList' \in Seq(Conn) /\ cur' \in Range(fdList')
    <3>1. fdList' \in Seq(Conn) /\ DOMAIN fdList' = 1..(Len(fdList) + 1)
          /\ fdList'[Len(fdList) + 1] = cur'
      BY <2>1, <2>4, AppendProperties DEF MaskPart
    <3>2. Len(fdList) + 1 \in DOMAIN fdList'
      BY <3>1 DEF MaskPart
    <3> QED BY <3>1, <3>2 DEF Range
  <2>6. ServerPart'
    BY <2>1, <2>4, <2>5 DEF ServerPart
  <2>7. MaskPart'
    BY <2>2, <2>3, <2>4, <2>5 DEF MaskPart, Smaskset, ServerAssumption
  <2>8. QueuePart'
    BY <2>1, <2>4 DEF QueuePart
  <2>9. ConnPart'
    <3>1. conn \in [Conn -> Connection] /\ conn[Head(backlog)] \in Connection
      BY <2>1 DEF ConnPart
    <3>2. [conn[Head(backlog)] EXCEPT !.fd = fd] \in Connection
      BY <2>3, <3>1 DEF Connection
    <3> QED BY <2>1, <2>2, <3>1, <3>2 DEF ConnPart
  <2> QED BY <1>0, <2>6, <2>7, <2>8, <2>9
<1>2. CASE ~(ServerFd \in rmask /\ unused # {})
  <2>1. /\ at' = "select" /\ rmask' = {}
        /\ UNCHANGED <<cur, next, mask, waitall, fdList, backlog, conn>>
    BY <1>2 DEF Saccept
  <2> QED BY <1>0, <2>1 DEF ServerPart, MaskPart, QueuePart, ConnPart
<1> QED BY <1>1, <1>2

LEMMA HandleTypes ==
  ASSUME ServerAssumption, TypeInv, handleReq
  PROVE  TypeInv'
<1> USE DEF TypeInv
<1>0. at = "read" /\ cur \in Conn /\ cur \in Range(fdList)
  BY CurIsConn DEF handleReq, HostReqMsg, LdAvgMsg, StatusUpMsg, StatusDownMsg, MonitorReqMsg,
     BadMsg, Closed, Handles
<1>1. ServerPart' /\ QueuePart' /\ ProcPart' /\ UNCHANGED rmask
  BY DEF handleReq, HostReqMsg, LdAvgMsg, StatusUpMsg, StatusDownMsg, MonitorReqMsg,
     BadMsg, Closed, Handles, ServerPart, QueuePart, ProcPart
<1>2. DbPart'
  <2>1. CASE HostReqMsg
    BY <1>0, <2>1, DbSteps DEF HostReqMsg, DbPart, db
  <2>2. CASE LdAvgMsg \/ StatusUpMsg \/ StatusDownMsg
    BY <2>2, DbSteps DEF LdAvgMsg, StatusUpMsg, StatusDownMsg, Join, Keeps, DbPart, db
  <2>3. CASE MonitorReqMsg \/ BadMsg
    BY <2>3 DEF MonitorReqMsg, BadMsg, Keeps, DbPart, db
  <2>4. CASE Closed
    BY <1>0, <2>4, DbSteps DEF Closed, DbPart, db
  <2> QED BY <2>1, <2>2, <2>3, <2>4 DEF handleReq
<1>3. MaskPart' /\ ConnPart'
  <2>1. CASE HostReqMsg
    BY <1>0, <1>1, <2>1, Answers DEF HostReqMsg, MaskPart, ConnPart
  <2>2. CASE \E c \in {Read, Answer("text"), conn} : removeFd(c, cur)
    BY <1>0, <1>1, <2>2, Answers, RemoveFdTypes DEF ConnPart
  <2> QED
    BY <2>1, <2>2 DEF handleReq, LdAvgMsg, StatusUpMsg, StatusDownMsg, MonitorReqMsg,
       BadMsg, Closed
<1> QED BY <1>1, <1>2, <1>3

LEMMA OtherServerTypes ==
  ASSUME ServerAssumption, TypeInv, doSilentSearch \/ Stop \/ Start
  PROVE  TypeInv'
<1> USE DEF TypeInv
<1>1. CASE doSilentSearch
  <2>1. DbPart'
    BY <1>1 DEF doSilentSearch, Db!Silence, Db!Withdraw, DbPart, Status
  <2> QED
    BY <1>1, <2>1 DEF doSilentSearch, select, ServerPart, MaskPart, QueuePart, ConnPart,
       ProcPart
<1>2. CASE Stop
  <2>1. ConnPart'
    <3>1. conn' = [k \in Conn |-> IF conn[k].sv THEN svCloses(conn, k)[k] ELSE conn[k]]
      BY <1>2 DEF Stop
    <3>2. ASSUME NEW k \in Conn PROVE svCloses(conn, k)[k] \in Connection
      <4>1. svCloses(conn, k) \in [Conn -> Connection]
        BY ConnFunctions DEF ConnPart
      <4> QED BY <4>1
    <3> QED BY <3>1, <3>2 DEF ConnPart
  <2>2. DbPart'
    BY <1>2 DEF Stop, DbPart, Status
  <2> QED
    BY <1>2, <2>1, <2>2 DEF Stop, ServerPart, MaskPart, QueuePart, ProcPart, ServerAssumption
<1>3. CASE Start
  BY <1>3 DEF Start, Smaskset, ServerFd, db, ServerPart, MaskPart, QueuePart, ConnPart,
     DbPart, ProcPart, ServerAssumption
<1> QED BY <1>1, <1>2, <1>3

\* The steps of the processes.
ProcStep(p) == Sopen(p) \/ Ask(p) \/ Send(p) \/ Run(p) \/ Done(p) \/ Dies(p)

LEMMA ProcTypes ==
  ASSUME ServerAssumption, TypeInv, NEW p \in Process, ProcStep(p)
  PROVE  TypeInv'
<1> USE DEF TypeInv
<1>0. UNCHANGED <<at, cur, next, select, db>>
  BY DEF ProcStep, Sopen, Ask, Send, SendLoad, SendStatus, SendBad, SendMonitor,
     WriteAndClose, Run, Done, Dies, Ends
<1>1. ServerPart' /\ MaskPart' /\ DbPart'
  BY <1>0 DEF ServerPart, MaskPart, DbPart, select, db
<1>2. CASE Sopen(p)
  <2>1. PICK k \in Conn :
          /\ conn' = [conn EXCEPT ![k] = [Free EXCEPT !.cl = TRUE, !.sv = TRUE]]
          /\ backlog' = Append(backlog, k)
          /\ proc' = [proc EXCEPT ![p].phase = "connected", ![p].conn = k]
          /\ proc[p] = Idle
    BY <1>2 DEF Sopen
  <2>2. ConnPart'
    BY <2>1 DEF ConnPart, Free, Connection
  <2>3. QueuePart'
    <3>1. backlog' \in Seq(Conn) /\ backlog' # <<>>
      BY <2>1 DEF QueuePart
    <3> QED BY <3>1 DEF QueuePart
  <2>4. ProcPart'
    BY <2>1 DEF ProcPart, Activity, Idle
  <2> QED BY <1>1, <2>2, <2>3, <2>4
<1>3. ASSUME UNCHANGED backlog
      PROVE  QueuePart'
  BY <1>0, <1>3 DEF QueuePart, select
<1>4. CASE Ask(p)
  <2>1. proc[p].conn \in Conn
    BY <1>4 DEF Ask, ProcPart
  <2>2. ConnPart'
    BY <1>4, <2>1, Puts DEF Ask, ConnPart
  <2>3. proc[p].asks + 1 \in 0..(MaxAsk + 1)
    BY <1>4 DEF Ask, ProcPart, Activity, ServerAssumption
  <2>4. ProcPart'
    BY <1>4, <2>3 DEF Ask, ProcPart, Activity
  <2> QED BY <1>1, <1>3, <1>4, <2>2, <2>4 DEF Ask
<1>5. ASSUME NEW c \in [Conn -> Connection], p \in Process,
             proc[p].phase # "idle", conn' = clCloses(c, proc[p].conn),
             proc' = [proc EXCEPT ![p] = Idle], UNCHANGED backlog
      PROVE  TypeInv'
  <2>1. ConnPart'
    BY <1>5, ConnFunctions DEF ConnPart, ProcPart
  <2>2. ProcPart'
    BY <1>5 DEF ProcPart, Idle, Activity, ServerAssumption
  <2> QED BY <1>1, <1>3, <1>5, <2>1, <2>2
<1>6. CASE Send(p)
  <2>1. ASSUME NEW line \in SenderLine, WriteAndClose(p, line)
        PROVE  TypeInv'
    <3>1. Sputs(p, line) \in [Conn -> Connection]
      BY <2>1, Puts DEF WriteAndClose, ProcPart
    <3> QED BY <1>5, <2>1, <3>1 DEF WriteAndClose
  <2>2. CASE SendMonitor(p)
    <3>1. Sputs(p, "monitor") \in [Conn -> Connection]
      BY <2>2, Puts DEF SendMonitor, ProcPart, SenderLine
    <3>2. ConnPart'
      BY <2>2, <3>1 DEF SendMonitor, ConnPart
    <3>3. ProcPart'
      BY <2>2 DEF SendMonitor, ProcPart, Activity
    <3> QED BY <1>1, <1>3, <2>2, <3>2, <3>3 DEF SendMonitor
  <2> QED
    BY <1>6, <2>1, <2>2 DEF Send, SendLoad, SendStatus, SendBad, SenderLine
<1>7. CASE Run(p)
  <2>1. ConnPart'
    <3>1. conn \in [Conn -> Connection] /\ proc[p].conn \in Conn
      BY <1>7 DEF Run, ConnPart, ProcPart
    <3>2. [conn[proc[p].conn] EXCEPT !.reply = None] \in Connection
      BY <3>1 DEF Connection
    <3>3. conn' = [conn EXCEPT ![proc[p].conn].reply = None]
      BY <1>7 DEF Run
    <3> QED BY <3>1, <3>2, <3>3 DEF ConnPart
  <2>2. ProcPart'
    <3> DEFINE host == IF Mine(p).reply \in Host THEN Mine(p).reply ELSE None
    <3>1. proc \in [Process -> Activity] /\ proc[p].phase # "idle" /\ proc[p].conn \in Conn
      BY <1>7 DEF Run, ProcPart
    <3>2. host \in Host \cup {None}
      OBVIOUS
    <3>3. proc' = [proc EXCEPT ![p].phase = "running", ![p].uses = host]
      BY <1>7 DEF Run
    <3> HIDE DEF host
    <3> DEFINE then == [[proc[p] EXCEPT !.phase = "running"] EXCEPT !.uses = host]
    <3>4. then.phase = "running" /\ then.conn = proc[p].conn
      BY <3>1 DEF Activity
    <3>5. then \in Activity
      <4>1. proc[p] \in Activity
        BY <3>1
      <4>2. [proc[p] EXCEPT !.phase = "running"] \in Activity
        BY <4>1 DEF Activity
      <4> QED BY <3>2, <4>2 DEF Activity
    <3>6. proc' = [proc EXCEPT ![p] = then]
      BY <3>1, <3>3
    <3> HIDE DEF then
    <3>7. /\ proc' \in [Process -> Activity] /\ proc'[p] = then
          /\ \A q \in Process \ {p} : proc'[q] = proc[q]
      BY <3>1, <3>5, <3>6
    <3>8. \A q \in Process : /\ proc[q].phase # "idle" => proc[q].conn \in Conn
                             /\ proc[q].phase = "connected" => proc[q].asks = 0
      BY DEF ProcPart
    <3> QED BY <3>1, <3>4, <3>7, <3>8 DEF ProcPart
  <2> QED BY <1>1, <1>3, <1>7, <2>1, <2>2 DEF Run
<1>8. CASE Done(p) \/ Dies(p)
  <2>1. proc[p].phase # "idle" /\ Ends(p)
    BY <1>8 DEF Done, Dies
  <2> QED BY <1>5, <2>1 DEF Ends, ConnPart
<1> QED BY <1>2, <1>4, <1>6, <1>7, <1>8 DEF ProcStep

LEMMA TypeNext ==
  ASSUME ServerAssumption, TypeInv, [Next]_vars
  PROVE  TypeInv'
<1>1. CASE UNCHANGED vars
  <2>1. /\ ServerPart' <=> ServerPart
        /\ MaskPart' <=> MaskPart
        /\ QueuePart' <=> QueuePart
        /\ ConnPart' <=> ConnPart
        /\ DbPart' <=> DbPart
        /\ ProcPart' <=> ProcPart
    BY <1>1 DEF vars, select, db, ServerPart, MaskPart, QueuePart, ConnPart, DbPart, ProcPart
  <2> QED BY <2>1 DEF TypeInv
<1> QED
  BY <1>1, SelectTypes, AcceptTypes, HandleTypes, OtherServerTypes, ProcTypes
  DEF Next, ServerStep, ProcStep

\* The variables of the server, its connections and its clients always hold values of
\* their types: in particular every descriptor is one that the system gives out, and no
\* host has fewer than no free cpus.
THEOREM ServerTypeCorrect == ASSUME ServerAssumption PROVE Spec => []ServerTypeOK
<1>1. Init => TypeInv
  BY TypeInit
<1>2. TypeInv /\ [Next]_vars => TypeInv'
  BY TypeNext
<1>3. TypeInv => ServerTypeOK
  BY DEF TypeInv, ServerTypeOK, ServerPart, MaskPart, QueuePart, ConnPart, DbPart, ProcPart
<1> QED BY <1>1, <1>2, <1>3, PTL DEF Spec

-----------------------------------------------------------------------------
(* The list of sockets and the mask.  That a descriptor in the mask belongs *)
(* to one socket of the list needs that the sockets of the list have        *)
(* different descriptors and that those of the backlog have none yet.       *)

ListPart ==
  /\ \A i \in DOMAIN fdList : conn[fdList[i]].sv /\ conn[fdList[i]].fd # None
  /\ \A i, j \in DOMAIN fdList : conn[fdList[i]].fd = conn[fdList[j]].fd => i = j

BacklogPart ==
  /\ \A i \in DOMAIN backlog : conn[backlog[i]].sv /\ conn[backlog[i]].fd = None
  /\ \A i, j \in DOMAIN backlog : backlog[i] = backlog[j] => i = j

BitsPart ==
  at # "dead" => mask = Fds \cup {ServerFd} /\ \A fd \in mask : fd < waitall

DeadPart ==
  at = "dead" => /\ fdList = <<>> /\ backlog = <<>> /\ mask = {} /\ waitall = 0
                 /\ \A k \in Conn : ~conn[k].sv

ListInv == ListPart /\ BacklogPart /\ BitsPart /\ DeadPart /\ BlockedOnlyByNew

LEMMA ListInit ==
  ASSUME Init
  PROVE  ListInv
<1>1. fdList = <<>> /\ backlog = <<>> /\ at = "select" /\ mask = {0} /\ waitall = 1
  BY DEF Init, ServerFd
<1>2. Fds = {}
  BY <1>1 DEF Fds, Range
<1> QED
  BY <1>1, <1>2 DEF ListInv, ListPart, BacklogPart, BitsPart, DeadPart, BlockedOnlyByNew,
     ServerFd

\* What the processes do to a connection leaves the server's end as it is.
ServerEndKept ==
  \A k \in Conn : /\ conn'[k].sv = conn[k].sv
                  /\ conn[k].sv => conn'[k].fd = conn[k].fd
                  /\ conn[k].sv /\ Readable(k) => Readable(k)'

LEMMA KeptEnds ==
  ASSUME TypeInv, ListInv, UNCHANGED <<at, cur, next, fdList, mask, waitall, backlog>>,
         ServerEndKept
  PROVE  ListInv'
<1> USE DEF TypeInv
<1>1. \A i \in DOMAIN fdList : fdList[i] \in Conn
  BY DEF MaskPart
<1>2. \A i \in DOMAIN backlog : backlog[i] \in Conn
  BY DEF QueuePart
<1>3. ListPart'
  BY <1>1 DEF ListInv, ListPart, ServerEndKept
<1>4. BacklogPart'
  BY <1>2 DEF ListInv, BacklogPart, ServerEndKept
<1>5. Fds' = Fds
  BY <1>1 DEF Fds, Range, ListInv, ListPart, ServerEndKept
<1>6. BitsPart'
  BY <1>5 DEF ListInv, BitsPart
<1>7. DeadPart'
  BY DEF ListInv, DeadPart, ServerEndKept
<1>8. BlockedOnlyByNew'
  <2> SUFFICES ASSUME at = "read", ~Readable(cur)'
               PROVE  next = "select" /\ cur = Last(fdList)
    BY DEF BlockedOnlyByNew
  <2>1. cur \in Conn /\ conn[cur].sv
    BY <1>1 DEF ServerPart, ListInv, ListPart, Range
  <2>2. ~Readable(cur)
    BY <2>1 DEF ServerEndKept
  <2> QED BY <2>2 DEF ListInv, BlockedOnlyByNew
<1> QED BY <1>3, <1>4, <1>6, <1>7, <1>8 DEF ListInv

LEMMA SelectList ==
  ASSUME ServerAssumption, TypeInv, ListInv, Smaskwait
  PROVE  ListInv'
<1> USE DEF TypeInv
<1>0. UNCHANGED <<mask, waitall, fdList, backlog, conn>> /\ at = "select"
  BY DEF Smaskwait
<1>1. at' \in {"read", "accept"}
  BY DEF Smaskwait, ServeFirst
<1>2. ListPart' /\ BacklogPart' /\ BitsPart' /\ DeadPart'
  BY <1>0, <1>1 DEF ListInv, ListPart, BacklogPart, BitsPart, DeadPart, Fds
<1>3. ASSUME at' = "read"
      PROVE  Readable(cur')
  <2>1. PICK i \in DOMAIN fdList : conn[fdList[i]].fd \in rmask' /\ cur' = fdList[i]
    BY <1>3 DEF Smaskwait, ServeFirst
  <2>2. conn[fdList[i]].fd # ServerFd
    <3>1. fdList[i] \in Conn /\ conn[fdList[i]].fd # None
      BY DEF ListInv, ListPart, MaskPart
    <3>2. conn[fdList[i]] \in Connection
      BY <3>1 DEF ConnPart
    <3> QED BY <3>1, <3>2 DEF Connection, ServerFd
  <2>3. PICK k \in Range(fdList) : conn[k].fd = conn[fdList[i]].fd /\ Readable(k)
    BY <2>1, <2>2 DEF Smaskwait
  <2>4. k = fdList[i]
    BY <2>3 DEF Range, ListInv, ListPart
  <2> QED BY <2>1, <2>3, <2>4
<1>4. BlockedOnlyByNew'
  BY <1>0, <1>3 DEF BlockedOnlyByNew, Readable
<1> QED BY <1>2, <1>4 DEF ListInv

LEMMA AcceptList ==
  ASSUME ServerAssumption, TypeInv, ListInv, Saccept
  PROVE  ListInv'
<1> USE DEF TypeInv
<1> DEFINE unused == (1..MaxFd) \ Fds
           new == Head(backlog)
<1>1. CASE ServerFd \in rmask /\ unused # {}
  <2>0. PICK fd \in unused : conn' = [conn EXCEPT ![new].fd = fd] /\ Smaskset(fd)
    BY <1>1 DEF Saccept
  <2>1. /\ fdList' = Append(fdList, new) /\ cur' = new
        /\ at' = "read" /\ at = "accept" /\ next' = "select" /\ backlog' = Tail(backlog)
    BY <1>1 DEF Saccept
  <2>2. backlog \in Seq(Conn) /\ backlog # <<>>
    BY <1>1 DEF QueuePart
  <2>3. /\ new = backlog[1] /\ 1 \in DOMAIN backlog /\ new \in Conn
        /\ DOMAIN backlog = 1..Len(backlog) /\ Len(backlog) \in Nat
        /\ DOMAIN backlog' = 1..(Len(backlog) - 1)
        /\ \A i \in 1..(Len(backlog) - 1) : backlog'[i] = backlog[i + 1]
    BY <2>1, <2>2
  <2>4. /\ fdList' \in Seq(Conn) /\ DOMAIN fdList' = 1..(Len(fdList) + 1)
        /\ \A i \in 1..Len(fdList) : fdList'[i] = fdList[i]
        /\ fdList'[Len(fdList) + 1] = new
        /\ DOMAIN fdList = 1..Len(fdList) /\ Len(fdList) \in Nat
        /\ Len(fdList') = Len(fdList) + 1
        /\ \A i \in DOMAIN fdList : fdList[i] \in Conn
    BY <2>1, <2>3, AppendProperties DEF MaskPart
  <2>5. /\ conn'[new].sv /\ conn'[new].fd = fd
        /\ \A k \in Conn \ {new} : conn'[k] = conn[k]
    <3>1. conn[new].sv
      BY <2>3 DEF ListInv, BacklogPart
    <3> QED BY <2>0, <2>3, <3>1 DEF ConnPart, Connection
  <2>6. \A i \in DOMAIN fdList : fdList[i] # new
    BY <2>3 DEF ListInv, ListPart, BacklogPart
  <2>7. fd \in 1..MaxFd /\ fd # None /\ \A i \in DOMAIN fdList : conn[fdList[i]].fd # fd
    BY DEF Fds, Range, ServerAssumption
  <2>8. /\ \A i \in 1..Len(fdList) : conn'[fdList'[i]] = conn[fdList[i]]
        /\ conn'[fdList'[Len(fdList) + 1]].sv /\ conn'[fdList'[Len(fdList) + 1]].fd = fd
    BY <2>4, <2>5, <2>6
  <2>9. ListPart'
    BY <2>4, <2>7, <2>8 DEF ListInv, ListPart
  <2>10. BacklogPart'
    <3>1. ASSUME NEW i \in 1..(Len(backlog) - 1)
          PROVE  backlog'[i] # new /\ backlog'[i] \in Conn
      <4>1. i + 1 \in DOMAIN backlog /\ i + 1 # 1 /\ backlog'[i] = backlog[i + 1]
        BY <2>3
      <4>2. backlog[i + 1] # backlog[1]
        BY <2>3, <4>1 DEF ListInv, BacklogPart
      <4>3. backlog[i + 1] \in Conn
        BY <2>2, <4>1
      <4> QED BY <2>3, <4>1, <4>2, <4>3
    <3>2. ASSUME NEW i \in 1..(Len(backlog) - 1)
          PROVE  /\ i + 1 \in DOMAIN backlog /\ backlog'[i] = backlog[i + 1]
                 /\ conn'[backlog'[i]] = conn[backlog[i + 1]]
      <4>1. i + 1 \in DOMAIN backlog /\ backlog'[i] = backlog[i + 1]
        BY <2>3
      <4>2. backlog'[i] \in Conn \ {new}
        BY <3>1
      <4>3. conn'[backlog'[i]] = conn[backlog'[i]]
        BY <2>5, <4>2
      <4> QED BY <4>1, <4>3
    <3>3. \A i \in DOMAIN backlog' : conn'[backlog'[i]].sv /\ conn'[backlog'[i]].fd = None
      BY <2>3, <3>2 DEF ListInv, BacklogPart
    <3>4. ASSUME NEW i \in DOMAIN backlog', NEW j \in DOMAIN backlog',
                 backlog'[i] = backlog'[j]
          PROVE  i = j
      <4>1. i \in 1..(Len(backlog) - 1) /\ j \in 1..(Len(backlog) - 1)
        BY <2>3
      <4>2. backlog[i + 1] = backlog[j + 1]
        BY <3>2, <3>4, <4>1
      <4>3. i + 1 \in DOMAIN backlog /\ j + 1 \in DOMAIN backlog
        BY <3>2, <4>1
      <4>4. i + 1 = j + 1
        BY <4>2, <4>3 DEF ListInv, BacklogPart
      <4> QED BY <2>3, <4>1, <4>4
    <3> QED BY <3>3, <3>4 DEF BacklogPart
  <2>11. BitsPart'
    <3>1. Fds' = Fds \cup {fd}
      BY <2>4, <2>8 DEF Fds, Range
    <3>2. mask' = mask \cup {fd} /\ fd < waitall' /\ waitall <= waitall'
      BY <2>0, <2>7 DEF Smaskset, MaskPart, ServerAssumption
    <3>3. mask \subseteq Nat /\ waitall \in Nat /\ waitall' \in Nat
      BY <2>0, <2>7 DEF MaskPart, Smaskset, ServerAssumption
    <3> QED BY <2>1, <3>1, <3>2, <3>3 DEF ListInv, BitsPart
  <2> QED
    BY <2>1, <2>4, <2>9, <2>10, <2>11 DEF ListInv, DeadPart, BlockedOnlyByNew, Last
<1>2. CASE ~(ServerFd \in rmask /\ unused # {})
  <2>1. /\ at' = "select" /\ at = "accept"
        /\ UNCHANGED <<mask, waitall, fdList, backlog, conn>>
    BY <1>2 DEF Saccept
  <2> QED
    BY <2>1 DEF ListInv, ListPart, BacklogPart, BitsPart, DeadPart, BlockedOnlyByNew, Fds
<1> QED BY <1>1, <1>2

\* A socket is taken from the list, the mask and the connections at once.
LEMMA RemoveFdList ==
  ASSUME ServerAssumption, TypeInv, ListInv, at = "read", at' \in {"select", "accept"},
         UNCHANGED backlog, NEW c \in [Conn -> Connection], removeFd(c, cur),
         \A k \in Conn \ {cur} : c[k] = conn[k]
  PROVE  ListInv'
<1> USE DEF TypeInv
<1>1. PICK i \in DOMAIN fdList : fdList[i] = cur
  BY DEF ServerPart, Range
<1>2. \A j \in DOMAIN fdList : fdList[j] = cur => j = i
  BY <1>1 DEF ListInv, ListPart
<1>3. fdList' = RemoveAt(fdList, i)
  <2>1. (CHOOSE j \in DOMAIN fdList : fdList[j] = cur) = i
    BY <1>1, <1>2
  <2> QED BY <2>1 DEF removeFd
<1>4. /\ fdList \in Seq(Conn) /\ DOMAIN fdList = 1..Len(fdList) /\ Len(fdList) \in Nat
      /\ i \in 1..Len(fdList) /\ cur \in Conn
  BY <1>1 DEF MaskPart
<1>5. /\ DOMAIN fdList' = 1..(Len(fdList) - 1)
      /\ \A j \in DOMAIN fdList' : fdList'[j] = IF j < i THEN fdList[j] ELSE fdList[j + 1]
  BY <1>3, <1>4, Removed
<1> DEFINE from(j) == IF j < i THEN j ELSE j + 1
<1>6. \A j \in DOMAIN fdList' : from(j) \in DOMAIN fdList \ {i} /\ fdList'[j] = fdList[from(j)]
  BY <1>4, <1>5
<1>7. \A j, k \in DOMAIN fdList' : from(j) = from(k) => j = k
  BY <1>4, <1>5
<1>8. ASSUME NEW j \in DOMAIN fdList \ {i}
      PROVE  \E k \in DOMAIN fdList' : from(k) = j
  <2>1. CASE j < i
    BY <1>4, <1>5, <2>1
  <2>2. CASE ~(j < i)
    <3>1. j - 1 \in DOMAIN fdList' /\ from(j - 1) = j
      BY <1>4, <1>5, <2>2
    <3> QED BY <3>1
  <2> QED BY <2>1, <2>2
<1> HIDE DEF from
<1>9. \A k \in Conn \ {cur} : conn'[k] = conn[k]
  BY <1>4 DEF removeFd, svCloses
<1>10. \A j \in DOMAIN fdList' : /\ fdList'[j] = fdList[from(j)]
                                /\ conn'[fdList'[j]] = conn[fdList[from(j)]]
  <2> TAKE j \in DOMAIN fdList'
  <2>1. fdList[from(j)] \in Conn \ {cur}
    BY <1>2, <1>4, <1>6
  <2> QED BY <1>6, <1>9, <2>1
<1>11. ListPart'
  BY <1>6, <1>7, <1>10 DEF ListInv, ListPart
<1>12. BacklogPart'
  <2>1. \A j \in DOMAIN backlog : backlog[j] \in Conn \ {cur}
    BY <1>1 DEF QueuePart, ListInv, ListPart, BacklogPart
  <2> QED BY <1>9, <2>1 DEF ListInv, BacklogPart
<1>13. BitsPart'
  <2>1. Fds = {conn[fdList[j]].fd : j \in DOMAIN fdList}
    BY DEF Fds, Range
  <2>2. Fds' = {conn[fdList[from(j)]].fd : j \in DOMAIN fdList'}
    BY <1>10 DEF Fds, Range
  <2>3. Fds' = Fds \ {conn[cur].fd}
    <3>1. ASSUME NEW fd \in Fds' PROVE fd \in Fds /\ fd # conn[cur].fd
      BY <1>1, <1>6, <2>1, <2>2, <3>1 DEF ListInv, ListPart
    <3>2. ASSUME NEW fd \in Fds, fd # conn[cur].fd PROVE fd \in Fds'
      BY <1>1, <1>8, <2>1, <2>2, <3>2
    <3> QED BY <3>1, <3>2
  <2>4. conn[cur].fd # ServerFd
    <3>1. conn[cur] \in Connection /\ conn[cur].fd # None
      BY <1>1, <1>4 DEF ConnPart, ListInv, ListPart
    <3> QED BY <3>1 DEF Connection, ServerFd
  <2>5. mask' = mask \ {conn[cur].fd} /\ waitall' = waitall
    BY DEF removeFd, Smaskunset
  <2> QED BY <2>3, <2>4, <2>5 DEF ListInv, BitsPart
<1> QED BY <1>11, <1>12, <1>13 DEF ListInv, DeadPart, BlockedOnlyByNew

LEMMA HandleList ==
  ASSUME ServerAssumption, TypeInv, ListInv, handleReq
  PROVE  ListInv'
<1> USE DEF TypeInv
<1>0. /\ at = "read" /\ at' = next /\ UNCHANGED backlog
      /\ next \in {"select", "accept"} /\ cur \in Conn
  <2>1. at = "read" /\ at' = next /\ UNCHANGED backlog
    BY DEF handleReq, HostReqMsg, LdAvgMsg, StatusUpMsg, StatusDownMsg, MonitorReqMsg,
       BadMsg, Closed, Handles
  <2> QED BY <2>1, CurIsConn DEF ServerPart
<1>1. CASE HostReqMsg
  <2>1. UNCHANGED <<mask, waitall, fdList>>
    BY <1>1 DEF HostReqMsg
  <2>2. ASSUME NEW k \in Conn
        PROVE  conn'[k].sv = conn[k].sv /\ conn'[k].fd = conn[k].fd
    <3>1. Read[k].sv = conn[k].sv /\ Read[k].fd = conn[k].fd
      BY <1>0 DEF Read, ConnPart, Connection
    <3>2. \A r : Answer(r)[k].sv = Read[k].sv /\ Answer(r)[k].fd = Read[k].fd
      BY <1>0, Answers DEF Answer, Connection
    <3> QED BY <1>1, <3>1, <3>2 DEF HostReqMsg
  <2>3. \A i \in DOMAIN fdList : fdList[i] \in Conn
    BY DEF MaskPart
  <2>4. \A i \in DOMAIN backlog : backlog[i] \in Conn
    BY DEF QueuePart
  <2>5. Fds' = Fds
    BY <2>1, <2>2, <2>3 DEF Fds, Range
  <2>6. ListPart' /\ BacklogPart'
    <3>1. \A i \in DOMAIN fdList : /\ conn'[fdList[i]].sv = conn[fdList[i]].sv
                                   /\ conn'[fdList[i]].fd = conn[fdList[i]].fd
      BY <2>2, <2>3
    <3>2. ListPart /\ UNCHANGED fdList
      BY <2>1 DEF ListInv
    <3>3. ListPart'
      BY <3>1, <3>2 DEF ListPart
    <3>4. BacklogPart'
      BY <1>0, <2>2, <2>4 DEF ListInv, BacklogPart
    <3> QED BY <3>3, <3>4
  <2>7. BitsPart' /\ DeadPart' /\ BlockedOnlyByNew'
    BY <1>0, <2>1, <2>5 DEF ListInv, BitsPart, DeadPart, BlockedOnlyByNew
  <2> QED BY <2>6, <2>7 DEF ListInv
<1>2. CASE \E c \in {Read, Answer("text"), conn} : removeFd(c, cur)
  <2>1. PICK c \in {Read, Answer("text"), conn} : removeFd(c, cur)
    BY <1>2
  <2>2. c \in [Conn -> Connection]
    BY <1>0, Answers DEF ConnPart
  <2>3. \A k \in Conn \ {cur} : c[k] = conn[k]
    BY <1>0 DEF Read, Answer, ConnPart
  <2>4. at' \in {"select", "accept"}
    BY <1>0
  <2> QED BY <1>0, <2>1, <2>2, <2>3, <2>4, RemoveFdList
<1> QED
  BY <1>1, <1>2 DEF handleReq, LdAvgMsg, StatusUpMsg, StatusDownMsg, MonitorReqMsg,
     BadMsg, Closed

LEMMA OtherServerList ==
  ASSUME ServerAssumption, TypeInv, ListInv, doSilentSearch \/ Stop \/ Start
  PROVE  ListInv'
<1> USE DEF TypeInv
<1>1. CASE doSilentSearch
  <2>1. UNCHANGED <<at, cur, next, fdList, mask, waitall, backlog, conn>>
    BY <1>1 DEF doSilentSearch, select
  <2> QED BY <2>1, KeptEnds DEF ServerEndKept, Readable
<1>2. CASE Stop
  <2>1. \A k \in Conn : ~conn'[k].sv
    <3>1. conn' = [k \in Conn |-> IF conn[k].sv THEN svCloses(conn, k)[k] ELSE conn[k]]
      BY <1>2 DEF Stop
    <3>2. ASSUME NEW k \in Conn PROVE ~svCloses(conn, k)[k].sv
      <4>1. conn \in [Conn -> Connection] /\ conn[k] \in Connection
        BY DEF ConnPart
      <4> QED BY <4>1 DEF svCloses, Free, Connection
    <3> QED BY <3>1, <3>2
  <2>2. /\ at' = "dead" /\ fdList' = <<>> /\ backlog' = <<>> /\ mask' = {} /\ waitall' = 0
    BY <1>2 DEF Stop
  <2> QED
    BY <2>1, <2>2 DEF ListInv, ListPart, BacklogPart, BitsPart, DeadPart, BlockedOnlyByNew
<1>3. CASE Start
  <2>1. /\ at = "dead" /\ at' = "select" /\ mask' = mask \cup {0}
        /\ UNCHANGED <<fdList, backlog, conn>>
    BY <1>3 DEF Start, Smaskset, ServerFd
  <2>2. fdList' = <<>> /\ mask' = {0}
    BY <2>1 DEF ListInv, DeadPart
  <2>3. waitall' = 1
    BY <1>3, <2>1 DEF Start, Smaskset, ServerFd, ListInv, DeadPart
  <2>4. Fds' = {}
    BY <2>2 DEF Fds, Range
  <2> QED
    BY <2>1, <2>2, <2>3, <2>4 DEF ListInv, ListPart, BacklogPart, BitsPart, DeadPart,
       BlockedOnlyByNew, ServerFd
<1> QED BY <1>1, <1>2, <1>3

\* What the ends of a connection see of the functions that the processes use.
LEMMA ClosedEnd ==
  ASSUME NEW c \in [Conn -> Connection], NEW k \in Conn, NEW l \in Conn
  PROVE  /\ clCloses(c, k)[l].sv = c[l].sv
         /\ c[l].sv => /\ clCloses(c, k)[l].fd = c[l].fd
                       /\ clCloses(c, k)[l].line = c[l].line
                       /\ ~c[l].cl => ~clCloses(c, k)[l].cl
         /\ ~clCloses(c, k)[k].cl /\ clCloses(c, k)[k].reply = None
         /\ ~c[k].sv => clCloses(c, k)[k] = Free
         /\ l # k => clCloses(c, k)[l] = c[l]
<1>1. c[l] \in Connection /\ c[k] \in Connection
  OBVIOUS
<1> QED BY <1>1 DEF clCloses, Connection, Free

LEMMA PutEnd ==
  ASSUME ServerAssumption, ConnPart, NEW p \in Process, proc[p].conn \in Conn,
         NEW line \in SenderLine \cup {"host"}, NEW l \in Conn
  PROVE  /\ Sputs(p, line)[l].sv = conn[l].sv /\ Sputs(p, line)[l].cl = conn[l].cl
         /\ Sputs(p, line)[l].fd = conn[l].fd
         /\ conn[l].line # None => Sputs(p, line)[l].line # None
         /\ l # proc[p].conn => Sputs(p, line)[l] = conn[l]
         /\ Mine(p).sv => /\ Sputs(p, line)[proc[p].conn].line = line
                          /\ Sputs(p, line)[proc[p].conn].reply = None
         /\ ~Mine(p).sv => Sputs(p, line) = conn
<1>1. line # None
  BY DEF ServerAssumption, SenderLine
<1>2. conn[l] \in Connection /\ conn[proc[p].conn] \in Connection
  BY DEF ConnPart
<1> QED BY <1>1, <1>2 DEF Sputs, Mine, Connection, ConnPart

LEMMA ProcList ==
  ASSUME ServerAssumption, TypeInv, ListInv, NEW p \in Process, ProcStep(p)
  PROVE  ListInv'
<1> USE DEF TypeInv
<1>0. UNCHANGED <<at, cur, next, fdList, mask, waitall>>
  BY DEF ProcStep, Sopen, Ask, Send, SendLoad, SendStatus, SendBad, SendMonitor,
     WriteAndClose, Run, Done, Dies, Ends, select
<1>1. CASE Sopen(p)
  <2>1. PICK k \in Conn :
          /\ conn[k] = Free /\ at # "dead"
          /\ conn' = [conn EXCEPT ![k] = [Free EXCEPT !.cl = TRUE, !.sv = TRUE]]
          /\ backlog' = Append(backlog, k)
    BY <1>1 DEF Sopen
  <2>2. ~conn[k].sv /\ conn'[k].sv /\ conn'[k].fd = None
    BY <2>1 DEF Free, ConnPart
  <2>3. \A l \in Conn \ {k} : conn'[l] = conn[l]
    BY <2>1 DEF ConnPart
  <2>4. \A i \in DOMAIN fdList : fdList[i] \in Conn \ {k}
    BY <2>2 DEF MaskPart, ListInv, ListPart
  <2>5. ListPart'
    BY <1>0, <2>3, <2>4 DEF ListInv, ListPart
  <2>6. Fds' = Fds
    BY <1>0, <2>3, <2>4 DEF Fds, Range
  <2>7. BitsPart' /\ DeadPart'
    BY <1>0, <2>1, <2>6 DEF ListInv, BitsPart, DeadPart
  <2>8. BacklogPart'
    <3>1. \A i \in DOMAIN backlog : backlog[i] \in Conn \ {k}
      BY <2>2 DEF QueuePart, ListInv, BacklogPart
    <3>2. /\ DOMAIN backlog' = 1..(Len(backlog) + 1) /\ DOMAIN backlog = 1..Len(backlog)
          /\ Len(backlog) \in Nat /\ backlog'[Len(backlog) + 1] = k
          /\ \A i \in 1..Len(backlog) : backlog'[i] = backlog[i]
      BY <2>1, AppendProperties DEF QueuePart
    <3>3. \A i \in DOMAIN backlog : conn'[backlog'[i]] = conn[backlog[i]]
      BY <2>3, <3>1, <3>2
    <3>4. \A i \in DOMAIN backlog' : conn'[backlog'[i]].sv /\ conn'[backlog'[i]].fd = None
      BY <2>2, <3>2, <3>3 DEF ListInv, BacklogPart
    <3>5. \A i, j \in DOMAIN backlog' : backlog'[i] = backlog'[j] => i = j
      BY <3>1, <3>2 DEF ListInv, BacklogPart
    <3> QED BY <3>4, <3>5 DEF BacklogPart
  <2>9. BlockedOnlyByNew'
    <3> SUFFICES ASSUME at = "read", ~Readable(cur)'
                 PROVE  next = "select" /\ cur = Last(fdList)
      BY <1>0 DEF BlockedOnlyByNew
    <3>1. cur \in Conn \ {k}
      BY <2>4 DEF ServerPart, Range
    <3>2. ~Readable(cur)
      BY <1>0, <2>3, <3>1 DEF Readable
    <3> QED BY <3>2 DEF ListInv, BlockedOnlyByNew
  <2> QED BY <2>5, <2>7, <2>8, <2>9 DEF ListInv
<1>2. ASSUME UNCHANGED backlog, ServerEndKept
      PROVE  ListInv'
  BY <1>0, <1>2, KeptEnds
<1>3. CASE Ask(p) \/ SendMonitor(p)
  <2>1. PICK line \in {"host", "monitor"} : conn' = Sputs(p, line) /\ UNCHANGED backlog
    BY <1>3 DEF Ask, SendMonitor
  <2>2. proc[p].conn \in Conn
    BY <1>3 DEF Ask, SendMonitor, ProcPart
  <2>3. ServerEndKept
    BY <1>0, <2>1, <2>2, PutEnd DEF ServerEndKept, Readable, SenderLine
  <2> QED BY <1>2, <2>1, <2>3
<1>4. ASSUME NEW line \in SenderLine, WriteAndClose(p, line)
      PROVE  ListInv'
  <2>1. conn' = clCloses(Sputs(p, line), proc[p].conn) /\ UNCHANGED backlog
    BY <1>4 DEF WriteAndClose
  <2>2. proc[p].conn \in Conn
    BY <1>4 DEF WriteAndClose, ProcPart
  <2>3. Sputs(p, line) \in [Conn -> Connection]
    BY <2>2, Puts
  <2>4. ASSUME NEW l \in Conn
        PROVE  /\ conn'[l].sv = conn[l].sv
               /\ conn[l].sv => conn'[l].fd = conn[l].fd
               /\ conn[l].sv /\ Readable(l) => Readable(l)'
    <3>1. /\ Sputs(p, line)[l].sv = conn[l].sv /\ Sputs(p, line)[l].cl = conn[l].cl
          /\ Sputs(p, line)[l].fd = conn[l].fd
          /\ conn[l].line # None => Sputs(p, line)[l].line # None
      BY <2>2, PutEnd
    <3>2. /\ conn'[l].sv = Sputs(p, line)[l].sv
          /\ conn[l].sv => /\ conn'[l].fd = Sputs(p, line)[l].fd
                           /\ conn'[l].line = Sputs(p, line)[l].line
                           /\ ~Sputs(p, line)[l].cl => ~conn'[l].cl
      <4> DEFINE c == Sputs(p, line)
      <4>1. c \in [Conn -> Connection] /\ c[l].sv = conn[l].sv
        BY <2>3, <3>1
      <4> HIDE DEF c
      <4>2. /\ clCloses(c, proc[p].conn)[l].sv = c[l].sv
            /\ c[l].sv => /\ clCloses(c, proc[p].conn)[l].fd = c[l].fd
                          /\ clCloses(c, proc[p].conn)[l].line = c[l].line
                          /\ ~c[l].cl => ~clCloses(c, proc[p].conn)[l].cl
        BY <2>2, <4>1, ClosedEnd
      <4>3. conn' = clCloses(c, proc[p].conn)
        BY <2>1 DEF c
      <4>4. /\ conn'[l].sv = c[l].sv
            /\ conn[l].sv => /\ conn'[l].fd = c[l].fd /\ conn'[l].line = c[l].line
                             /\ ~c[l].cl => ~conn'[l].cl
        BY <4>1, <4>2, <4>3
      <4> QED BY <4>4 DEF c
    <3> QED BY <3>1, <3>2 DEF Readable
  <2> QED BY <1>2, <2>1, <2>4 DEF ServerEndKept
<1>5. CASE Run(p)
  <2>1. ServerEndKept /\ UNCHANGED backlog
    BY <1>5 DEF Run, ServerEndKept, Readable, ConnPart, Connection
  <2> QED BY <1>2, <2>1
<1>6. CASE Done(p) \/ Dies(p)
  <2>1. conn' = clCloses(conn, proc[p].conn) /\ UNCHANGED backlog /\ proc[p].conn \in Conn
    BY <1>6 DEF Done, Dies, Ends, ProcPart
  <2>2. ASSUME NEW l \in Conn
        PROVE  /\ conn'[l].sv = conn[l].sv
               /\ conn[l].sv => conn'[l].fd = conn[l].fd
               /\ conn[l].sv /\ Readable(l) => Readable(l)'
    <3>1. /\ conn'[l].sv = conn[l].sv
          /\ conn[l].sv => /\ conn'[l].fd = conn[l].fd
                           /\ conn'[l].line = conn[l].line
                           /\ ~conn[l].cl => ~conn'[l].cl
      <4>1. conn \in [Conn -> Connection]
        BY DEF ConnPart
      <4> DEFINE c == clCloses(conn, proc[p].conn)
      <4>2. /\ c[l].sv = conn[l].sv
            /\ conn[l].sv => /\ c[l].fd = conn[l].fd
                             /\ c[l].line = conn[l].line
                             /\ ~conn[l].cl => ~c[l].cl
        <5>1. proc[p].conn \in Conn
          BY <2>1
        <5> QED BY <4>1, <5>1, ClosedEnd
      <4> HIDE DEF c
      <4>3. conn' = c
        BY <2>1 DEF c
      <4> QED BY <4>2, <4>3
    <3> QED BY <3>1 DEF Readable
  <2> QED BY <1>2, <2>1, <2>2 DEF ServerEndKept
<1> QED
  BY <1>1, <1>3, <1>4, <1>5, <1>6 DEF ProcStep, Send, SendLoad, SendStatus, SendBad,
     SenderLine

LEMMA ListNext ==
  ASSUME ServerAssumption, TypeInv, ListInv, [Next]_vars
  PROVE  ListInv'
<1>1. CASE UNCHANGED vars
  <2>1. UNCHANGED <<at, cur, next, fdList, mask, waitall, backlog, conn>>
    BY <1>1 DEF vars, select
  <2> QED BY <2>1, KeptEnds DEF ServerEndKept, Readable
<1> QED
  BY <1>1, SelectList, AcceptList, HandleList, OtherServerList, ProcList
  DEF Next, ServerStep, ProcStep

LEMMA ListInvariant == ASSUME ServerAssumption PROVE Spec => [](TypeInv /\ ListInv)
<1>1. Init => TypeInv /\ ListInv
  BY TypeInit, ListInit
<1>2. TypeInv /\ ListInv /\ [Next]_vars => TypeInv' /\ ListInv'
  BY TypeNext, ListNext
<1> QED BY <1>1, <1>2, PTL DEF Spec

\* Sockets with different descriptors: there are as many of one as of the other.
LEMMA AsManyFds ==
  ASSUME TypeInv, ListInv
  PROVE  Cardinality(Fds) = Len(fdList)
<1>1. DOMAIN fdList = 1..Len(fdList) /\ Len(fdList) \in Nat
  BY DEF TypeInv, MaskPart
<1> DEFINE f == [i \in 1..Len(fdList) |-> conn[fdList[i]].fd]
<1>2. f \in Bijection(1..Len(fdList), Fds)
  <2>1. f \in Injection(1..Len(fdList), Fds)
    BY <1>1 DEF Injection, IsInjective, Fds, Range, ListInv, ListPart
  <2>2. \A fd \in Fds : \E i \in 1..Len(fdList) : f[i] = fd
    BY <1>1 DEF Fds, Range
  <2> QED BY <2>1, <2>2 DEF Bijection, Surjection, Injection
<1>3. ExistsBijection(1..Len(fdList), Fds)
  BY <1>2 DEF ExistsBijection
<1> QED BY <1>1, <1>3, FS_CountingElements

\* Whatever connections come, go and are accepted in, and whichever descriptors are used
\* again, select looks at the server's descriptor and at exactly those of the open
\* sockets of fdList (addFd, removeFd, Smaskset, Smaskunset).
THEOREM MaskIsRight == ASSUME ServerAssumption PROVE Spec => []MaskIsFdList
<1>1. TypeInv /\ ListInv => MaskIsFdList
  BY AsManyFds DEF ListInv, ListPart, BitsPart, MaskIsFdList, Range
<1> QED BY <1>1, ListInvariant, PTL

\* The server can be blocked in a read only by the connection that it has just accepted.
THEOREM OnlyNewBlocks == ASSUME ServerAssumption PROVE Spec => []BlockedOnlyByNew
<1>1. ListInv => BlockedOnlyByNew
  BY DEF ListInv
<1> QED BY <1>1, ListInvariant, PTL

-----------------------------------------------------------------------------
(* Who holds a cpu.  The holder of a cpu is a connection that the server    *)
(* has open, from which no line is unread, and to which nothing but that    *)
(* cpu was answered; and a connection has one process at most.              *)

Owned ==
  \A p, q \in Process :
    proc[p].phase # "idle" /\ proc[q].phase # "idle" /\ proc[p].conn = proc[q].conn => p = q

ConnHold ==
  \A k \in Conn :
    /\ ~conn[k].sv => conn[k].line = None /\ holder[k] = None
    /\ conn[k].line # None => conn[k].reply = None /\ holder[k] = None
    /\ holder[k] # None => conn[k].reply \in {holder[k], None}
    /\ conn[k].reply \in Host /\ conn[k].sv => holder[k] = conn[k].reply

ProcHold ==
  \A p \in Process :
    /\ proc[p].phase # "idle" => Mine(p).cl
    /\ proc[p].phase = "connected" =>
         Mine(p).line = None /\ Mine(p).reply = None /\ holder[proc[p].conn] = None
    /\ proc[p].uses # None =>
         proc[p].phase = "running" /\ (Mine(p).sv => holder[proc[p].conn] = proc[p].uses)

HoldInv == Owned /\ ConnHold /\ ProcHold

LEMMA HoldInit ==
  ASSUME ServerAssumption, Init
  PROVE  HoldInv
<1>1. Owned /\ ProcHold
  BY DEF Init, Owned, ProcHold, Idle
<1>2. ConnHold
  BY DEF Init, ConnHold, Free, ServerAssumption
<1> QED BY <1>1, <1>2 DEF HoldInv

\* Nobody who has a cpu sees a change.
LEMMA NothingHeld ==
  ASSUME TypeInv, HoldInv, UNCHANGED <<holder, proc>>,
         \A k \in Conn : /\ conn'[k].cl = conn[k].cl /\ conn'[k].sv = conn[k].sv
                         /\ conn'[k].line = conn[k].line /\ conn'[k].reply = conn[k].reply
  PROVE  HoldInv'
<1>1. \A p \in Process : proc[p].phase # "idle" => proc[p].conn \in Conn
  BY DEF TypeInv, ProcPart
<1>2. \A p \in Process : proc[p].uses # None => proc[p].phase # "idle"
  BY DEF HoldInv, ProcHold
<1>3. Owned'
  BY DEF HoldInv, Owned
<1>4. ConnHold'
  BY DEF HoldInv, ConnHold
<1>5. ProcHold'
  BY <1>1, <1>2 DEF HoldInv, ProcHold, Mine
<1> QED BY <1>3, <1>4, <1>5 DEF HoldInv

\* The server changes one connection, from which it has read a line or the end; its
\* process, if it has one, has asked and has no cpu.
LEMMA OneChanges ==
  ASSUME ServerAssumption, TypeInv, HoldInv, UNCHANGED proc, NEW k \in Conn,
         holder[k] = None \/ ~conn[k].cl,
         conn[k].line # None \/ ~conn[k].cl,
         conn[k].sv \/ ~conn[k].cl,
         \A l \in Conn \ {k} : conn'[l] = conn[l] /\ holder'[l] = holder[l],
         conn[k].cl => conn'[k].cl,
         ConnHold'
  PROVE  HoldInv'
<1>1. Owned'
  BY DEF HoldInv, Owned
<1>2. ASSUME NEW p \in Process
      PROVE  /\ proc[p].phase # "idle" => Mine(p)'.cl
             /\ proc[p].phase = "connected" =>
                  /\ Mine(p)'.line = None /\ Mine(p)'.reply = None
                  /\ holder'[proc[p].conn] = None
             /\ proc[p].uses # None =>
                  /\ proc[p].phase = "running"
                  /\ Mine(p)'.sv => holder'[proc[p].conn] = proc[p].uses
  <2>1. CASE proc[p].phase = "idle"
    BY <2>1 DEF HoldInv, ProcHold
  <2>2. CASE proc[p].phase # "idle"
    <3>1. proc[p].conn \in Conn
      BY <2>2 DEF TypeInv, ProcPart
    <3>2. CASE proc[p].conn # k
      <4>1. Mine(p)' = Mine(p) /\ holder'[proc[p].conn] = holder[proc[p].conn]
        BY <3>1, <3>2 DEF Mine
      <4> QED BY <4>1 DEF HoldInv, ProcHold
    <3>3. CASE proc[p].conn = k
      <4>1. Mine(p) = conn[k] /\ Mine(p)' = conn'[k] /\ conn[k].cl
        BY <2>2, <3>3 DEF Mine, HoldInv, ProcHold
      <4>2. conn[k].line # None /\ holder[k] = None /\ conn[k].sv
        BY <4>1
      <4>3. proc[p].phase # "connected" /\ proc[p].uses = None
        BY <3>3, <4>1, <4>2 DEF HoldInv, ProcHold
      <4> QED BY <4>1, <4>3
    <3> QED BY <3>2, <3>3
  <2> QED BY <2>1, <2>2
<1>3. ProcHold'
  BY <1>2 DEF ProcHold, Mine
<1> QED BY <1>1, <1>3 DEF HoldInv

LEMMA HandleHold ==
  ASSUME ServerAssumption, TypeInv, HoldInv, handleReq
  PROVE  HoldInv'
<1>0. at = "read" /\ cur \in Conn /\ UNCHANGED proc
  BY CurIsConn DEF handleReq, HostReqMsg, LdAvgMsg, StatusUpMsg, StatusDownMsg,
     MonitorReqMsg, BadMsg, Closed, Handles
<1>1. /\ conn \in [Conn -> Connection] /\ holder \in [Conn -> Host \cup {None}]
      /\ conn[cur] \in Connection
  BY <1>0 DEF TypeInv, ConnPart, DbPart
<1>2. ASSUME conn[cur].line # None
      PROVE  holder[cur] = None /\ conn[cur].reply = None /\ conn[cur].sv
  BY <1>0, <1>2 DEF HoldInv, ConnHold
<1>3. CASE HostReqMsg
  <2>1. conn[cur].line = "host" /\ "host" # None
    BY <1>3 DEF HostReqMsg, Handles, ServerAssumption
  <2>2. PICK r \in Host \cup {"0.0.0.0"} :
          /\ conn' = Answer(r)
          /\ holder' = IF r \in Host THEN [holder EXCEPT ![cur] = r] ELSE holder
    BY <1>3 DEF HostReqMsg, db, ServerAssumption
  <2>3. /\ conn'[cur].line = None /\ conn'[cur].cl = conn[cur].cl
        /\ conn'[cur].sv = conn[cur].sv
        /\ conn'[cur].reply = IF conn[cur].cl THEN r ELSE None
        /\ \A l \in Conn \ {cur} : conn'[l] = conn[l] /\ holder'[l] = holder[l]
        /\ holder'[cur] = IF r \in Host THEN r ELSE None
    BY <1>0, <1>1, <1>2, <2>1, <2>2 DEF Answer, Read, Connection
  <2>4. ConnHold'
    <3> SUFFICES ASSUME NEW k \in Conn
                 PROVE  /\ ~conn'[k].sv => conn'[k].line = None /\ holder'[k] = None
                        /\ conn'[k].line # None => conn'[k].reply = None /\ holder'[k] = None
                        /\ holder'[k] # None => conn'[k].reply \in {holder'[k], None}
                        /\ conn'[k].reply \in Host /\ conn'[k].sv => holder'[k] = conn'[k].reply
      BY DEF ConnHold
    <3>1. CASE k = cur
      BY <1>2, <2>1, <2>3, <3>1 DEF ServerAssumption
    <3>2. CASE k # cur
      BY <2>3, <3>2 DEF HoldInv, ConnHold
    <3> QED BY <3>1, <3>2
  <2> QED BY <1>0, <1>2, <2>1, <2>3, <2>4, OneChanges
<1>4. ASSUME NEW c \in {Read, Answer("text"), conn}, removeFd(c, cur),
             holder' = [holder EXCEPT ![cur] = None],
             conn[cur].line # None \/ ~conn[cur].cl
      PROVE  HoldInv'
  <2>1. conn' = svCloses(c, cur)
    BY <1>4 DEF removeFd
  <2>2. /\ c[cur].cl = conn[cur].cl /\ c[cur] \in Connection
        /\ c[cur].reply \in {conn[cur].reply, "text", None}
        /\ c \in [Conn -> Connection]
        /\ \A l \in Conn \ {cur} : c[l] = conn[l]
    <3>1. CASE c = conn
      BY <1>1, <3>1
    <3>2. CASE c = Read
      <4>1. Read \in [Conn -> Connection] /\ \A l \in Conn \ {cur} : Read[l] = conn[l]
        BY <1>0, <1>1 DEF Read, Connection
      <4>2. Read[cur].cl = conn[cur].cl /\ Read[cur].reply = conn[cur].reply
        BY <1>0, <1>1 DEF Read, Connection
      <4> QED BY <1>0, <3>2, <4>1, <4>2
    <3>3. CASE c = Answer("text")
      <4>1. Answer("text") \in [Conn -> Connection]
            /\ \A l \in Conn \ {cur} : Answer("text")[l] = conn[l]
        BY <1>0, <1>1 DEF Answer, Read, Connection
      <4>2. /\ Answer("text")[cur].cl = conn[cur].cl
            /\ Answer("text")[cur].reply \in {"text", None}
        BY <1>0, <1>1 DEF Answer, Read, Connection
      <4> QED BY <1>0, <3>3, <4>1, <4>2
    <3> QED BY <3>1, <3>2, <3>3
  <2>3. /\ conn'[cur].cl = conn[cur].cl /\ ~conn'[cur].sv /\ conn'[cur].line = None
        /\ \A l \in Conn \ {cur} : conn'[l] = conn[l] /\ holder'[l] = holder[l]
        /\ holder'[cur] = None
    BY <1>0, <1>1, <1>4, <2>1, <2>2 DEF svCloses, Free, Connection
  <2>4. ConnHold'
    <3> SUFFICES ASSUME NEW k \in Conn
                 PROVE  /\ ~conn'[k].sv => conn'[k].line = None /\ holder'[k] = None
                        /\ conn'[k].line # None => conn'[k].reply = None /\ holder'[k] = None
                        /\ holder'[k] # None => conn'[k].reply \in {holder'[k], None}
                        /\ conn'[k].reply \in Host /\ conn'[k].sv => holder'[k] = conn'[k].reply
      BY DEF ConnHold
    <3>1. CASE k = cur
      BY <2>3, <3>1
    <3>2. CASE k # cur
      BY <2>3, <3>2 DEF HoldInv, ConnHold
    <3> QED BY <3>1, <3>2
  <2> QED BY <1>0, <1>2, <1>4, <2>3, <2>4, OneChanges
<1>5. CASE LdAvgMsg \/ StatusUpMsg \/ StatusDownMsg \/ MonitorReqMsg \/ BadMsg
  <2>1. conn[cur].line # None
    BY <1>5 DEF LdAvgMsg, StatusUpMsg, StatusDownMsg, MonitorReqMsg, BadMsg, Handles,
       ServerAssumption
  <2>2. UNCHANGED holder
    BY <1>5 DEF LdAvgMsg, StatusUpMsg, StatusDownMsg, MonitorReqMsg, BadMsg, Join, Keeps, db
  <2>3. holder' = [holder EXCEPT ![cur] = None]
    BY <1>0, <1>1, <1>2, <2>1, <2>2
  <2>4. \E c \in {Read, Answer("text"), conn} : removeFd(c, cur)
    BY <1>5 DEF LdAvgMsg, StatusUpMsg, StatusDownMsg, MonitorReqMsg, BadMsg
  <2> QED BY <1>4, <2>1, <2>3, <2>4
<1>6. CASE Closed
  <2>1. ~conn[cur].cl /\ removeFd(conn, cur)
    BY <1>6 DEF Closed
  <2>2. holder' = [holder EXCEPT ![cur] = None]
    BY <1>0, <1>1, <1>6 DEF Closed, db
  <2> QED BY <1>4, <2>1, <2>2
<1> QED BY <1>3, <1>5, <1>6 DEF handleReq

LEMMA ServerHold ==
  ASSUME ServerAssumption, TypeInv, HoldInv,
         Smaskwait \/ Saccept \/ doSilentSearch \/ Stop \/ Start
  PROVE  HoldInv'
<1>0. conn \in [Conn -> Connection]
  BY DEF TypeInv, ConnPart
<1>1. CASE Smaskwait \/ doSilentSearch \/ Start
  <2>1. UNCHANGED <<holder, proc, conn>>
    BY <1>1 DEF Smaskwait, doSilentSearch, Start, db
  <2> QED BY <2>1, NothingHeld
<1>2. CASE Saccept
  <2>1. UNCHANGED <<holder, proc>>
    BY <1>2 DEF Saccept, db
  <2>2. \/ UNCHANGED conn
        \/ \E fd : conn' = [conn EXCEPT ![Head(backlog)].fd = fd]
    BY <1>2 DEF Saccept
  <2>3. ASSUME NEW k \in Conn
        PROVE  /\ conn'[k].cl = conn[k].cl /\ conn'[k].sv = conn[k].sv
               /\ conn'[k].line = conn[k].line /\ conn'[k].reply = conn[k].reply
    <3>1. conn[k] \in Connection
      BY <1>0
    <3>2. \/ conn'[k] = conn[k]
          \/ \E fd : conn'[k] = [conn[k] EXCEPT !.fd = fd]
      <4>1. CASE UNCHANGED conn
        BY <4>1
      <4>2. CASE \E fd : conn' = [conn EXCEPT ![Head(backlog)].fd = fd]
        BY <1>0, <4>2
      <4> QED BY <2>2, <4>1, <4>2
    <3> QED BY <3>1, <3>2 DEF Connection
  <2> QED BY <2>1, <2>3, NothingHeld
<1>3. CASE Stop
  <2>1. /\ conn' = [k \in Conn |-> IF conn[k].sv THEN svCloses(conn, k)[k] ELSE conn[k]]
        /\ holder' = [k \in Conn |-> None] /\ UNCHANGED proc
    BY <1>3 DEF Stop
  <2>2. ASSUME NEW k \in Conn
        PROVE  /\ ~conn'[k].sv /\ conn'[k].line = None /\ holder'[k] = None
               /\ conn'[k].cl = conn[k].cl
               /\ conn[k].reply = None => conn'[k].reply = None
    <3>1. /\ ~svCloses(conn, k)[k].sv /\ svCloses(conn, k)[k].line = None
          /\ svCloses(conn, k)[k].cl = conn[k].cl
          /\ conn[k].reply = None => svCloses(conn, k)[k].reply = None
      <4>1. conn[k] \in Connection
        BY <1>0
      <4> QED BY <1>0, <4>1 DEF svCloses, Free, Connection
    <3>2. ~conn[k].sv => conn[k].line = None
      BY DEF HoldInv, ConnHold
    <3> QED BY <2>1, <3>1, <3>2
  <2>3. Owned' /\ ConnHold'
    BY <2>1, <2>2 DEF HoldInv, Owned, ConnHold
  <2>4. ProcHold'
    <3>1. \A p \in Process : proc[p].phase # "idle" => proc[p].conn \in Conn
      BY DEF TypeInv, ProcPart
    <3> QED BY <2>1, <2>2, <3>1 DEF HoldInv, ProcHold, Mine
  <2> QED BY <2>3, <2>4 DEF HoldInv
<1> QED BY <1>1, <1>2, <1>3

\* A process does something to its connection, which no other process has.
LEMMA OneProcess ==
  ASSUME TypeInv, HoldInv, UNCHANGED holder, NEW p \in Process, NEW k \in Conn,
         \A l \in Conn \ {k} : conn'[l] = conn[l],
         \A q \in Process \ {p} : proc'[q] = proc[q],
         \A q \in Process \ {p} : proc[q].phase # "idle" => proc[q].conn # k,
         proc'[p].phase # "idle" => proc'[p].conn = k /\ conn'[k].cl,
         proc'[p].phase = "connected" =>
           conn'[k].line = None /\ conn'[k].reply = None /\ holder[k] = None,
         proc'[p].uses # None =>
           proc'[p].phase = "running" /\ (conn'[k].sv => holder[k] = proc'[p].uses),
         ~conn'[k].sv => conn'[k].line = None /\ holder[k] = None,
         conn'[k].line # None => conn'[k].reply = None /\ holder[k] = None,
         holder[k] # None => conn'[k].reply \in {holder[k], None},
         conn'[k].reply \in Host /\ conn'[k].sv => holder[k] = conn'[k].reply
  PROVE  HoldInv'
<1>1. ConnHold'
  <2> SUFFICES ASSUME NEW l \in Conn
               PROVE  /\ ~conn'[l].sv => conn'[l].line = None /\ holder[l] = None
                      /\ conn'[l].line # None => conn'[l].reply = None /\ holder[l] = None
                      /\ holder[l] # None => conn'[l].reply \in {holder[l], None}
                      /\ conn'[l].reply \in Host /\ conn'[l].sv => holder[l] = conn'[l].reply
    BY DEF ConnHold
  <2>1. CASE l = k
    BY <2>1
  <2>2. CASE l # k
    BY <2>2 DEF HoldInv, ConnHold
  <2> QED BY <2>1, <2>2
<1>2. Owned'
  <2> SUFFICES ASSUME NEW q \in Process, NEW r \in Process,
                      proc'[q].phase # "idle", proc'[r].phase # "idle",
                      proc'[q].conn = proc'[r].conn, q # r
               PROVE  FALSE
    BY DEF Owned
  <2>1. CASE q # p /\ r # p
    BY <2>1 DEF HoldInv, Owned
  <2>2. CASE q = p \/ r = p
    BY <2>2
  <2> QED BY <2>1, <2>2
<1>3. ASSUME NEW q \in Process
      PROVE  /\ proc'[q].phase # "idle" => conn'[proc'[q].conn].cl
             /\ proc'[q].phase = "connected" =>
                  /\ conn'[proc'[q].conn].line = None /\ conn'[proc'[q].conn].reply = None
                  /\ holder[proc'[q].conn] = None
             /\ proc'[q].uses # None =>
                  /\ proc'[q].phase = "running"
                  /\ conn'[proc'[q].conn].sv => holder[proc'[q].conn] = proc'[q].uses
  <2>1. CASE q = p
    BY <2>1
  <2>2. CASE q # p /\ proc[q].phase # "idle"
    <3>1. proc'[q] = proc[q] /\ proc[q].conn \in Conn \ {k}
      BY <2>2 DEF TypeInv, ProcPart
    <3>2. conn'[proc[q].conn] = conn[proc[q].conn]
      BY <3>1
    <3> QED BY <3>1, <3>2 DEF HoldInv, ProcHold, Mine
  <2>3. CASE q # p /\ proc[q].phase = "idle"
    <3>1. proc'[q] = proc[q]
      BY <2>3
    <3>2. proc[q].uses = None
      BY <2>3 DEF HoldInv, ProcHold
    <3> QED BY <2>3, <3>1, <3>2
  <2> QED BY <2>1, <2>2, <2>3
<1>4. ProcHold'
  BY <1>3 DEF ProcHold, Mine
<1> QED BY <1>1, <1>2, <1>4 DEF HoldInv

LEMMA ProcStepHold ==
  ASSUME ServerAssumption, TypeInv, HoldInv, NEW p \in Process, ProcStep(p)
  PROVE  HoldInv'
<1> DEFINE k == proc[p].conn
<1>0. /\ conn \in [Conn -> Connection] /\ proc \in [Process -> Activity]
      /\ proc[p] \in Activity
  BY DEF TypeInv, ConnPart, ProcPart
<1>1. UNCHANGED holder /\ \A q \in Process \ {p} : proc'[q] = proc[q]
  BY <1>0 DEF ProcStep, Sopen, Ask, Send, SendLoad, SendStatus, SendBad, SendMonitor,
     WriteAndClose, Run, Done, Dies, Ends, db
<1>2. ASSUME proc[p].phase # "idle"
      PROVE  /\ k \in Conn /\ conn[k] \in Connection /\ Mine(p) = conn[k] /\ conn[k].cl
             /\ \A q \in Process \ {p} : proc[q].phase # "idle" => proc[q].conn # k
             /\ ~conn[k].sv => conn[k].line = None /\ holder[k] = None
             /\ conn[k].line # None => conn[k].reply = None /\ holder[k] = None
             /\ holder[k] # None => conn[k].reply \in {holder[k], None}
             /\ conn[k].reply \in Host /\ conn[k].sv => holder[k] = conn[k].reply
  <2>1. k \in Conn
    BY <1>2 DEF TypeInv, ProcPart
  <2>2. conn[k] \in Connection /\ Mine(p) = conn[k] /\ conn[k].cl
    BY <1>0, <1>2, <2>1 DEF Mine, HoldInv, ProcHold
  <2>3. \A q \in Process \ {p} : proc[q].phase # "idle" => proc[q].conn # k
    BY <1>2 DEF HoldInv, Owned
  <2>4. /\ ~conn[k].sv => conn[k].line = None /\ holder[k] = None
        /\ conn[k].line # None => conn[k].reply = None /\ holder[k] = None
        /\ holder[k] # None => conn[k].reply \in {holder[k], None}
        /\ conn[k].reply \in Host /\ conn[k].sv => holder[k] = conn[k].reply
    BY <2>1 DEF HoldInv, ConnHold
  <2> QED BY <2>1, <2>2, <2>3, <2>4
<1>3. proc[p].phase = "connected" =>
        conn[k].line = None /\ conn[k].reply = None /\ holder[k] = None
  BY DEF HoldInv, ProcHold, Mine
<1>4. proc[p].uses # None => proc[p].phase = "running"
  BY DEF HoldInv, ProcHold
<1>5. CASE Sopen(p)
  <2>1. PICK l \in Conn :
          /\ conn[l] = Free
          /\ conn' = [conn EXCEPT ![l] = [Free EXCEPT !.cl = TRUE, !.sv = TRUE]]
          /\ proc' = [proc EXCEPT ![p].phase = "connected", ![p].conn = l]
    BY <1>5 DEF Sopen
  <2>2. proc[p].phase = "idle"
    BY <1>5 DEF Sopen, Idle
  <2>3. /\ proc'[p].phase = "connected" /\ proc'[p].conn = l
        /\ proc'[p].uses = proc[p].uses
    BY <1>0, <2>1 DEF Activity
  <2>4. proc'[p].uses = None
    BY <1>4, <2>2, <2>3
  <2>5. /\ conn'[l].cl /\ conn'[l].sv /\ conn'[l].line = None /\ conn'[l].reply = None
        /\ ~conn[l].sv /\ ~conn[l].cl
        /\ \A m \in Conn \ {l} : conn'[m] = conn[m]
    BY <1>0, <2>1 DEF Free
  <2>6. holder[l] = None
    BY <2>5 DEF HoldInv, ConnHold
  <2>7. \A q \in Process \ {p} : proc[q].phase # "idle" => proc[q].conn # l
    BY <2>5 DEF HoldInv, ProcHold, Mine
  <2>8. None \notin Host
    BY DEF ServerAssumption
  <2> QED BY <1>1, <2>3, <2>4, <2>5, <2>6, <2>7, <2>8, OneProcess
<1>6. ASSUME NEW line \in SenderLine \cup {"host"}, conn' = Sputs(p, line),
             proc[p].phase # "idle", holder[k] = None,
             proc[p].uses = None, proc'[p].uses = None,
             proc'[p].phase = "asked", proc'[p].conn = k
      PROVE  HoldInv'
  <2>1. /\ conn'[k].sv = conn[k].sv /\ conn'[k].cl = conn[k].cl
        /\ \A l \in Conn \ {k} : conn'[l] = conn[l]
        /\ conn[k].sv => conn'[k].line = line /\ conn'[k].reply = None
        /\ ~conn[k].sv => conn'[k] = conn[k]
    <3>1. k \in Conn /\ Mine(p) = conn[k] /\ ConnPart
      BY <1>2, <1>6 DEF TypeInv
    <3>2. \A l \in Conn :
            /\ Sputs(p, line)[l].sv = conn[l].sv /\ Sputs(p, line)[l].cl = conn[l].cl
            /\ l # k => Sputs(p, line)[l] = conn[l]
      BY <3>1, PutEnd
    <3>3. \A l \in Conn :
            /\ Mine(p).sv => Sputs(p, line)[k].line = line /\ Sputs(p, line)[k].reply = None
            /\ ~Mine(p).sv => Sputs(p, line) = conn
      BY <3>1, PutEnd
    <3> QED BY <1>6, <3>1, <3>2, <3>3
  <2>2. None \notin Host
    BY DEF ServerAssumption
  <2> HIDE DEF k
  <2> QED BY <1>1, <1>2, <1>6, <2>1, <2>2, OneProcess
<1>7. CASE Ask(p)
  <2>1. /\ conn' = Sputs(p, "host")
        /\ proc' = [proc EXCEPT ![p].phase = "asked", ![p].asks = @ + 1]
        /\ \/ proc[p].phase = "connected"
           \/ proc[p].phase = "asked" /\ Mine(p).reply = "0.0.0.0"
    BY <1>7 DEF Ask
  <2>2. /\ proc'[p].phase = "asked" /\ proc'[p].conn = k
        /\ proc'[p].uses = proc[p].uses
    BY <1>0, <2>1 DEF Activity
  <2>3. holder[k] \in Host \cup {None}
    BY <1>2, <2>1 DEF TypeInv, DbPart
  <2>4. holder[k] = None
    BY <1>2, <1>3, <2>1, <2>3 DEF ServerAssumption
  <2>5. proc[p].uses = None
    BY <1>4, <2>1
  <2> QED BY <1>6, <2>1, <2>2, <2>4, <2>5
<1>8. CASE SendMonitor(p)
  <2>1. /\ conn' = Sputs(p, "monitor") /\ "monitor" \in SenderLine
        /\ proc' = [proc EXCEPT ![p].phase = "asked"]
        /\ proc[p].phase = "connected"
    BY <1>8 DEF SendMonitor, SenderLine
  <2>2. /\ proc'[p].phase = "asked" /\ proc'[p].conn = k
        /\ proc'[p].uses = proc[p].uses
    BY <1>0, <2>1 DEF Activity
  <2>3. proc[p].uses = None
    BY <1>4, <2>1
  <2> QED BY <1>3, <1>6, <2>1, <2>2, <2>3
<1>9. ASSUME NEW c \in [Conn -> Connection], conn' = clCloses(c, k),
             proc[p].phase # "idle", proc' = [proc EXCEPT ![p] = Idle],
             c[k].sv = conn[k].sv,
             \A l \in Conn \ {k} : c[l] = conn[l],
             c[k].line # None => holder[k] = None
      PROVE  HoldInv'
  <2>1. proc'[p].phase = "idle" /\ proc'[p].uses = None
    BY <1>0, <1>9 DEF Idle
  <2>2. k \in Conn
    BY <1>2, <1>9
  <2>3. /\ conn'[k].sv = conn[k].sv /\ conn'[k].reply = None
        /\ conn[k].sv => conn'[k].line = c[k].line
        /\ ~conn[k].sv => conn'[k].line = None
        /\ \A l \in Conn \ {k} : conn'[l] = conn[l]
    <3>1. \A l \in Conn :
            /\ clCloses(c, k)[l].sv = c[l].sv
            /\ c[l].sv => clCloses(c, k)[l].line = c[l].line
            /\ l # k => clCloses(c, k)[l] = c[l]
      BY <2>2, ClosedEnd
    <3>2. /\ clCloses(c, k)[k].reply = None
          /\ ~c[k].sv => clCloses(c, k)[k] = Free
      BY <2>2, ClosedEnd
    <3>3. Free.line = None
      BY DEF Free
    <3> QED BY <1>9, <2>2, <3>1, <3>2, <3>3
  <2>4. None \notin Host
    BY DEF ServerAssumption
  <2> HIDE DEF k
  <2> QED BY <1>1, <1>2, <1>9, <2>1, <2>2, <2>3, <2>4, OneProcess
<1>10. ASSUME NEW line \in SenderLine, WriteAndClose(p, line)
       PROVE  HoldInv'
  <2>1. /\ conn' = clCloses(Sputs(p, line), k) /\ proc[p].phase = "connected"
        /\ proc' = [proc EXCEPT ![p] = Idle]
    BY <1>10 DEF WriteAndClose
  <2>2. k \in Conn /\ ConnPart
    BY <1>2, <2>1 DEF TypeInv
  <2>3. Sputs(p, line) \in [Conn -> Connection]
    BY <2>2, Puts
  <2>4. \A l \in Conn : /\ Sputs(p, line)[l].sv = conn[l].sv
                        /\ l # k => Sputs(p, line)[l] = conn[l]
    BY <2>2, PutEnd
  <2> QED BY <1>3, <1>9, <2>1, <2>2, <2>3, <2>4
<1>11. CASE Done(p) \/ Dies(p)
  <2>1. /\ conn' = clCloses(conn, k) /\ proc[p].phase # "idle"
        /\ proc' = [proc EXCEPT ![p] = Idle]
    BY <1>11 DEF Done, Dies, Ends
  <2> QED BY <1>0, <1>2, <1>9, <2>1
<1>12. CASE Run(p)
  <2>1. /\ proc[p].phase = "asked"
        /\ conn' = [conn EXCEPT ![k].reply = None]
        /\ proc' = [proc EXCEPT ![p].phase = "running",
                      ![p].uses = IF Mine(p).reply \in Host THEN Mine(p).reply ELSE None]
    BY <1>12 DEF Run
  <2>2. /\ proc'[p].phase = "running" /\ proc'[p].conn = k
        /\ proc'[p].uses = IF Mine(p).reply \in Host THEN Mine(p).reply ELSE None
    BY <1>0, <2>1 DEF Activity
  <2>3. /\ k \in Conn /\ conn[k] \in Connection /\ Mine(p) = conn[k]
    BY <1>2, <2>1
  <2>4. /\ conn'[k].cl = conn[k].cl /\ conn'[k].sv = conn[k].sv
        /\ conn'[k].line = conn[k].line /\ conn'[k].reply = None
        /\ \A l \in Conn \ {k} : conn'[l] = conn[l]
    BY <1>0, <2>1, <2>3 DEF Connection
  <2>5. proc'[p].uses # None =>
          proc'[p].phase = "running" /\ (conn'[k].sv => holder[k] = proc'[p].uses)
    <3> SUFFICES ASSUME proc'[p].uses # None
                 PROVE  proc'[p].phase = "running" /\ (conn'[k].sv => holder[k] = proc'[p].uses)
      OBVIOUS
    <3>1. conn[k].reply \in Host /\ proc'[p].uses = conn[k].reply
      BY <2>2, <2>3
    <3>2. conn[k].sv => holder[k] = conn[k].reply
      BY <1>2, <2>1, <2>3, <3>1
    <3> QED BY <2>2, <2>4, <3>1, <3>2
  <2>6. /\ ~conn'[k].sv => conn'[k].line = None /\ holder[k] = None
        /\ conn'[k].line # None => holder[k] = None
        /\ conn[k].cl /\ None \notin Host
        /\ \A q \in Process \ {p} : proc[q].phase # "idle" => proc[q].conn # k
    BY <1>2, <2>1, <2>4 DEF ServerAssumption
  <2> HIDE DEF k
  <2> QED
    <3>1. /\ proc'[p].phase # "connected" /\ proc'[p].conn = k /\ conn'[k].cl
          /\ conn'[k].reply \notin Host
      BY <2>2, <2>4, <2>6
    <3> QED BY <1>1, <2>3, <2>4, <2>5, <2>6, <3>1, OneProcess
<1> QED
  BY <1>5, <1>7, <1>8, <1>10, <1>11, <1>12 DEF ProcStep, Send, SendLoad, SendStatus,
     SendBad, SenderLine

LEMMA HoldNext ==
  ASSUME ServerAssumption, TypeInv, HoldInv, [Next]_vars
  PROVE  HoldInv'
<1>1. CASE UNCHANGED vars
  <2>1. UNCHANGED <<holder, proc, conn>>
    BY <1>1 DEF vars, db
  <2> QED BY <2>1, NothingHeld
<1> QED
  BY <1>1, HandleHold, ServerHold, ProcStepHold DEF Next, ServerStep, ProcStep

\* Whatever else is asked, sent or closed, and if the server is stopped and started
\* again in between, a command holds the cpu it was given as long as the connection to
\* the server that gave it is open (HostReqMsg, the end of a connection in handleReq,
\* gethost's main).
THEOREM CommandHoldsCpu == ASSUME ServerAssumption PROVE Spec => []HoldsWhileRunning
<1>1. Init => TypeInv /\ HoldInv
  BY TypeInit, HoldInit
<1>2. TypeInv /\ HoldInv /\ [Next]_vars => TypeInv' /\ HoldInv'
  BY TypeNext, HoldNext
<1>3. HoldInv => HoldsWhileRunning
  BY DEF HoldInv, ProcHold, HoldsWhileRunning, Process
<1> QED BY <1>1, <1>2, <1>3, PTL DEF Spec

-----------------------------------------------------------------------------
(* How many commands a host has.  A command may outlive the server that     *)
(* gave it a cpu, and so may an answer that was not read; what counts are   *)
(* the connections that the server lent a cpu or whose process has been     *)
(* told of the host.                                                        *)

Told(k, h) ==
  \E p \in Process : /\ proc[p].phase # "idle" /\ proc[p].conn = k
                     /\ proc[p].uses = h \/ conn[k].reply = h

Claimed(h) == {k \in Conn : holder[k] = h \/ Told(k, h)}

BoundInv ==
  /\ joins \in [Host -> Nat]
  /\ \A h \in Host : Cardinality(Claimed(h)) + free[h] <= joins[h] * NCpus[h]

LEMMA ClaimedCount ==
  ASSUME ServerAssumption, NEW h
  PROVE  /\ IsFiniteSet(Claimed(h)) /\ Cardinality(Claimed(h)) \in Nat
         /\ IsFiniteSet(Claimed(h)') /\ Cardinality(Claimed(h)') \in Nat
<1>1. IsFiniteSet(Claimed(h))
  <2>1. Claimed(h) \subseteq Conn
    BY DEF Claimed
  <2> QED BY <2>1, FS_Subset DEF ServerAssumption
<1>2. IsFiniteSet(Claimed(h)')
  <2>1. Claimed(h)' \subseteq Conn
    BY DEF Claimed
  <2> QED BY <2>1, FS_Subset DEF ServerAssumption
<1> QED BY <1>1, <1>2, FS_CardinalityType

\* No more is claimed, and no more is free.
LEMMA ShrinkBound ==
  ASSUME ServerAssumption, TypeInv, TypeInv', BoundInv, UNCHANGED joins, NEW h \in Host,
         Claimed(h)' \subseteq Claimed(h), free'[h] <= free[h]
  PROVE  Cardinality(Claimed(h)') + free'[h] <= joins'[h] * NCpus[h]
<1>1. Cardinality(Claimed(h)') <= Cardinality(Claimed(h))
  BY ClaimedCount, FS_Subset
<1>2. Cardinality(Claimed(h)') \in Nat /\ Cardinality(Claimed(h)) \in Nat
  BY ClaimedCount
<1>3. free[h] \in Nat /\ free'[h] \in Nat /\ joins[h] \in Nat /\ NCpus[h] \in Nat
  BY DEF TypeInv, DbPart, BoundInv, ServerAssumption
<1>4. joins[h] * NCpus[h] \in Nat
  BY <1>3
<1>5. Cardinality(Claimed(h)) + free[h] <= joins[h] * NCpus[h]
  BY DEF BoundInv
<1> QED BY <1>1, <1>2, <1>3, <1>4, <1>5

\* The server tells nobody of a host.
LEMMA NothingTold ==
  ASSUME UNCHANGED proc, None \notin Host,
         \A k \in Conn : /\ conn'[k].reply = conn[k].reply \/ conn'[k].reply \notin Host
                         /\ holder'[k] = holder[k] \/ holder'[k] = None,
         NEW h \in Host
  PROVE  Claimed(h)' \subseteq Claimed(h)
<1> SUFFICES ASSUME NEW k \in Conn, holder'[k] = h \/ Told(k, h)'
             PROVE  holder[k] = h \/ Told(k, h)
  BY DEF Claimed
<1>1. CASE holder'[k] = h
  BY <1>1
<1>2. CASE Told(k, h)'
  <2>1. PICK p \in Process : /\ proc[p].phase # "idle" /\ proc[p].conn = k
                             /\ proc[p].uses = h \/ conn'[k].reply = h
    BY <1>2 DEF Told
  <2>2. proc[p].uses = h \/ conn[k].reply = h
    BY <2>1
  <2> QED BY <2>1, <2>2 DEF Told
<1> QED BY <1>1, <1>2

\* A process does something: its command uses a host only because it was told of it.
LEMMA ProcStepBound ==
  ASSUME ServerAssumption, TypeInv, TypeInv', HoldInv, BoundInv, NEW p \in Process, ProcStep(p)
  PROVE  BoundInv'
<1> DEFINE k == proc[p].conn
<1>0. /\ conn \in [Conn -> Connection] /\ proc \in [Process -> Activity]
      /\ proc[p] \in Activity /\ None \notin Host
  BY DEF TypeInv, ConnPart, ProcPart, ServerAssumption
<1>1. /\ UNCHANGED <<holder, free, joins>> /\ \A q \in Process \ {p} : proc'[q] = proc[q]
  BY <1>0 DEF ProcStep, Sopen, Ask, Send, SendLoad, SendStatus, SendBad, SendMonitor,
     WriteAndClose, Run, Done, Dies, Ends, db
<1>2. proc[p].phase # "idle" => k \in Conn
  BY DEF TypeInv, ProcPart
<1>3. proc[p].uses # None => proc[p].phase = "running"
  BY DEF HoldInv, ProcHold
<1>4. ASSUME \A l \in Conn : conn'[l].reply \in {conn[l].reply, None},
             \/ proc'[p].phase = "idle"
             \/ /\ proc[p].phase # "idle" /\ proc'[p].conn = k
                /\ proc'[p].uses \in {proc[p].uses, conn[k].reply, None}
             \/ proc'[p].uses = None /\ conn'[proc'[p].conn].reply = None
      PROVE  BoundInv'
  <2>1. ASSUME NEW h \in Host
        PROVE  Claimed(h)' \subseteq Claimed(h)
    <3> SUFFICES ASSUME NEW l \in Conn, Told(l, h)'
                 PROVE  Told(l, h)
      BY <1>1 DEF Claimed
    <3>1. PICK q \in Process : /\ proc'[q].phase # "idle" /\ proc'[q].conn = l
                               /\ proc'[q].uses = h \/ conn'[l].reply = h
      BY DEF Told
    <3>2. conn'[l].reply = h => conn[l].reply = h
      BY <1>0, <1>4
    <3>3. /\ proc[q].phase # "idle" /\ proc[q].conn = l
          /\ proc[q].uses = h \/ conn[l].reply = h
      <4>1. CASE q # p
        BY <1>1, <3>1, <3>2, <4>1
      <4>2. CASE q = p
        BY <1>0, <1>4, <3>1, <3>2, <4>2
      <4> QED BY <4>1, <4>2
    <3> QED BY <3>3 DEF Told
  <2>2. \A h \in Host : free'[h] <= free[h]
    BY <1>1 DEF TypeInv, DbPart
  <2>3. \A h \in Host : Cardinality(Claimed(h)') + free'[h] <= joins'[h] * NCpus[h]
    BY <1>1, <2>1, <2>2, ShrinkBound
  <2> QED BY <1>1, <2>3 DEF BoundInv
<1>5. CASE Sopen(p)
  <2>1. PICK l \in Conn :
          /\ conn' = [conn EXCEPT ![l] = [Free EXCEPT !.cl = TRUE, !.sv = TRUE]]
          /\ proc' = [proc EXCEPT ![p].phase = "connected", ![p].conn = l]
    BY <1>5 DEF Sopen
  <2>2. proc[p].phase = "idle"
    BY <1>5 DEF Sopen, Idle
  <2>3. proc'[p].conn = l /\ proc'[p].uses = proc[p].uses
    BY <1>0, <2>1 DEF Activity
  <2>4. conn'[l].reply = None /\ \A m \in Conn \ {l} : conn'[m] = conn[m]
    BY <1>0, <2>1 DEF Free
  <2> QED BY <1>3, <1>4, <2>2, <2>3, <2>4
<1>6. ASSUME NEW line \in SenderLine \cup {"host"}, proc[p].phase # "idle"
      PROVE  \A l \in Conn : Sputs(p, line)[l].reply \in {conn[l].reply, None}
  <2>1. k \in Conn
    BY <1>2, <1>6
  <2>2. CASE ~Mine(p).sv
    BY <2>2 DEF Sputs
  <2>3. CASE Mine(p).sv
    <3>1. Sputs(p, line) = [conn EXCEPT ![k].line = line, ![k].reply = None]
      BY <2>3 DEF Sputs
    <3>2. [conn EXCEPT ![k].line = line, ![k].reply = None][k].reply = None
      BY <1>0, <2>1 DEF Connection
    <3>3. \A l \in Conn \ {k} :
            [conn EXCEPT ![k].line = line, ![k].reply = None][l] = conn[l]
      BY <1>0, <2>1
    <3> QED BY <3>1, <3>2, <3>3
  <2> QED BY <2>2, <2>3
<1>7. CASE Ask(p)
  <2>1. /\ conn' = Sputs(p, "host") /\ proc[p].phase # "idle"
        /\ proc' = [proc EXCEPT ![p].phase = "asked", ![p].asks = @ + 1]
    BY <1>7 DEF Ask
  <2>2. proc'[p].conn = k /\ proc'[p].uses = proc[p].uses
    BY <1>0, <2>1 DEF Activity
  <2> QED BY <1>4, <1>6, <2>1, <2>2
<1>8. CASE SendMonitor(p)
  <2>1. /\ conn' = Sputs(p, "monitor") /\ proc[p].phase # "idle" /\ "monitor" \in SenderLine
        /\ proc' = [proc EXCEPT ![p].phase = "asked"]
    BY <1>8 DEF SendMonitor, SenderLine
  <2>2. proc'[p].conn = k /\ proc'[p].uses = proc[p].uses
    BY <1>0, <2>1 DEF Activity
  <2> QED BY <1>4, <1>6, <2>1, <2>2
<1>9. ASSUME NEW c \in [Conn -> Connection], conn' = clCloses(c, k), proc[p].phase # "idle",
             proc' = [proc EXCEPT ![p] = Idle],
             \A l \in Conn : c[l].reply \in {conn[l].reply, None}
      PROVE  BoundInv'
  <2>1. k \in Conn
    BY <1>2, <1>9
  <2>2. proc'[p].phase = "idle"
    BY <1>0, <1>9 DEF Idle
  <2>3. /\ clCloses(c, k)[k].reply = None
        /\ \A l \in Conn : l # k => clCloses(c, k)[l] = c[l]
    BY <2>1, ClosedEnd
  <2>4. \A l \in Conn : conn'[l].reply \in {conn[l].reply, None}
    BY <1>9, <2>3
  <2> QED BY <1>4, <2>2, <2>4
<1>10. ASSUME NEW line \in SenderLine, WriteAndClose(p, line)
       PROVE  BoundInv'
  <2>1. /\ conn' = clCloses(Sputs(p, line), k) /\ proc[p].phase # "idle"
        /\ proc' = [proc EXCEPT ![p] = Idle]
    BY <1>10 DEF WriteAndClose
  <2>2. Sputs(p, line) \in [Conn -> Connection]
    BY <1>2, <2>1, Puts DEF TypeInv
  <2> QED BY <1>6, <1>9, <2>1, <2>2
<1>11. CASE Done(p) \/ Dies(p)
  <2>1. /\ conn' = clCloses(conn, k) /\ proc[p].phase # "idle"
        /\ proc' = [proc EXCEPT ![p] = Idle]
    BY <1>11 DEF Done, Dies, Ends
  <2> QED BY <1>0, <1>9, <2>1
<1>12. CASE Run(p)
  <2>1. /\ proc[p].phase = "asked"
        /\ conn' = [conn EXCEPT ![k].reply = None]
        /\ proc' = [proc EXCEPT ![p].phase = "running",
                      ![p].uses = IF Mine(p).reply \in Host THEN Mine(p).reply ELSE None]
    BY <1>12 DEF Run
  <2>2. /\ proc'[p].conn = k
        /\ proc'[p].uses = IF Mine(p).reply \in Host THEN Mine(p).reply ELSE None
    BY <1>0, <2>1 DEF Activity
  <2>3. k \in Conn
    BY <1>2, <2>1
  <2>4. conn'[k].reply = None /\ \A l \in Conn \ {k} : conn'[l] = conn[l]
    BY <1>0, <2>1, <2>3 DEF Connection
  <2> QED BY <1>4, <2>1, <2>2, <2>4 DEF Mine
<1> QED
  BY <1>5, <1>7, <1>8, <1>10, <1>11, <1>12 DEF ProcStep, Send, SendLoad, SendStatus,
     SendBad, SenderLine

LEMMA BoundInit ==
  ASSUME ServerAssumption, Init
  PROVE  BoundInv
<1>1. None \notin Host
  BY DEF ServerAssumption
<1>2. ASSUME NEW h \in Host
      PROVE  Cardinality(Claimed(h)) + free[h] <= joins[h] * NCpus[h]
  <2>1. Claimed(h) = {}
    BY <1>1, <1>2 DEF Init, Claimed, Told, Idle
  <2>2. Cardinality(Claimed(h)) = 0
    BY <2>1, FS_EmptySet
  <2>3. free[h] = 0 /\ joins[h] = 0 /\ NCpus[h] \in Nat
    BY DEF Init, ServerAssumption
  <2> QED BY <2>2, <2>3
<1>3. joins \in [Host -> Nat]
  BY DEF Init
<1> QED BY <1>2, <1>3 DEF BoundInv

\* A step of the server that gives no cpu out and puts no host into service.
LEMMA NoneGiven ==
  ASSUME ServerAssumption, TypeInv, TypeInv', BoundInv, UNCHANGED <<proc, joins>>,
         \A k \in Conn : /\ conn'[k].reply = conn[k].reply \/ conn'[k].reply \notin Host
                         /\ holder'[k] = holder[k] \/ holder'[k] = None,
         \A h \in Host : free'[h] <= free[h]
  PROVE  BoundInv'
<1>1. None \notin Host
  BY DEF ServerAssumption
<1>2. \A h \in Host : Claimed(h)' \subseteq Claimed(h)
  BY <1>1, NothingTold
<1>3. \A h \in Host : Cardinality(Claimed(h)') + free'[h] <= joins'[h] * NCpus[h]
  BY <1>2, ShrinkBound
<1> QED BY <1>3 DEF BoundInv

LEMMA FreeWithdrawn ==
  ASSUME DbPart, NEW S, NEW s, Db!Withdraw(S, s)
  PROVE  \A h \in Host : free'[h] <= free[h]
BY DEF DbPart, Db!Withdraw

LEMMA ServerBound ==
  ASSUME ServerAssumption, TypeInv, TypeInv', BoundInv,
         Smaskwait \/ Saccept \/ doSilentSearch \/ Stop \/ Start
  PROVE  BoundInv'
<1>0. /\ conn \in [Conn -> Connection] /\ free \in [Host -> Nat]
      /\ None \notin Host
  BY DEF TypeInv, ConnPart, DbPart, ServerAssumption
<1>1. CASE Smaskwait \/ Start
  <2>1. UNCHANGED <<holder, proc, conn, free, joins>>
    BY <1>1 DEF Smaskwait, Start, db
  <2> QED BY <1>0, <2>1, NoneGiven
<1>2. CASE doSilentSearch
  <2>1. UNCHANGED <<holder, proc, conn, joins>> /\ Db!Silence
    BY <1>2 DEF doSilentSearch
  <2>2. \A h \in Host : free'[h] <= free[h]
    BY <2>1, FreeWithdrawn DEF Db!Silence, TypeInv
  <2> QED BY <2>1, <2>2, NoneGiven
<1>3. CASE Saccept
  <2>1. UNCHANGED <<holder, proc, free, joins>>
    BY <1>3 DEF Saccept, db
  <2>2. \/ UNCHANGED conn
        \/ \E fd : conn' = [conn EXCEPT ![Head(backlog)].fd = fd]
    BY <1>3 DEF Saccept
  <2>3. \A k \in Conn : conn'[k].reply = conn[k].reply
    <3>1. CASE UNCHANGED conn
      BY <3>1
    <3>2. CASE \E fd : conn' = [conn EXCEPT ![Head(backlog)].fd = fd]
      BY <1>0, <3>2 DEF Connection
    <3> QED BY <2>2, <3>1, <3>2
  <2> QED BY <1>0, <2>1, <2>3, NoneGiven
<1>4. CASE Stop
  <2>1. /\ conn' = [k \in Conn |-> IF conn[k].sv THEN svCloses(conn, k)[k] ELSE conn[k]]
        /\ holder' = [k \in Conn |-> None] /\ UNCHANGED <<proc, joins>>
        /\ free' = [h \in Host |-> 0]
    BY <1>4 DEF Stop
  <2>2. \A k \in Conn : svCloses(conn, k)[k].reply \in {conn[k].reply, None}
    BY <1>0 DEF svCloses, Free, Connection
  <2>3. \A k \in Conn : conn'[k].reply = conn[k].reply \/ conn'[k].reply \notin Host
    BY <1>0, <2>1, <2>2
  <2>4. \A h \in Host : free'[h] <= free[h]
    BY <1>0, <2>1
  <2> QED BY <2>1, <2>3, <2>4, NoneGiven
<1> QED BY <1>1, <1>2, <1>3, <1>4

\* A cpu is lent to the client that is read from.
LEMMA GrantBound ==
  ASSUME ServerAssumption, TypeInv, TypeInv', BoundInv, UNCHANGED <<proc, joins>>,
         cur \in Conn, NEW h0 \in Host, holder[cur] = None, free[h0] > 0,
         holder' = [holder EXCEPT ![cur] = h0], free' = [free EXCEPT ![h0] = @ - 1],
         conn' = Answer(h0)
  PROVE  BoundInv'
<1>0. /\ conn \in [Conn -> Connection] /\ free \in [Host -> Nat]
      /\ holder \in [Conn -> Host \cup {None}] /\ joins \in [Host -> Nat]
      /\ NCpus \in [Host -> Nat] /\ None \notin Host
  BY DEF TypeInv, ConnPart, DbPart, BoundInv, ServerAssumption
<1>1. /\ \A k \in Conn \ {cur} : conn'[k].reply = conn[k].reply /\ holder'[k] = holder[k]
      /\ conn'[cur].reply \in {h0, None} /\ holder'[cur] = h0
  BY <1>0 DEF Answer, Read, Connection
<1>2. ASSUME NEW h \in Host, NEW k \in Conn \ {cur}
      PROVE  k \in Claimed(h)' <=> k \in Claimed(h)
  BY <1>1, <1>2 DEF Claimed, Told
<1>3. ASSUME NEW h \in Host \ {h0}, cur \in Claimed(h)'
      PROVE  cur \in Claimed(h)
  BY <1>0, <1>1, <1>3 DEF Claimed, Told
<1>4. ASSUME NEW h \in Host
      PROVE  Cardinality(Claimed(h)') + free'[h] <= joins'[h] * NCpus[h]
  <2>0. Claimed(h) \subseteq Conn /\ Claimed(h)' \subseteq Conn
    BY DEF Claimed
  <2>1. CASE h # h0
    <3>1. Claimed(h)' \subseteq Claimed(h)
      BY <1>2, <1>3, <1>4, <2>0, <2>1
    <3>2. free'[h] <= free[h]
      BY <1>0, <1>4, <2>1
    <3> QED BY <3>1, <3>2, ShrinkBound
  <2>2. CASE h = h0
    <3>1. Claimed(h)' \subseteq Claimed(h) \cup {cur}
      BY <1>2, <1>4, <2>0
    <3>2. /\ IsFiniteSet(Claimed(h) \cup {cur})
          /\ Cardinality(Claimed(h) \cup {cur}) \in
               {Cardinality(Claimed(h)), Cardinality(Claimed(h)) + 1}
      BY ClaimedCount, FS_AddElement
    <3>3. Cardinality(Claimed(h)') <= Cardinality(Claimed(h) \cup {cur})
      BY <3>1, <3>2, FS_Subset
    <3>4. Cardinality(Claimed(h)) \in Nat /\ Cardinality(Claimed(h)') \in Nat
      BY ClaimedCount
    <3>5. free'[h] = free[h] - 1 /\ free[h] \in Nat /\ joins'[h] = joins[h]
      BY <1>0, <1>4, <2>2
    <3>6. joins[h] * NCpus[h] \in Nat
      BY <1>0, <1>4
    <3>7. Cardinality(Claimed(h)) + free[h] <= joins[h] * NCpus[h]
      BY <1>4 DEF BoundInv
    <3> QED BY <3>2, <3>3, <3>4, <3>5, <3>6, <3>7
  <2> QED BY <2>1, <2>2
<1> QED BY <1>0, <1>4 DEF BoundInv

\* A host is put into service with all its cpus free: as many more can be claimed.
LEMMA JoinBound ==
  ASSUME ServerAssumption, TypeInv, TypeInv', BoundInv, NEW h0 \in Host, Join(h0),
         \A h \in Host : Claimed(h)' \subseteq Claimed(h)
  PROVE  BoundInv'
<1>0. /\ free \in [Host -> Nat] /\ joins \in [Host -> Nat] /\ NCpus \in [Host -> Nat]
  BY DEF TypeInv, DbPart, BoundInv, ServerAssumption
<1>1. /\ joins' = [joins EXCEPT ![h0] = @ + 1]
      /\ free' = [free EXCEPT ![h0] = NCpus[h0]]
  BY DEF Join, Db!Join
<1>2. ASSUME NEW h \in Host
      PROVE  Cardinality(Claimed(h)') + free'[h] <= joins'[h] * NCpus[h]
  <2>1. Cardinality(Claimed(h)') <= Cardinality(Claimed(h))
    BY ClaimedCount, FS_Subset
  <2>2. Cardinality(Claimed(h)') \in Nat /\ Cardinality(Claimed(h)) \in Nat
    BY ClaimedCount
  <2>3. Cardinality(Claimed(h)) + free[h] <= joins[h] * NCpus[h] /\ free[h] \in Nat
    BY <1>0 DEF BoundInv
  <2>4. CASE h = h0
    <3>1. joins'[h] = joins[h] + 1 /\ free'[h] = NCpus[h]
      BY <1>0, <1>1, <2>4
    <3>2. joins'[h] * NCpus[h] = joins[h] * NCpus[h] + NCpus[h]
      <4>1. joins[h] \in Nat /\ NCpus[h] \in Nat
        BY <1>0
      <4>2. \A a, b \in Nat : (a + 1) * b = a * b + b
        OBVIOUS
      <4> QED BY <3>1, <4>1, <4>2
    <3>3. joins[h] * NCpus[h] \in Nat /\ NCpus[h] \in Nat
      BY <1>0
    <3> QED BY <2>1, <2>2, <2>3, <3>1, <3>2, <3>3
  <2>5. CASE h # h0
    <3>1. joins'[h] = joins[h] /\ free'[h] = free[h]
      BY <1>0, <1>1, <2>5
    <3>2. joins[h] * NCpus[h] \in Nat
      BY <1>0
    <3> QED BY <2>1, <2>2, <2>3, <3>1, <3>2
  <2> QED BY <2>4, <2>5
<1>3. joins' \in [Host -> Nat]
  BY <1>0, <1>1
<1> QED BY <1>2, <1>3 DEF BoundInv

\* The connection of a client that has closed goes, and its cpu goes back.
LEMMA ReturnBound ==
  ASSUME ServerAssumption, TypeInv, TypeInv', HoldInv, BoundInv, UNCHANGED <<proc, joins>>,
         cur \in Conn, ~conn[cur].cl, NEW h0 \in Host, holder[cur] = h0,
         holder' = [holder EXCEPT ![cur] = None], Db!Return(h0),
         \A k \in Conn \ {cur} : conn'[k].reply = conn[k].reply
  PROVE  BoundInv'
<1>0. /\ free \in [Host -> Nat] /\ holder \in [Conn -> Host \cup {None}]
      /\ joins \in [Host -> Nat] /\ NCpus \in [Host -> Nat] /\ None \notin Host
  BY DEF TypeInv, DbPart, BoundInv, ServerAssumption
<1>1. /\ \A k \in Conn \ {cur} : holder'[k] = holder[k]
      /\ holder'[cur] = None
  BY <1>0
<1>2. \A p \in Process : proc[p].phase # "idle" => proc[p].conn # cur
  BY DEF HoldInv, ProcHold, Mine
<1>3. ASSUME NEW h \in Host
      PROVE  Claimed(h)' \subseteq Claimed(h) \ {cur}
  <2> SUFFICES ASSUME NEW k \in Conn, k \in Claimed(h)'
               PROVE  k \in Claimed(h) /\ k # cur
    BY DEF Claimed
  <2>1. k # cur
    BY <1>0, <1>1, <1>2 DEF Claimed, Told
  <2>2. k \in Claimed(h)
    BY <1>1, <2>1 DEF Claimed, Told
  <2> QED BY <2>1, <2>2
<1>4. ASSUME NEW h \in Host
      PROVE  Cardinality(Claimed(h)') + free'[h] <= joins'[h] * NCpus[h]
  <2>1. free'[h] \in {free[h], free[h] + 1} /\ (h # h0 => free'[h] = free[h])
    BY <1>0 DEF Db!Return
  <2>2. CASE h # h0
    <3>1. Claimed(h)' \subseteq Claimed(h)
      BY <1>3
    <3>2. free'[h] <= free[h]
      BY <1>0, <2>1, <2>2
    <3> QED BY <3>1, <3>2, ShrinkBound
  <2>3. CASE h = h0
    <3>1. cur \in Claimed(h)
      BY <2>3 DEF Claimed
    <3>2. /\ IsFiniteSet(Claimed(h) \ {cur})
          /\ Cardinality(Claimed(h) \ {cur}) = Cardinality(Claimed(h)) - 1
      BY <3>1, ClaimedCount, FS_RemoveElement
    <3>3. Cardinality(Claimed(h)') <= Cardinality(Claimed(h) \ {cur})
      BY <1>3, <3>2, FS_Subset
    <3>4. Cardinality(Claimed(h)) \in Nat /\ Cardinality(Claimed(h)') \in Nat
      BY ClaimedCount
    <3>5. joins[h] * NCpus[h] \in Nat /\ free[h] \in Nat /\ joins'[h] = joins[h]
      BY <1>0, <1>4
    <3>6. Cardinality(Claimed(h)) + free[h] <= joins[h] * NCpus[h]
      BY <1>4 DEF BoundInv
    <3> QED BY <2>1, <3>2, <3>3, <3>4, <3>5, <3>6
  <2> QED BY <2>2, <2>3
<1> QED BY <1>0, <1>4 DEF BoundInv

\* What removeFd leaves of the connections: no client is told of a host.
LEMMA RemovedTellsNothing ==
  ASSUME ServerAssumption, ConnPart, cur \in Conn, NEW c \in {Read, Answer("text"), conn},
         removeFd(c, cur)
  PROVE  /\ \A k \in Conn : conn'[k].reply = conn[k].reply \/ conn'[k].reply \notin Host
         /\ \A k \in Conn \ {cur} : conn'[k].reply = conn[k].reply
<1>0. conn \in [Conn -> Connection] /\ conn[cur] \in Connection
      /\ "text" \notin Host /\ None \notin Host
  BY DEF ConnPart, ServerAssumption
<1>1. conn' = svCloses(c, cur)
  BY DEF removeFd
<1>2. /\ c \in [Conn -> Connection] /\ c[cur] \in Connection
      /\ c[cur].reply \in {conn[cur].reply, "text", None}
      /\ \A l \in Conn \ {cur} : c[l] = conn[l]
  <2>1. CASE c = conn
    BY <1>0, <2>1
  <2>2. CASE c = Read
    <3>1. Read \in [Conn -> Connection] /\ \A l \in Conn \ {cur} : Read[l] = conn[l]
      BY <1>0 DEF Read, Connection
    <3>2. Read[cur].reply = conn[cur].reply
      BY <1>0 DEF Read, Connection
    <3> QED BY <2>2, <3>1, <3>2
  <2>3. CASE c = Answer("text")
    <3>1. /\ Answer("text") \in [Conn -> Connection]
          /\ \A l \in Conn \ {cur} : Answer("text")[l] = conn[l]
      BY <1>0 DEF Answer, Read, Connection
    <3>2. Answer("text")[cur].reply \in {"text", None}
      BY <1>0 DEF Answer, Read, Connection
    <3> QED BY <2>3, <3>1, <3>2
  <2> QED BY <2>1, <2>2, <2>3
<1>3. /\ conn'[cur].reply \in {c[cur].reply, None}
      /\ \A k \in Conn \ {cur} : conn'[k] = c[k]
  BY <1>1, <1>2 DEF svCloses, Free, Connection
<1> QED BY <1>0, <1>2, <1>3

LEMMA HandleBound ==
  ASSUME ServerAssumption, TypeInv, TypeInv', HoldInv, BoundInv, handleReq
  PROVE  BoundInv'
<1>0. at = "read" /\ cur \in Conn /\ UNCHANGED proc
  BY CurIsConn DEF handleReq, HostReqMsg, LdAvgMsg, StatusUpMsg, StatusDownMsg,
     MonitorReqMsg, BadMsg, Closed, Handles
<1>1. /\ conn \in [Conn -> Connection] /\ holder \in [Conn -> Host \cup {None}]
      /\ free \in [Host -> Nat] /\ conn[cur] \in Connection
      /\ None \notin Host /\ "0.0.0.0" \notin Host /\ ConnPart
  BY <1>0 DEF TypeInv, ConnPart, DbPart, ServerAssumption
<1>2. CASE HostReqMsg
  <2>1. conn[cur].line # None /\ UNCHANGED joins
    BY <1>2 DEF HostReqMsg, Handles, ServerAssumption
  <2>2. holder[cur] = None
    BY <1>0, <2>1 DEF HoldInv, ConnHold
  <2>3. ASSUME NEW h \in Host, holder' = [holder EXCEPT ![cur] = h], Db!Lend(h),
               conn' = Answer(h)
        PROVE  BoundInv'
    <3>1. free[h] > 0 /\ free' = [free EXCEPT ![h] = @ - 1]
      BY <2>3 DEF Db!Lend
    <3> QED BY <1>0, <2>1, <2>2, <2>3, <3>1, GrantBound
  <2>4. CASE conn' = Answer("0.0.0.0") /\ UNCHANGED db
    <3>1. UNCHANGED <<holder, free>>
      BY <2>4 DEF db
    <3>2. \A k \in Conn : conn'[k].reply = conn[k].reply \/ conn'[k].reply \notin Host
      BY <1>0, <1>1, <2>4 DEF Answer, Read, Connection
    <3> QED BY <1>0, <1>1, <2>1, <3>1, <3>2, NoneGiven
  <2> QED BY <1>2, <2>3, <2>4 DEF HostReqMsg
<1>3. CASE LdAvgMsg \/ StatusUpMsg \/ StatusDownMsg \/ MonitorReqMsg \/ BadMsg
  <2>1. PICK c \in {Read, Answer("text"), conn} : removeFd(c, cur)
    BY <1>3 DEF LdAvgMsg, StatusUpMsg, StatusDownMsg, MonitorReqMsg, BadMsg
  <2>2. \A k \in Conn : conn'[k].reply = conn[k].reply \/ conn'[k].reply \notin Host
    BY <1>0, <1>1, <2>1, RemovedTellsNothing
  <2>3. UNCHANGED holder
    BY <1>3 DEF LdAvgMsg, StatusUpMsg, StatusDownMsg, MonitorReqMsg, BadMsg, Join, Keeps, db
  <2>4. \/ \E h \in Host : Join(h)
        \/ UNCHANGED joins /\ \E h \in Host : Db!Overload(h) \/ Db!Down(h)
        \/ UNCHANGED <<joins, free>>
    BY <1>3 DEF LdAvgMsg, StatusUpMsg, StatusDownMsg, MonitorReqMsg, BadMsg, Keeps, db
  <2>5. CASE \E h \in Host : Join(h)
    <3>1. \A h \in Host : Claimed(h)' \subseteq Claimed(h)
      BY <1>0, <1>1, <2>2, <2>3, NothingTold
    <3> QED BY <2>5, <3>1, JoinBound
  <2>6. CASE UNCHANGED joins /\ \E h \in Host : Db!Overload(h) \/ Db!Down(h)
    <3>1. \A h \in Host : free'[h] <= free[h]
      BY <2>6, FreeWithdrawn DEF Db!Overload, Db!Down, TypeInv
    <3> QED BY <1>0, <2>2, <2>3, <2>6, <3>1, NoneGiven
  <2>7. CASE UNCHANGED <<joins, free>>
    BY <1>0, <1>1, <2>2, <2>3, <2>7, NoneGiven
  <2> QED BY <2>4, <2>5, <2>6, <2>7
<1>4. CASE Closed
  <2>1. ~conn[cur].cl /\ removeFd(conn, cur) /\ UNCHANGED joins
    BY <1>4 DEF Closed
  <2>2. /\ \A k \in Conn : conn'[k].reply = conn[k].reply \/ conn'[k].reply \notin Host
        /\ \A k \in Conn \ {cur} : conn'[k].reply = conn[k].reply
    BY <1>0, <1>1, <2>1, RemovedTellsNothing
  <2>3. CASE holder[cur] = None
    <3>1. UNCHANGED <<holder, free>>
      BY <1>4, <2>3 DEF Closed, db
    <3> QED BY <1>0, <1>1, <2>1, <2>2, <3>1, NoneGiven
  <2>4. CASE holder[cur] # None
    <3>1. holder' = [holder EXCEPT ![cur] = None] /\ Db!Return(holder[cur])
      BY <1>4, <2>4 DEF Closed
    <3>2. holder[cur] \in Host
      BY <1>0, <1>1, <2>4
    <3> QED BY <1>0, <2>1, <2>2, <3>1, <3>2, ReturnBound
  <2> QED BY <2>3, <2>4
<1> QED BY <1>2, <1>3, <1>4 DEF handleReq

LEMMA BoundNext ==
  ASSUME ServerAssumption, TypeInv, HoldInv, BoundInv, [Next]_vars
  PROVE  BoundInv'
<1>1. TypeInv'
  BY TypeNext
<1>2. CASE UNCHANGED vars
  <2>1. UNCHANGED <<holder, proc, conn, free, joins>>
    BY <1>2 DEF vars, db
  <2> QED BY <2>1 DEF BoundInv, Claimed, Told
<1> QED
  BY <1>1, <1>2, HandleBound, ServerBound, ProcStepBound DEF Next, ServerStep, ProcStep

\* The commands on a host are no more than its claimed cpus: each has a connection of
\* its own.
LEMMA CommandsClaim ==
  ASSUME ServerAssumption, TypeInv, HoldInv, NEW h \in Host
  PROVE  /\ Cardinality({p \in Gethost : proc[p].uses = h}) <= Cardinality(Claimed(h))
         /\ Cardinality({p \in Gethost : proc[p].uses = h}) \in Nat
<1> DEFINE Users == {p \in Gethost : proc[p].uses = h}
<1> DEFINE via == [p \in Users |-> proc[p].conn]
<1>1. ASSUME NEW p \in Users
      PROVE  p \in Process /\ proc[p].phase # "idle" /\ proc[p].conn \in Claimed(h)
  <2>1. p \in Process /\ proc[p].uses = h /\ h # None
    BY DEF Process, ServerAssumption
  <2>2. proc[p].phase # "idle"
    BY <2>1 DEF HoldInv, ProcHold
  <2>3. proc[p].conn \in Conn
    BY <2>1, <2>2 DEF TypeInv, ProcPart
  <2> QED BY <2>1, <2>2, <2>3 DEF Claimed, Told
<1>2. \A p, q \in Users : proc[p].conn = proc[q].conn => p = q
  BY <1>1 DEF HoldInv, Owned
<1>3. via \in Injection(Users, Claimed(h))
  BY <1>1, <1>2 DEF Injection, IsInjective
<1> HIDE DEF Users, via
<1>4. IsFiniteSet(Users) /\ Cardinality(Users) <= Cardinality(Claimed(h))
  BY <1>3, ClaimedCount, FS_Injection
<1>5. Cardinality(Users) \in Nat
  BY <1>4, FS_CardinalityType
<1> QED BY <1>4, <1>5 DEF Users

\* Whatever dies, asks again, is stopped or started again, and whichever answers are
\* still on their way, the commands on a host and the cpus that the server can still
\* lend of it are never more than all the servers were given of it together
\* (HostReqMsg and the end of a connection in handleReq, gethost's main).
THEOREM CommandsAreBounded == ASSUME ServerAssumption PROVE Spec => []CommandsBounded
<1>1. Init => TypeInv /\ HoldInv /\ BoundInv
  BY TypeInit, HoldInit, BoundInit
<1>2. TypeInv /\ HoldInv /\ BoundInv /\ [Next]_vars => TypeInv' /\ HoldInv' /\ BoundInv'
  BY TypeNext, HoldNext, BoundNext
<1>3. TypeInv /\ HoldInv /\ BoundInv => CommandsBounded
  <2> SUFFICES ASSUME TypeInv, HoldInv, BoundInv, NEW h \in Host
               PROVE  Cardinality({p \in Gethost : proc[p].uses = h}) + free[h]
                        <= joins[h] * NCpus[h]
    BY DEF CommandsBounded
  <2>1. Cardinality(Claimed(h)) + free[h] <= joins[h] * NCpus[h]
    BY DEF BoundInv
  <2>2. /\ Cardinality({p \in Gethost : proc[p].uses = h}) <= Cardinality(Claimed(h))
        /\ Cardinality({p \in Gethost : proc[p].uses = h}) \in Nat
    BY CommandsClaim
  <2>3. Cardinality(Claimed(h)) \in Nat
    BY ClaimedCount
  <2>4. free[h] \in Nat /\ joins[h] \in Nat /\ NCpus[h] \in Nat
    BY DEF TypeInv, DbPart, BoundInv, ServerAssumption
  <2>5. joins[h] * NCpus[h] \in Nat
    BY <2>4
  <2> QED BY <2>1, <2>2, <2>3, <2>4, <2>5
<1> QED BY <1>1, <1>2, <1>3, PTL DEF Spec

=============================================================================
