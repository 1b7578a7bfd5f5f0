---------------------------- MODULE PortMasterProofs ----------------------------
(***************************************************************************)
(* Proofs about PortMaster: no two servers of the table have one name;     *)
(* both sides of a dialogue only read what the other can have sent, so     *)
(* that every variable keeps its type; and, as long as nothing has gone    *)
(* wrong, the table is true and the clients that wait are told in time.    *)
(***************************************************************************)
EXTENDS PortMaster, Positions, TLAPS

-----------------------------------------------------------------------------
(* The table *)

IsTable(t) == \E S : t \in Seq(S)

\* Names stay unique when an entry is removed (delPortTable).
LEMMA DelKeepsNames ==
  ASSUME IsTable(table), NamesUnique, NEW found, found \subseteq DOMAIN table,
         delPortTable(found)
  PROVE  IsTable(table)' /\ NamesUnique'
<1>1. CASE found = {}
  BY <1>1 DEF delPortTable, IsTable, NamesUnique
<1>2. CASE found # {}
  <2> PICK S : table \in Seq(S)
    BY DEF IsTable
  <2> DEFINE i == CHOOSE i \in found : \A j \in found : i <= j
  <2>1. i \in DOMAIN table
    <3>1. found \in SUBSET Nat
      OBVIOUS
    <3>2. \E k \in found : \A j \in found : k <= j
      BY <1>2, <3>1, FirstPosition
    <3> QED BY <3>2
  <2>2. table' = RemoveAt(table, i)
    BY <1>2 DEF delPortTable
  <2> HIDE DEF i
  <2>3. /\ table' \in Seq(S) /\ DOMAIN table' = 1..(Len(table) - 1)
        /\ \A j \in DOMAIN table' : table'[j] = IF j < i THEN table[j] ELSE table[j + 1]
    BY <2>1, <2>2, Removed
  <2>4. i \in 1..Len(table) /\ Len(table) \in Nat /\ DOMAIN table = 1..Len(table)
    BY <2>1
  <2>5. ASSUME NEW j \in DOMAIN table', NEW k \in DOMAIN table',
               table'[j].name = table'[k].name
        PROVE  j = k
    <3> DEFINE from(n) == IF n < i THEN n ELSE n + 1
    <3>1. from(j) \in DOMAIN table /\ from(k) \in DOMAIN table
      BY <2>3, <2>4, <2>5
    <3>2. table[from(j)].name = table[from(k)].name
      BY <2>3, <2>5
    <3>3. from(j) = from(k)
      BY <3>1, <3>2 DEF NamesUnique
    <3> QED BY <2>3, <2>4, <3>3
  <2> QED BY <2>3, <2>5 DEF IsTable, NamesUnique
<1> QED BY <1>1, <1>2

-----------------------------------------------------------------------------
(* The invariant: when the port is asked for, the name is not in the table. *)

NamesInv ==
  /\ {"at", "name"} \subseteq DOMAIN pm
  /\ IsTable(table)
  /\ NamesUnique
  /\ pm.at = "port" => Entries(pm.name) = {}

LEMMA NamesInit ==
  ASSUME Init
  PROVE  NamesInv
<1>1. IsTable(table)
  <2>1. <<>> \in Seq({})
    OBVIOUS
  <2> QED BY <2>1 DEF Init, IsTable
<1> QED BY <1>1 DEF Init, NamesInv, NamesUnique, Accepting

\* The table and the name stay, and the PortMaster does not come to ask for a port.
LEMMA NamesKept ==
  ASSUME NamesInv, UNCHANGED table,
         \/ UNCHANGED pm
         \/ {"at", "name"} \subseteq DOMAIN pm' /\ pm'.at # "port"
  PROVE  NamesInv'
BY DEF NamesInv, IsTable, NamesUnique, Entries

LEMMA AcceptingShape == {"at", "name"} \subseteq DOMAIN Accepting /\ Accepting.at = "accept"
BY DEF Accepting

\* The end of the PortMaster empties the table.
LEMMA EndsNames ==
  ASSUME pmEnds
  PROVE  NamesInv'
<1>1. <<>> \in Seq({}) /\ DOMAIN <<>> = {}
  OBVIOUS
<1>2. table' = <<>>
  BY DEF pmEnds
<1>3. IsTable(table)' /\ NamesUnique'
  BY <1>1, <1>2 DEF IsTable, NamesUnique
<1>4. {"at", "name"} \subseteq DOMAIN pm' /\ pm'.at = "dead"
  BY DEF pmEnds, Accepting
<1> QED BY <1>3, <1>4 DEF NamesInv

\* Each step of the PortMaster.
LEMMA PmStepNames ==
  ASSUME NamesInv, PmStep
  PROVE  NamesInv'
<1> USE AcceptingShape
<1>0. {"at", "name"} \subseteq DOMAIN pm
  BY DEF NamesInv
<1>1. CASE Accept
  BY <1>0, <1>1, NamesKept DEF Accept
<1>2. CASE BeginDialogue
  <2>1. Opening[Input[1]] # "port"
    BY <1>2 DEF BeginDialogue, Opening
  <2> QED BY <1>0, <1>2, <2>1, NamesKept DEF BeginDialogue, Continue
<1>3. CASE pm_table \/ pm_fwinit
  BY <1>3, NamesKept DEF pm_table, pm_fwinit, Finish
<1>4. CASE Unknown
  BY <1>0, <1>4, NamesKept DEF Unknown, Finish
<1>5. CASE ReadHost
  BY <1>0, <1>5, NamesKept DEF ReadHost
<1>6. CASE ReadName
  <2>1. CASE Entries(Input[2]) # {}
    BY <1>6, <2>1, NamesKept DEF ReadName, Finish
  <2>2. CASE Entries(Input[2]) = {}
    <3>1. pm' = [pm EXCEPT !.at = "port", !.name = Input[2]] /\ UNCHANGED table
      BY <1>6, <2>2 DEF ReadName
    <3>2. pm'.name = Input[2] /\ {"at", "name"} \subseteq DOMAIN pm'
      BY <1>0, <3>1
    <3>3. Entries(pm.name)' = {}
      BY <3>1, <3>2, <2>2 DEF Entries
    <3> QED BY <3>1, <3>2, <3>3 DEF NamesInv, IsTable, NamesUnique
  <2> QED BY <2>1, <2>2
<1>7. CASE ReadPort
  <2> DEFINE new == [name |-> pm.name, share |-> pm.share, port |-> Input[2]]
  <2>1. /\ table' = Append(table, new)
        /\ pm' = [pm EXCEPT !.at = "final", !.port = Input[2]]
        /\ Entries(pm.name) = {}
    BY <1>7 DEF ReadPort, makePortTable, NamesInv
  <2>2. PICK S : table \in Seq(S)
    BY DEF NamesInv, IsTable
  <2>3. table \in Seq(S \cup {new})
    BY <2>2, SeqMonotonic
  <2>4. /\ table' \in Seq(S \cup {new}) /\ DOMAIN table' = 1..(Len(table) + 1)
        /\ \A i \in 1..Len(table) : table'[i] = table[i]
        /\ table'[Len(table) + 1] = new
        /\ Len(table) \in Nat /\ DOMAIN table = 1..Len(table)
    BY <2>1, <2>3, AppendProperties
  <2>5. \A i \in 1..Len(table) : table[i].name # new.name
    BY <2>1, <2>4 DEF Entries
  <2>6. NamesUnique'
    BY <2>4, <2>5 DEF NamesUnique, NamesInv
  <2>7. {"at", "name"} \subseteq DOMAIN pm' /\ pm'.at = "final"
    BY <1>0, <2>1
  <2> QED BY <2>4, <2>6, <2>7 DEF NamesInv, IsTable
<1>8. CASE ReadFinalOk
  BY <1>0, <1>8, NamesKept DEF ReadFinalOk, Continue
<1>9. CASE TellWaiting
  BY <1>0, <1>9, NamesKept DEF TellWaiting
<1>10. CASE EndTelling
  BY <1>0, <1>10, NamesKept DEF EndTelling
<1>11. CASE pm_client
  BY <1>11, NamesKept DEF pm_client, Finish
<1>12. CASE pm_close
  <2>1. {i \in DOMAIN table : table[i].port = Input[2]} \subseteq DOMAIN table
    OBVIOUS
  <2>2. IsTable(table)' /\ NamesUnique' /\ pm' = Accepting
    BY <1>12, <2>1, DelKeepsNames DEF pm_close, delPortTable, Finish, NamesInv
  <2> QED BY <2>2 DEF NamesInv
<1>13. CASE pm_rmserver
  <2>1. Entries(Input[2]) \subseteq DOMAIN table
    BY DEF Entries
  <2>2. IsTable(table)' /\ NamesUnique' /\ pm' = Accepting
    BY <1>13, <2>1, DelKeepsNames DEF pm_rmserver, delPortTable, Finish, NamesInv
  <2> QED BY <2>2 DEF NamesInv
<1>14. CASE pm_quit
  <2>1. CASE Input[2] = "PortMaster"
    BY <1>14, <2>1, EndsNames DEF pm_quit
  <2>2. CASE Input[2] # "PortMaster"
    BY <1>14, <2>2, NamesKept DEF pm_quit, Finish
  <2> QED BY <2>1, <2>2
<1>15. CASE longjmp \/ CutName
  BY <1>15, NamesKept DEF longjmp, CutName
<1>16. CASE Spins
  BY <1>0, <1>16, NamesKept DEF Spins
<1> QED
  BY <1>1, <1>2, <1>3, <1>4, <1>5, <1>6, <1>7, <1>8, <1>9, <1>10, <1>11, <1>12, <1>13,
     <1>14, <1>15, <1>16 DEF PmStep

LEMMA NamesNext ==
  ASSUME NamesInv, [Next]_vars
  PROVE  NamesInv'
<1> USE AcceptingShape
<1>1. CASE PmStep
  BY <1>1, PmStepNames
<1>2. CASE PmKilled
  BY <1>2, EndsNames DEF PmKilled
<1>3. CASE Sopen_prtmstr
  BY <1>3, NamesKept DEF Sopen_prtmstr
<1>4. ASSUME NEW p \in Proc,
             Call(p) \/ spmchk(p) \/ Sclose(p) \/ CallNext(p) \/ Refused(p) \/ Resend(p)
               \/ TellRest(p) \/ SendRest(p) \/ Tfwinit(p) \/ Tshut(p)
      PROVE  NamesInv'
  BY <1>4, NamesKept DEF Call, spmchk, Sclose, CallNext, Refused, Resend, TellRest, SendRest,
     Tfwinit, Tshut, doneAtOnce
<1>5. ASSUME NEW p \in Proc,
             Sopen_server(p) \/ Sopen_client(p) \/ Srmsrvr(p) \/ SclosePM(p)
               \/ printPMtable(p) \/ LosesTouch(p) \/ Kill(p)
      PROVE  NamesInv'
  BY <1>5, NamesKept DEF Sopen_server, Sopen_client, Srmsrvr, SclosePM, printPMtable,
     endsWith, LosesTouch, Kill
<1>6. CASE UNCHANGED vars
  BY <1>6, NamesKept DEF vars
<1> QED BY <1>1, <1>2, <1>3, <1>4, <1>5, <1>6 DEF Next

\* No two servers of the table have one name, although the name is looked up before the
\* port is asked for and entered only when it has come (pm_server).
THEOREM NamesAreUnique == Spec => []NamesUnique
<1>1. Init => NamesInv
  BY NamesInit
<1>2. NamesInv /\ [Next]_vars => NamesInv'
  BY NamesNext
<1>3. NamesInv => NamesUnique
  BY DEF NamesInv
<1> QED BY <1>1, <1>2, <1>3, PTL DEF Spec

-----------------------------------------------------------------------------
(* Messages, and what one side has written and the other not read *)

ServerOps == {"server", "Server"}

Events == {"PM_SERVER", "PM_SHARE", "PM_CLIENT", "PM_CLIENTWAIT", "PM_CLOSE",
           "PM_RMSERVER", "PM_TABLE", "PM_FWINIT", "PM_QUIT", "other", "part"}

EventMsg(e) == <<e>>
NameMsg(n)  == <<"name", n>>
PortMsg(q)  == <<"port", q>>
HostMsg(h)  == <<"host", h>>
AskAgain    == <<"PM_RESEND">>

Then(a, q) == <<a>> \o q
One(a)     == Then(a, <<>>)

\* The rest of a server's dialogue, and that of one that shares the PortMaster.
ServerSaid(n, q)   == Then(NameMsg(n), One(PortMsg(q)))
ShareSaid(h, n, q) == Then(HostMsg(h), ServerSaid(n, q))

LEMMA MessageFacts ==
  /\ \A e \in Events : EventMsg(e) \in Message /\ EventMsg(e)[1] = e
  /\ \A n \in Name \cup {"PortMaster"} : NameMsg(n) \in Message /\ NameMsg(n)[2] = n
  /\ \A q \in Port : PortMsg(q) \in Message /\ PortMsg(q)[2] = q
  /\ \A h \in Host : HostMsg(h) \in Message /\ HostMsg(h)[2] = h
  /\ \A i \in Nat : <<"table", i>> \in Message
  /\ Ok \in Message /\ Sorry \in Message /\ AskAgain \in Message
  /\ Part \in Message /\ Part = EventMsg("part")
  /\ Ok # Sorry /\ Ok # AskAgain /\ Ok[1] = "PM_OK" /\ AskAgain[1] = "PM_RESEND"
BY DEF EventMsg, NameMsg, PortMsg, HostMsg, AskAgain, Message, Events, Ok, Sorry, Part

\* A message put before others.
LEMMA ThenFacts ==
  ASSUME NEW S, NEW a \in S, NEW q \in Seq(S)
  PROVE  /\ Then(a, q) \in Seq(S) /\ Then(a, q) # <<>>
         /\ Head(Then(a, q)) = a /\ Tail(Then(a, q)) = q
<1>1. PICK r : r = Then(a, q)
  OBVIOUS
<1>2. PICK o : o = <<a>>
  OBVIOUS
<1>3. o \in Seq(S) /\ Len(o) = 1 /\ o[1] = a /\ Len(q) \in Nat
  BY <1>2
<1>4. /\ r \in Seq(S) /\ Len(r) = 1 + Len(q)
      /\ \A i \in 1..1 + Len(q) : r[i] = IF i <= 1 THEN o[i] ELSE q[i - 1]
  BY <1>1, <1>2, <1>3, ConcatProperties DEF Then
<1>5. r # <<>> /\ r[1] = a
  BY <1>3, <1>4
<1>6. /\ Tail(r) \in Seq(S) /\ Len(Tail(r)) = Len(r) - 1 /\ Head(r) = r[1]
      /\ \A i \in 1..Len(Tail(r)) : Tail(r)[i] = r[i + 1]
  BY <1>4, <1>5, HeadTailProperties
<1>7. Len(Tail(r)) = Len(q)
  BY <1>3, <1>4, <1>6
<1>8. ASSUME NEW i \in 1..Len(q)
      PROVE  Tail(r)[i] = q[i]
  <2>1. i + 1 \in 1..1 + Len(q) /\ ~(i + 1 <= 1) /\ (i + 1) - 1 = i
    BY <1>3
  <2> QED BY <1>4, <1>6, <1>7, <2>1
<1>9. Tail(r) = q
  BY <1>6, <1>7, <1>8, SeqEqual
<1> QED BY <1>1, <1>4, <1>5, <1>6, <1>9

\* A sequence of one, and one written after nothing.
LEMMA OneFacts ==
  ASSUME NEW S, NEW a \in S
  PROVE  /\ One(a) = <<a>> /\ <<>> \o <<a>> = One(a)
         /\ One(a) \in Seq(S) /\ One(a) # <<>> /\ Head(One(a)) = a /\ Tail(One(a)) = <<>>
<1>1. <<>> \in Seq(S) /\ <<a>> \in Seq(S)
  OBVIOUS
<1>2. /\ <<a>> \o <<>> = <<a>> /\ <<>> \o <<a>> = <<a>>
  BY <1>1, ConcatEmptySeq
<1> QED BY <1>1, <1>2, ThenFacts DEF One, Then

\* Two and three messages written at once.
LEMMA TwoAndThree ==
  ASSUME NEW S, NEW a \in S, NEW b \in S, NEW c \in S
  PROVE  <<a, b>> = Then(a, One(b)) /\ <<a, b, c>> = Then(a, Then(b, One(c)))
<1>1. PICK s, t, u, v : s = <<a, b>> /\ t = <<a, b, c>> /\ u = <<b>> /\ v = <<a>>
  OBVIOUS
<1>2. /\ s \in Seq(S) /\ Len(s) = 2 /\ s[1] = a /\ s[2] = b
      /\ t \in Seq(S) /\ Len(t) = 3 /\ t[1] = a /\ t[2] = b /\ t[3] = c
      /\ u \in Seq(S) /\ Len(u) = 1 /\ u[1] = b
      /\ v \in Seq(S) /\ Len(v) = 1 /\ v[1] = a
  BY <1>1
<1>3. One(b) = u /\ One(c) = <<c>>
  BY <1>1, OneFacts
<1>4. PICK w : w = <<c>>
  OBVIOUS
<1>5. w \in Seq(S) /\ Len(w) = 1 /\ w[1] = c
  BY <1>4
<1>6. /\ v \o u \in Seq(S) /\ Len(v \o u) = 2
      /\ \A i \in 1..2 : (v \o u)[i] = IF i <= 1 THEN v[i] ELSE u[i - 1]
      /\ u \o w \in Seq(S) /\ Len(u \o w) = 2
      /\ \A i \in 1..2 : (u \o w)[i] = IF i <= 1 THEN u[i] ELSE w[i - 1]
  <2>1. v \in Seq(S) /\ u \in Seq(S) /\ w \in Seq(S)
    BY <1>2, <1>5
  <2>2. /\ v \o u \in Seq(S) /\ Len(v \o u) = Len(v) + Len(u)
        /\ \A i \in 1..Len(v) + Len(u) : (v \o u)[i] = IF i <= Len(v) THEN v[i] ELSE u[i - Len(v)]
    BY <2>1, ConcatProperties
  <2>3. /\ u \o w \in Seq(S) /\ Len(u \o w) = Len(u) + Len(w)
        /\ \A i \in 1..Len(u) + Len(w) : (u \o w)[i] = IF i <= Len(u) THEN u[i] ELSE w[i - Len(u)]
    BY <2>1, ConcatProperties
  <2>4. Len(v) = 1 /\ Len(u) = 1 /\ Len(w) = 1
    BY <1>2, <1>5
  <2>5. /\ v \o u \in Seq(S) /\ Len(v \o u) = 2
        /\ \A i \in 1..2 : (v \o u)[i] = IF i <= 1 THEN v[i] ELSE u[i - 1]
    BY <2>2, <2>4
  <2>6. /\ u \o w \in Seq(S) /\ Len(u \o w) = 2
        /\ \A i \in 1..2 : (u \o w)[i] = IF i <= 1 THEN u[i] ELSE w[i - 1]
    BY <2>3, <2>4
  <2> QED BY <2>5, <2>6
<1>7. s = v \o u
  BY <1>2, <1>6, SeqEqual
<1>8. PICK x : x = u \o w
  OBVIOUS
<1>9. x \in Seq(S) /\ Len(x) = 2 /\ x[1] = b /\ x[2] = c
  BY <1>2, <1>5, <1>6, <1>8
<1>10. /\ v \o x \in Seq(S) /\ Len(v \o x) = 3
       /\ \A i \in 1..3 : (v \o x)[i] = IF i <= 1 THEN v[i] ELSE x[i - 1]
  <2>1. v \in Seq(S) /\ x \in Seq(S)
    BY <1>2, <1>9
  <2>2. /\ v \o x \in Seq(S) /\ Len(v \o x) = Len(v) + Len(x)
        /\ \A i \in 1..Len(v) + Len(x) : (v \o x)[i] = IF i <= Len(v) THEN v[i] ELSE x[i - Len(v)]
    BY <2>1, ConcatProperties
  <2>3. Len(v) = 1 /\ Len(x) = 2
    BY <1>2, <1>9
  <2> QED BY <2>2, <2>3
<1>11. t = v \o x
  BY <1>2, <1>9, <1>10, SeqEqual
<1> QED BY <1>1, <1>3, <1>4, <1>7, <1>8, <1>11 DEF Then

-----------------------------------------------------------------------------
(* Connections *)

ConnRec == [toPm : Seq(Message), toCl : Seq(Message), cl : BOOLEAN, pm : BOOLEAN,
            from : Host \cup {None}]

Conns == [Conn -> ConnRec]

\* Two states of the connections differ in one connection at most.
OnlyOne(c, d, k) == d \in Conns /\ \A j \in Conn \ {k} : d[j] = c[j]

LEMMA FreeRec == Free \in ConnRec /\ Free.cl = FALSE /\ Free.pm = FALSE /\ Free.toPm = <<>>
                 /\ Free.toCl = <<>>
BY DEF Free, ConnRec

LEMMA PmClosesFacts ==
  ASSUME NEW c \in Conns, NEW k \in Conn, NEW d, d = pmCloses(c, k)
  PROVE  /\ OnlyOne(c, d, k) /\ d[k].cl = c[k].cl /\ ~d[k].pm /\ d[k].toPm = <<>>
         /\ c[k].cl => d[k].toCl = c[k].toCl
<1>1. c[k] \in ConnRec /\ <<>> \in Seq(Message)
  BY DEF Conns
<1>2. [c[k] EXCEPT !.pm = FALSE, !.toPm = <<>>] \in ConnRec
  BY <1>1 DEF ConnRec
<1> QED BY <1>1, <1>2, FreeRec DEF pmCloses, OnlyOne, Conns, ConnRec

LEMMA ClClosesFacts ==
  ASSUME NEW c \in Conns, NEW k \in Conn, k # None, NEW d, d = clCloses(c, k)
  PROVE  /\ OnlyOne(c, d, k) /\ d[k].pm = c[k].pm /\ ~d[k].cl /\ d[k].toCl = <<>>
         /\ c[k].pm => d[k].toPm = c[k].toPm
<1>1. c[k] \in ConnRec /\ <<>> \in Seq(Message)
  BY DEF Conns
<1>2. [c[k] EXCEPT !.cl = FALSE, !.toCl = <<>>] \in ConnRec
  BY <1>1 DEF ConnRec
<1> QED BY <1>1, <1>2, FreeRec DEF clCloses, OnlyOne, Conns, ConnRec

LEMMA PmSendsFacts ==
  ASSUME NEW c \in Conns, NEW k \in Conn, NEW msgs \in Seq(Message),
         NEW d, d = pmSends(c, k, msgs)
  PROVE  /\ OnlyOne(c, d, k) /\ d[k].cl = c[k].cl /\ d[k].pm = c[k].pm
         /\ d[k].toPm = c[k].toPm
         /\ d[k].toCl = IF c[k].cl THEN c[k].toCl \o msgs ELSE c[k].toCl
<1>1. c[k] \in ConnRec
  BY DEF Conns
<1>2. c[k].toCl \o msgs \in Seq(Message)
  BY <1>1, ConcatProperties DEF ConnRec
<1> QED BY <1>1, <1>2 DEF pmSends, OnlyOne, Conns, ConnRec

LEMMA ClSendsFacts ==
  ASSUME NEW c \in Conns, NEW k \in Conn, NEW msgs \in Seq(Message),
         NEW d, d = clSends(c, k, msgs)
  PROVE  /\ OnlyOne(c, d, k) /\ d[k].cl = c[k].cl /\ d[k].pm = c[k].pm
         /\ d[k].toCl = c[k].toCl
         /\ d[k].toPm = IF c[k].pm THEN c[k].toPm \o msgs ELSE c[k].toPm
<1>1. c[k] \in ConnRec
  BY DEF Conns
<1>2. c[k].toPm \o msgs \in Seq(Message)
  BY <1>1, ConcatProperties DEF ConnRec
<1> QED BY <1>1, <1>2 DEF clSends, OnlyOne, Conns, ConnRec

\* The last that the PortMaster writes.
LEMMA LastWordFacts ==
  ASSUME NEW c \in Conns, NEW k \in Conn, NEW msgs \in Seq(Message),
         NEW d, d = pmCloses(pmSends(c, k, msgs), k)
  PROVE  /\ OnlyOne(c, d, k) /\ d[k].cl = c[k].cl /\ ~d[k].pm /\ d[k].toPm = <<>>
         /\ c[k].cl => d[k].toCl = c[k].toCl \o msgs
<1>1. PICK b : b = pmSends(c, k, msgs)
  OBVIOUS
<1>2. /\ OnlyOne(c, b, k) /\ b \in Conns /\ b[k].cl = c[k].cl
      /\ b[k].toCl = IF c[k].cl THEN c[k].toCl \o msgs ELSE c[k].toCl
  BY <1>1, PmSendsFacts DEF OnlyOne
<1>3. /\ OnlyOne(b, d, k) /\ d[k].cl = b[k].cl /\ ~d[k].pm /\ d[k].toPm = <<>>
      /\ b[k].cl => d[k].toCl = b[k].toCl
  BY <1>1, <1>2, PmClosesFacts
<1> QED BY <1>2, <1>3 DEF OnlyOne

\* Either side reads a message.
LEMMA ReadFacts ==
  ASSUME NEW c \in Conns, NEW k \in Conn
  PROVE  /\ c[k].toPm # <<>> => LET d == [c EXCEPT ![k].toPm = Tail(@)] IN
               /\ OnlyOne(c, d, k) /\ d[k].cl = c[k].cl /\ d[k].pm = c[k].pm
               /\ d[k].toPm = Tail(c[k].toPm) /\ d[k].toCl = c[k].toCl
         /\ c[k].toCl # <<>> => LET d == [c EXCEPT ![k].toCl = Tail(@)] IN
               /\ OnlyOne(c, d, k) /\ d[k].cl = c[k].cl /\ d[k].pm = c[k].pm
               /\ d[k].toPm = c[k].toPm /\ d[k].toCl = Tail(c[k].toCl)
<1>1. c[k] \in ConnRec
  BY DEF Conns
<1>2. /\ c[k].toPm # <<>> => Tail(c[k].toPm) \in Seq(Message)
      /\ c[k].toCl # <<>> => Tail(c[k].toCl) \in Seq(Message)
  BY <1>1, HeadTailProperties DEF ConnRec
<1> QED BY <1>1, <1>2 DEF OnlyOne, Conns, ConnRec

-----------------------------------------------------------------------------
(* The invariant of the dialogues *)

PmRec    == [at : Places, conn : Conn \cup {None}, share : Host \cup {None},
             name : Name \cup {None}, port : Port \cup {0}, tries : 0..MaxTry]
EntryRec == [name : Name, share : Host \cup {None}, port : Port]
WaitRec  == [conn : Conn, name : Name]
ProcRec  == [op : Op \cup {"none"}, phase : {"idle", "next", "asked", "told", "spin"},
             name : Name \cup {None}, conn : Conn \cup {None}, port : Port \cup {0},
             listening : BOOLEAN]

Types ==
  /\ pm \in PmRec
  /\ table \in Seq(EntryRec)
  /\ waiting \in Seq(WaitRec)
  /\ backlog \in Seq(Conn)
  /\ firewall \subseteq -128..255
  /\ conn \in Conns
  /\ proc \in [Proc -> ProcRec]
  /\ mishap \in 0..MaxMishap

\* A process has a connection as long as it is in a call, and what it sends then is
\* in its record.
ProcOK(p) ==
  LET r == proc[p] IN
  /\ r.phase \in {"idle", "next"} => r.conn = None
  /\ r.phase = "idle" => r.op = "none" /\ (r.listening => r.name \in Name /\ r.port \in Port)
  /\ r.phase = "next" => /\ r.op \in {"server", "purge"} /\ r.name \in Name
                         /\ ~r.listening /\ r.port = 0
  /\ r.phase \in {"asked", "told", "spin"} =>
       /\ r.conn \in Conn /\ r.conn # None /\ r.op # "none" /\ conn[r.conn].cl
       /\ r.op \in NamedOps \cup {"close"} => r.name \in Name
       /\ r.op \in ServerOps \cup {"close"} => r.port \in Port
       /\ r.op = "close" <=> r.listening
  /\ r.phase = "spin" => r.op \in {"remove", "purge"} /\ ~conn[r.conn].pm

\* No two processes have one connection, and no two on a machine one port.
ProcsApart ==
  \A p, q \in Proc : p # q =>
    /\ proc[p].conn # None => proc[p].conn # proc[q].conn
    /\ HostOf[p] = HostOf[q] /\ proc[p].port # 0 => proc[p].port # proc[q].port

Busy == pm.at \notin {"dead", "accept"}

\* The PortMaster has open what it is to serve, each connection in one place.
ListInv ==
  /\ \A i \in DOMAIN backlog : conn[backlog[i]].pm
  /\ \A i \in DOMAIN waiting : conn[waiting[i].conn].pm
  /\ \A i, j \in DOMAIN backlog : backlog[i] = backlog[j] => i = j
  /\ \A i, j \in DOMAIN waiting : waiting[i].conn = waiting[j].conn => i = j
  /\ \A i \in DOMAIN backlog, j \in DOMAIN waiting : backlog[i] # waiting[j].conn
  /\ Busy => /\ pm.conn \in Conn /\ conn[pm.conn].pm
             /\ \A i \in DOMAIN backlog : backlog[i] # pm.conn
             /\ \A i \in DOMAIN waiting : waiting[i].conn # pm.conn
  /\ pm.at = "accept" => pm = Accepting

\* What a client can have written that the PortMaster has not read.
Unread(at, m) ==
  \/ m = <<>>
  \/ at = "event" /\ \E e \in Events : m = One(EventMsg(e))
  \/ at = "host" /\ \E h \in Host, n \in Name, q \in Port : m = ShareSaid(h, n, q)
  \/ at = "name" /\ \E n \in Name, q \in Port : m = ServerSaid(n, q)
  \/ at \in {"port", "cport"} /\ \E q \in Port : m = One(PortMsg(q))
  \/ at \in {"cname", "wname", "rname"} /\ \E n \in Name : m = One(NameMsg(n))
  \/ at = "cname" /\ m = One(Part)
  \/ at = "qname" /\ m = One(NameMsg("PortMaster"))
  \/ at = "final" /\ m = One(Ok)

MyEvent(p) == EventOf(p, proc[p].op)
ShareOf(p) == IF shares(p) THEN HostOf[p] ELSE None

\* Of a client that is there: it has asked, or has been answered, or has told the rest
\* of what the PortMaster goes on to read.  m and a are what it has written and what it
\* has been answered.
Asked(p, at, m, a) ==
  /\ proc[p].phase = "asked"
  /\ \/ at = "event" /\ m = One(EventMsg(MyEvent(p))) /\ a = <<>>
     \/ at = "event" /\ m = <<>> /\ a = One(AskAgain)
     \/ /\ MyEvent(p) \in DOMAIN Opening /\ at = Opening[MyEvent(p)]
        /\ m = <<>> /\ a = One(Ok) /\ pm.share = None

Told(p, at, m, a) ==
  LET r == proc[p] IN
  /\ r.phase = "told"
  /\ a = IF at = "final" THEN One(Ok) ELSE <<>>
  /\ \/ at = "host" /\ r.op \in ServerOps /\ shares(p)
        /\ m = ShareSaid(HostOf[p], r.name, r.port)
     \/ at = "name" /\ r.op \in ServerOps /\ m = ServerSaid(r.name, r.port)
        /\ pm.share = ShareOf(p)
     \/ at = "port" /\ r.op \in ServerOps /\ m = One(PortMsg(r.port))
        /\ pm.share = ShareOf(p) /\ pm.name = r.name
     \/ at = "final" /\ r.op \in ServerOps /\ m = <<>>
        /\ pm.share = ShareOf(p) /\ pm.name = r.name /\ pm.port = r.port
     \/ at = "cname" /\ r.op = "client" /\ m = One(NameMsg(r.name))
     \/ at = "cname" /\ r.op = "tornName" /\ m = One(Part)
     \/ at = "wname" /\ r.op = "wait" /\ m = One(NameMsg(r.name))
     \/ at = "rname" /\ r.op \in {"remove", "purge"} /\ m = One(NameMsg(r.name))
     \/ at = "cport" /\ r.op = "close" /\ m = One(PortMsg(r.port))

Talks(p, at, m, a) == Asked(p, at, m, a) \/ Told(p, at, m, a)

BacklogInv ==
  \A i \in DOMAIN backlog :
    /\ Unread("event", conn[backlog[i]].toPm)
    /\ \A p \in Proc : proc[p].conn = backlog[i] =>
         /\ proc[p].phase = "asked" /\ conn[backlog[i]].toCl = <<>>
         /\ conn[backlog[i]].toPm = One(EventMsg(MyEvent(p)))

DialogueInv ==
  /\ InDialogue =>
       /\ Unread(pm.at, conn[pm.conn].toPm)
       /\ \A p \in Proc : proc[p].conn = pm.conn =>
            Talks(p, pm.at, conn[pm.conn].toPm, conn[pm.conn].toCl)
       /\ pm.at \notin {"name", "port", "final", "tell", "tellMore"} => pm.share = None
  /\ pm.at \in {"port", "final", "tell", "tellMore"} => pm.name \in Name
  /\ pm.at \in {"final", "tell", "tellMore"} => pm.port \in Port

Inv == /\ Types /\ (\A p \in Proc : ProcOK(p)) /\ ProcsApart
       /\ ListInv /\ BacklogInv /\ DialogueInv

-----------------------------------------------------------------------------
(* The steps of the PortMaster *)

LEMMA TypesFields ==
  ASSUME Types
  PROVE  /\ \A k \in Conn : conn[k] \in ConnRec /\ conn[k].toPm \in Seq(Message)
                            /\ conn[k].toCl \in Seq(Message) /\ conn[k].cl \in BOOLEAN
                            /\ conn[k].pm \in BOOLEAN
         /\ \A p \in Proc : proc[p] \in ProcRec
         /\ \A i \in DOMAIN backlog : backlog[i] \in Conn
         /\ \A i \in DOMAIN waiting : waiting[i] \in WaitRec
         /\ \A i \in DOMAIN table : table[i] \in EntryRec
BY DEF Types, Conns, ConnRec

\* The PortMaster closes its own ends only, and opens none.
LEMMA ProcsKept ==
  ASSUME Types, \A p \in Proc : ProcOK(p), ProcsApart, UNCHANGED proc,
         \A k \in Conn : conn'[k].cl = conn[k].cl /\ (conn'[k].pm => conn[k].pm)
  PROVE  (\A p \in Proc : ProcOK(p))' /\ ProcsApart'
<1>1. ASSUME NEW p \in Proc
      PROVE  ProcOK(p)'
  BY <1>1 DEF ProcOK
<1> QED BY <1>1 DEF ProcsApart

\* The steps in the dialogue with one client, which goes on or is over.
LEMMA DialogueStep ==
  ASSUME Inv, UNCHANGED <<backlog, proc>>, NEW k, k = pm.conn, Busy, OnlyOne(conn, conn', k),
         conn'[k].cl = conn[k].cl,
         pm' \in PmRec, table' \in Seq(EntryRec), firewall' \subseteq -128..255,
         mishap' \in 0..MaxMishap,
         \/ waiting' = waiting
         \/ \E n \in Name : waiting' = Append(waiting, [conn |-> k, name |-> n])
                            /\ conn'[k].pm /\ pm' = Accepting,
         \/ pm' = Accepting
         \/ pm'.conn = k /\ conn'[k].pm /\ pm'.at \notin {"dead", "accept"} /\ DialogueInv'
  PROVE  Inv'
<1>1. /\ k \in Conn /\ conn[k].pm /\ conn' \in Conns
      /\ \A i \in DOMAIN backlog : backlog[i] # k /\ backlog[i] \in Conn
      /\ \A i \in DOMAIN waiting : waiting[i].conn # k /\ waiting[i].conn \in Conn
  BY TypesFields DEF Inv, ListInv, WaitRec, OnlyOne
<1>2. \A j \in Conn \ {k} : conn'[j] = conn[j]
  BY DEF OnlyOne
<1>3. waiting \in Seq(WaitRec)
  BY DEF Inv, Types
<1>4. Types'
  <2>1. ASSUME NEW n \in Name, waiting' = Append(waiting, [conn |-> k, name |-> n])
        PROVE  waiting' \in Seq(WaitRec)
    <3>1. [conn |-> k, name |-> n] \in WaitRec
      BY <1>1 DEF WaitRec
    <3> QED BY <1>3, <2>1, <3>1, AppendProperties
  <2> QED BY <1>1, <2>1 DEF Inv, Types
<1>5. (\A p \in Proc : ProcOK(p))' /\ ProcsApart'
  BY <1>1, <1>2, ProcsKept DEF Inv
<1>6. BacklogInv'
  <2>1. \A i \in DOMAIN backlog : conn'[backlog[i]] = conn[backlog[i]]
    BY <1>1, <1>2
  <2> QED BY <2>1 DEF Inv, BacklogInv, MyEvent
<1>7. DialogueInv'
  BY DEF DialogueInv, InDialogue, Accepting
<1>8. ListInv'
  <2>1. \A i \in DOMAIN backlog : conn'[backlog[i]].pm
    BY <1>1, <1>2 DEF Inv, ListInv
  <2>2. \A i \in DOMAIN waiting : conn'[waiting[i].conn].pm
    BY <1>1, <1>2 DEF Inv, ListInv
  <2>3. CASE waiting' = waiting
    BY <1>1, <2>1, <2>2, <2>3 DEF Inv, ListInv, Busy, Accepting
  <2>4. ASSUME NEW n \in Name, waiting' = Append(waiting, [conn |-> k, name |-> n]),
               conn'[k].pm, pm' = Accepting
        PROVE  ListInv'
    <3> DEFINE w == [conn |-> k, name |-> n]
    <3>1. w \in WaitRec /\ w.conn = k
      BY <1>1 DEF WaitRec
    <3> HIDE DEF w
    <3>8. conn'[k].pm /\ pm' = Accepting
      BY <2>4
    <3>6. /\ Append(waiting, w) \in Seq(WaitRec) /\ Len(Append(waiting, w)) = Len(waiting) + 1
          /\ \A i \in 1..Len(waiting) : Append(waiting, w)[i] = waiting[i]
          /\ Append(waiting, w)[Len(waiting) + 1] = w
      BY <1>3, <3>1, AppendProperties
    <3>7. waiting' = Append(waiting, w)
      BY <2>4 DEF w
    <3>2. /\ DOMAIN waiting = 1..Len(waiting) /\ Len(waiting) \in Nat
          /\ DOMAIN waiting' = 1..(Len(waiting) + 1)
          /\ \A i \in 1..Len(waiting) : waiting'[i] = waiting[i]
          /\ waiting'[Len(waiting) + 1].conn = k
      <4>1. /\ waiting' \in Seq(WaitRec) /\ Len(waiting') = Len(waiting) + 1
            /\ \A i \in 1..Len(waiting) : waiting'[i] = waiting[i]
            /\ waiting'[Len(waiting) + 1] = w
        BY <3>6, <3>7, Zenon
      <4>2. /\ DOMAIN waiting = 1..Len(waiting) /\ Len(waiting) \in Nat
            /\ DOMAIN waiting' = 1..Len(waiting')
        BY <1>3, <4>1, LenProperties
      <4> QED BY <3>1, <4>1, <4>2
    <3>3. \A i \in DOMAIN waiting' : conn'[waiting'[i].conn].pm
      BY <2>2, <3>2, <3>8
    <3>4. \A i, j \in DOMAIN waiting' : waiting'[i].conn = waiting'[j].conn => i = j
      BY <1>1, <3>2 DEF Inv, ListInv
    <3>5. \A i \in DOMAIN backlog, j \in DOMAIN waiting' : backlog[i] # waiting'[j].conn
      BY <1>1, <3>2 DEF Inv, ListInv
    <3> QED BY <2>1, <3>3, <3>4, <3>5, <3>8 DEF Inv, ListInv, Busy, Accepting
  <2> QED BY <2>3, <2>4
<1> QED BY <1>4, <1>5, <1>6, <1>7, <1>8 DEF Inv

\* What is read first of what a client has said, and what remains.
LEMMA OneMessage ==
  ASSUME NEW a \in Message
  PROVE  One(a) \in Seq(Message) /\ One(a) # <<>> /\ Head(One(a)) = a /\ Tail(One(a)) = <<>>
BY OneFacts

LEMMA ThenMessages ==
  ASSUME NEW a \in Message, NEW q \in Seq(Message)
  PROVE  /\ Then(a, q) \in Seq(Message) /\ Then(a, q) # <<>>
         /\ Head(Then(a, q)) = a /\ Tail(Then(a, q)) = q
BY ThenFacts

LEMMA EventSaid ==
  ASSUME NEW e \in Events
  PROVE  LET m == One(EventMsg(e)) IN
           m \in Seq(Message) /\ m # <<>> /\ Head(m)[1] = e /\ Tail(m) = <<>>
BY MessageFacts, OneMessage

LEMMA NameSaid ==
  ASSUME NEW n \in Name \cup {"PortMaster"}
  PROVE  LET m == One(NameMsg(n)) IN
           m \in Seq(Message) /\ m # <<>> /\ Head(m)[2] = n /\ Tail(m) = <<>>
BY MessageFacts, OneMessage

LEMMA PortSaid ==
  ASSUME NEW q \in Port
  PROVE  LET m == One(PortMsg(q)) IN
           m \in Seq(Message) /\ m # <<>> /\ Head(m)[2] = q /\ Tail(m) = <<>>
BY MessageFacts, OneMessage

LEMMA ServerHasSaid ==
  ASSUME NEW n \in Name, NEW q \in Port
  PROVE  LET m == ServerSaid(n, q) IN
           m \in Seq(Message) /\ m # <<>> /\ Head(m)[2] = n /\ Tail(m) = One(PortMsg(q))
<1>1. NameMsg(n) \in Message /\ NameMsg(n)[2] = n /\ One(PortMsg(q)) \in Seq(Message)
  BY MessageFacts, PortSaid
<1> QED BY <1>1, ThenMessages DEF ServerSaid

LEMMA ShareHasSaid ==
  ASSUME NEW h \in Host, NEW n \in Name, NEW q \in Port
  PROVE  LET m == ShareSaid(h, n, q) IN
           m \in Seq(Message) /\ m # <<>> /\ Head(m)[2] = h /\ Tail(m) = ServerSaid(n, q)
<1>1. HostMsg(h) \in Message /\ HostMsg(h)[2] = h /\ ServerSaid(n, q) \in Seq(Message)
  BY MessageFacts, ServerHasSaid
<1> QED BY <1>1, ThenMessages DEF ShareSaid

\* The same was said only when it says the same.
LEMMA SaidSame ==
  /\ \A e, f \in Events : One(EventMsg(e)) = One(EventMsg(f)) => e = f
  /\ \A n, o \in Name : One(NameMsg(n)) = One(NameMsg(o)) => n = o
  /\ \A q, r \in Port : One(PortMsg(q)) = One(PortMsg(r)) => q = r
<1>1. ASSUME NEW e \in Events, NEW f \in Events, One(EventMsg(e)) = One(EventMsg(f))
      PROVE  e = f
  <2>1. Head(One(EventMsg(e)))[1] = e
    BY EventSaid
  <2>2. Head(One(EventMsg(f)))[1] = f
    BY EventSaid
  <2> QED BY <1>1, <2>1, <2>2
<1>2. ASSUME NEW n \in Name, NEW o \in Name, One(NameMsg(n)) = One(NameMsg(o))
      PROVE  n = o
  <2>1. Head(One(NameMsg(n)))[2] = n
    BY NameSaid
  <2>2. Head(One(NameMsg(o)))[2] = o
    BY NameSaid
  <2> QED BY <1>2, <2>1, <2>2
<1>3. ASSUME NEW q \in Port, NEW r \in Port, One(PortMsg(q)) = One(PortMsg(r))
      PROVE  q = r
  <2>1. Head(One(PortMsg(q)))[2] = q
    BY PortSaid
  <2>2. Head(One(PortMsg(r)))[2] = r
    BY PortSaid
  <2> QED BY <1>3, <2>1, <2>2
<1> QED BY <1>1, <1>2, <1>3

LEMMA ServerSame ==
  ASSUME NEW n \in Name, NEW o \in Name, NEW q \in Port, NEW r \in Port,
         ServerSaid(n, q) = ServerSaid(o, r)
  PROVE  n = o /\ q = r
<1>1. Head(ServerSaid(n, q))[2] = n /\ Tail(ServerSaid(n, q)) = One(PortMsg(q))
  BY ServerHasSaid
<1>2. Head(ServerSaid(o, r))[2] = o /\ Tail(ServerSaid(o, r)) = One(PortMsg(r))
  BY ServerHasSaid
<1>3. n = o /\ One(PortMsg(q)) = One(PortMsg(r))
  BY <1>1, <1>2
<1> QED BY <1>3, SaidSame

LEMMA ShareSame ==
  ASSUME NEW g \in Host, NEW h \in Host, NEW n \in Name, NEW o \in Name,
         NEW q \in Port, NEW r \in Port, ShareSaid(g, n, q) = ShareSaid(h, o, r)
  PROVE  g = h /\ n = o /\ q = r
<1>1. Head(ShareSaid(g, n, q))[2] = g /\ Tail(ShareSaid(g, n, q)) = ServerSaid(n, q)
  BY ShareHasSaid
<1>2. Head(ShareSaid(h, o, r))[2] = h /\ Tail(ShareSaid(h, o, r)) = ServerSaid(o, r)
  BY ShareHasSaid
<1>3. g = h /\ ServerSaid(n, q) = ServerSaid(o, r)
  BY <1>1, <1>2
<1> QED BY <1>3, ServerSame

LEMMA OkSaid ==
  /\ One(Ok) \in Seq(Message) /\ One(Ok) # <<>> /\ Head(One(Ok)) = Ok /\ Tail(One(Ok)) = <<>>
  /\ One(AskAgain) # <<>> /\ Head(One(AskAgain)) = AskAgain /\ Tail(One(AskAgain)) = <<>>
  /\ One(Sorry) # <<>> /\ Head(One(Sorry)) = Sorry
<1>1. One(Ok) \in Seq(Message) /\ One(Ok) # <<>> /\ Head(One(Ok)) = Ok /\ Tail(One(Ok)) = <<>>
  BY MessageFacts, OneMessage
<1>2. One(AskAgain) # <<>> /\ Head(One(AskAgain)) = AskAgain /\ Tail(One(AskAgain)) = <<>>
  BY MessageFacts, OneMessage
<1>3. One(Sorry) # <<>> /\ Head(One(Sorry)) = Sorry
  BY MessageFacts, OneMessage
<1> QED BY <1>1, <1>2, <1>3

LEMMA AnsweringFacts ==
  ASSUME Inv, Busy, HasInput, NEW msgs \in Seq(Message), NEW d, d = Answering(msgs),
         NEW k, k = pm.conn
  PROVE  /\ k \in Conn /\ conn[k].pm /\ OnlyOne(conn, d, k)
         /\ d[k].cl = conn[k].cl /\ d[k].pm = conn[k].pm
         /\ d[k].toPm = Tail(conn[k].toPm)
         /\ d[k].toCl = IF conn[k].cl THEN conn[k].toCl \o msgs ELSE conn[k].toCl
<1>1. k \in Conn /\ conn[k].pm /\ conn \in Conns /\ conn[k].toPm # <<>>
  BY DEF Inv, ListInv, Types, HasInput
<1>2. PICK c : c = [conn EXCEPT ![k].toPm = Tail(@)]
  OBVIOUS
<1>3. /\ OnlyOne(conn, c, k) /\ c[k].cl = conn[k].cl /\ c[k].pm = conn[k].pm
      /\ c[k].toPm = Tail(conn[k].toPm) /\ c[k].toCl = conn[k].toCl
  BY <1>1, <1>2, ReadFacts
<1>4. d = pmSends(c, k, msgs) /\ c \in Conns
  BY <1>2, <1>3 DEF Answering, OnlyOne
<1>5. /\ OnlyOne(c, d, k) /\ d[k].cl = c[k].cl /\ d[k].pm = c[k].pm
      /\ d[k].toPm = c[k].toPm
      /\ d[k].toCl = IF c[k].cl THEN c[k].toCl \o msgs ELSE c[k].toCl
  BY <1>1, <1>4, PmSendsFacts
<1> QED BY <1>1, <1>3, <1>5 DEF OnlyOne

LEMMA AnsweredOne ==
  ASSUME Inv, Busy, HasInput, NEW msgs \in Seq(Message), conn' = Answering(msgs),
         NEW k, k = pm.conn
  PROVE  /\ k \in Conn /\ conn[k].pm /\ OnlyOne(conn, conn', k)
         /\ conn'[k].cl = conn[k].cl /\ conn'[k].pm = conn[k].pm
         /\ conn'[k].toPm = Tail(conn[k].toPm)
         /\ conn'[k].toCl = IF conn[k].cl THEN conn[k].toCl \o msgs ELSE conn[k].toCl
<1>1. PICK d : d = Answering(msgs)
  OBVIOUS
<1>2. /\ k \in Conn /\ conn[k].pm /\ OnlyOne(conn, d, k)
      /\ d[k].cl = conn[k].cl /\ d[k].pm = conn[k].pm
      /\ d[k].toPm = Tail(conn[k].toPm)
      /\ d[k].toCl = IF conn[k].cl THEN conn[k].toCl \o msgs ELSE conn[k].toCl
  BY <1>1, AnsweringFacts
<1>3. conn' = d
  BY <1>1
<1> QED BY <1>2, <1>3

LEMMA FinishFacts ==
  ASSUME Inv, Busy, HasInput, NEW msgs \in Seq(Message), Finish(msgs), NEW k, k = pm.conn
  PROVE  /\ pm' = Accepting /\ OnlyOne(conn, conn', k)
         /\ conn'[k].cl = conn[k].cl /\ ~conn'[k].pm
         /\ conn[k].cl => conn'[k].toCl = conn[k].toCl \o msgs
<1>1. PICK d : d = Answering(msgs)
  OBVIOUS
<1>2. /\ k \in Conn /\ OnlyOne(conn, d, k) /\ d \in Conns
      /\ d[k].cl = conn[k].cl
      /\ d[k].toCl = IF conn[k].cl THEN conn[k].toCl \o msgs ELSE conn[k].toCl
  BY <1>1, AnsweringFacts DEF OnlyOne
<1>3. conn' = pmCloses(d, k) /\ pm' = Accepting
  BY <1>1 DEF Finish
<1>4. /\ OnlyOne(d, conn', k) /\ conn'[k].cl = d[k].cl /\ ~conn'[k].pm
      /\ d[k].cl => conn'[k].toCl = d[k].toCl
  BY <1>2, <1>3, PmClosesFacts
<1> QED BY <1>2, <1>3, <1>4 DEF OnlyOne

LEMMA AcceptingRec == Accepting \in PmRec /\ Accepting.at = "accept" /\ Accepting.share = None
BY PortMasterAssumption DEF Accepting, PmRec, Places

LEMMA MishapType ==
  ASSUME Types, goesWrong \/ UNCHANGED mishap
  PROVE  mishap' \in 0..MaxMishap
BY PortMasterAssumption DEF Types, goesWrong

\* A dialogue is over with the last answer.
LEMMA FinishStep ==
  ASSUME Inv, Busy, HasInput, NEW msgs \in Seq(Message), Finish(msgs),
         UNCHANGED <<backlog, proc, waiting>>,
         table' \in Seq(EntryRec), firewall' \subseteq -128..255, mishap' \in 0..MaxMishap
  PROVE  Inv'
<1> DEFINE k == pm.conn
<1>1. /\ pm' = Accepting /\ OnlyOne(conn, conn', k)
      /\ conn'[k].cl = conn[k].cl /\ ~conn'[k].pm
  BY FinishFacts
<1> HIDE DEF k
<1>2. k = pm.conn
  BY DEF k
<1> QED BY <1>1, <1>2, AcceptingRec, DialogueStep

\* A dialogue goes on.
LEMMA ContinueStep ==
  ASSUME Inv, InDialogue, HasInput, NEW msgs \in Seq(Message), conn' = Answering(msgs),
         UNCHANGED <<backlog, proc, waiting, firewall>>,
         table' \in Seq(EntryRec), mishap' \in 0..MaxMishap,
         pm' \in PmRec, pm'.conn = pm.conn, pm'.at \notin {"dead", "accept", "spin"},
         NEW m, m = Tail(conn[pm.conn].toPm), Unread(pm'.at, m),
         NEW a, a = conn[pm.conn].toCl \o msgs,
         \A p \in Proc : proc[p].conn = pm.conn => Talks(p, pm.at, m, a)',
         pm'.at \notin {"name", "port", "final", "tell", "tellMore"} => pm'.share = None,
         pm'.at \in {"port", "final", "tell", "tellMore"} => pm'.name \in Name,
         pm'.at \in {"final", "tell", "tellMore"} => pm'.port \in Port
  PROVE  Inv'
<1> DEFINE k == pm.conn
<1>1. Busy
  BY DEF Busy, InDialogue
<1>2. /\ k \in Conn /\ conn[k].pm /\ OnlyOne(conn, conn', k)
      /\ conn'[k].cl = conn[k].cl /\ conn'[k].pm = conn[k].pm
      /\ conn'[k].toPm = m
      /\ conn'[k].toCl = IF conn[k].cl THEN a ELSE conn[k].toCl
  BY <1>1, AnsweringFacts
<1>3. ASSUME NEW p \in Proc, proc'[p].conn = k
      PROVE  Talks(p, pm.at, conn[pm.conn].toPm, conn[pm.conn].toCl)'
  <2>1. conn[k].cl
    <3>1. ProcOK(p) /\ proc[p].phase \in {"idle", "next", "asked", "told", "spin"} /\ k # None
      BY <1>2, <1>3, TypesFields, PortMasterAssumption DEF Inv, ProcRec
    <3> QED BY <1>3, <3>1 DEF ProcOK
  <2>2. /\ (conn[pm.conn].toPm)' = m /\ (conn[pm.conn].toCl)' = a
    BY <1>2, <2>1
  <2> QED BY <1>3, <2>2
<1>4. DialogueInv'
  BY <1>2, <1>3 DEF DialogueInv
<1> HIDE DEF k
<1>5. k = pm.conn
  BY DEF k
<1>6. firewall' \subseteq -128..255
  BY DEF Inv, Types
<1> QED BY <1>1, <1>2, <1>4, <1>5, <1>6, DialogueStep

LEMMA OpeningFacts ==
  /\ DOMAIN Opening \subseteq Events
  /\ \A e \in DOMAIN Opening :
       /\ Opening[e] \in {"name", "host", "cname", "wname", "cport", "rname", "qname"}
       /\ (Opening[e] = "name" <=> e = "PM_SERVER") /\ (Opening[e] = "host" <=> e = "PM_SHARE")
BY DEF Opening, Events

\* What the PortMaster reads at each place.
LEMMA InputFacts ==
  ASSUME Inv, InDialogue, HasInput, NEW m, m = conn[pm.conn].toPm
  PROVE  /\ pm.at = "event" =>
              \E e \in Events : m = One(EventMsg(e)) /\ Input[1] = e /\ Tail(m) = <<>>
         /\ pm.at = "host" => \E h \in Host, n \in Name, q \in Port :
              m = ShareSaid(h, n, q) /\ Input[2] = h /\ Tail(m) = ServerSaid(n, q)
         /\ pm.at = "name" => \E n \in Name, q \in Port :
              m = ServerSaid(n, q) /\ Input[2] = n /\ Tail(m) = One(PortMsg(q))
         /\ pm.at \in {"port", "cport"} =>
              \E q \in Port : m = One(PortMsg(q)) /\ Input[2] = q /\ Tail(m) = <<>>
         /\ pm.at \in {"cname", "wname", "rname"} =>
              \E n \in Name : m = One(NameMsg(n)) /\ Input[2] = n /\ Tail(m) = <<>>
         /\ pm.at = "final" => m = One(Ok) /\ Tail(m) = <<>>
<1>1. Unread(pm.at, m) /\ m # <<>> /\ Input = Head(m) /\ Input # Part
  BY DEF Inv, DialogueInv, HasInput, Input
<1>2. CASE pm.at = "event"
  <2>1. PICK e \in Events : m = One(EventMsg(e))
    BY <1>1, <1>2 DEF Unread
  <2> QED BY <1>1, <1>2, <2>1, EventSaid
<1>3. CASE pm.at = "host"
  <2>1. PICK h \in Host, n \in Name, q \in Port : m = ShareSaid(h, n, q)
    BY <1>1, <1>3 DEF Unread
  <2> QED BY <1>1, <1>3, <2>1, ShareHasSaid
<1>4. CASE pm.at = "name"
  <2>1. PICK n \in Name, q \in Port : m = ServerSaid(n, q)
    BY <1>1, <1>4 DEF Unread
  <2> QED BY <1>1, <1>4, <2>1, ServerHasSaid
<1>5. CASE pm.at \in {"port", "cport"}
  <2>1. PICK q \in Port : m = One(PortMsg(q))
    BY <1>1, <1>5 DEF Unread
  <2> QED BY <1>1, <1>5, <2>1, PortSaid
<1>6. CASE pm.at \in {"cname", "wname", "rname"}
  <2>0. m # One(Part)
    BY <1>1, OneMessage, MessageFacts
  <2>1. PICK n \in Name : m = One(NameMsg(n))
    BY <1>1, <1>6, <2>0 DEF Unread
  <2> QED BY <1>1, <1>6, <2>1, NameSaid
<1>7. CASE pm.at = "final"
  BY <1>1, <1>7, OkSaid DEF Unread
<1> QED BY <1>2, <1>3, <1>4, <1>5, <1>6, <1>7

\* What is typed stays so when it is not changed.
LEMMA SameTypes ==
  ASSUME Inv
  PROVE  /\ UNCHANGED table => table' \in Seq(EntryRec)
         /\ UNCHANGED firewall => firewall' \subseteq -128..255
         /\ goesWrong \/ UNCHANGED mishap => mishap' \in 0..MaxMishap
BY MishapType DEF Inv, Types

LEMMA MyEventType ==
  ASSUME NEW p
  PROVE  MyEvent(p) \in Events
BY DEF MyEvent, EventOf, Events

LEMMA WrittenFacts ==
  ASSUME NEW a \in Message
  PROVE  <<a>> \in Seq(Message) /\ <<>> \in Seq(Message) /\ <<>> \o <<a>> = One(a)
         /\ <<>> \o <<>> = <<>>
<1>1. <<>> \in Seq(Message)
  OBVIOUS
<1> QED BY <1>1, OneFacts, ConcatEmptySeq

LEMMA BeginStep ==
  ASSUME Inv, BeginDialogue
  PROVE  Inv'
<1> DEFINE m == conn[pm.conn].toPm
<1>1. /\ pm.at = "event" /\ HasInput /\ InDialogue
      /\ UNCHANGED <<table, waiting, backlog, firewall, proc, mishap>>
  BY DEF BeginDialogue, InDialogue
<1>2. PICK e \in Events : m = One(EventMsg(e)) /\ Input[1] = e /\ Tail(m) = <<>>
  BY <1>1, InputFacts
<1>3. /\ e \in DOMAIN Opening /\ pm' = [pm EXCEPT !.at = Opening[e]]
      /\ conn' = Answering(<<Ok>>)
  BY <1>2 DEF BeginDialogue, Continue
<1>4. /\ pm' \in PmRec /\ pm'.at = Opening[e] /\ pm'.conn = pm.conn /\ pm'.share = pm.share
      /\ pm.share = None
  <2>1. Opening[e] \in Places
    BY <1>3, OpeningFacts DEF Places
  <2>2. pm.share = None /\ pm \in PmRec
    BY <1>1 DEF Inv, DialogueInv, Types
  <2> QED BY <1>3, <2>1, <2>2 DEF PmRec
<1>5. Ok \in Message /\ <<Ok>> \in Seq(Message)
  BY MessageFacts, WrittenFacts
<1>6. Unread(pm'.at, <<>>)
  BY DEF Unread
<1>7. ASSUME NEW p \in Proc, proc[p].conn = pm.conn, NEW a, a = conn[pm.conn].toCl \o <<Ok>>
      PROVE  Talks(p, pm.at, <<>>, a)'
  <2>1. Talks(p, pm.at, m, conn[pm.conn].toCl)
    BY <1>1, <1>7 DEF Inv, DialogueInv
  <2>2. m # <<>>
    BY <1>1 DEF HasInput
  <2>3. /\ proc[p].phase = "asked" /\ m = One(EventMsg(MyEvent(p)))
        /\ conn[pm.conn].toCl = <<>>
    BY <1>1, <2>1, <2>2 DEF Talks, Asked, Told, Opening
  <2>4. MyEvent(p) = e
    BY <1>2, <2>3, SaidSame, MyEventType
  <2>5. a = One(Ok)
    BY <1>5, <1>7, <2>3, WrittenFacts
  <2> QED BY <1>1, <1>3, <1>4, <2>3, <2>4, <2>5 DEF Talks, Asked, MyEvent
<1>8. pm'.at \notin {"dead", "accept", "spin", "port", "final", "tell", "tellMore"}
  BY <1>3, <1>4, OpeningFacts
<1>9. table' \in Seq(EntryRec) /\ mishap' \in 0..MaxMishap
  BY <1>1, SameTypes
<1> QED BY <1>1, <1>2, <1>3, <1>4, <1>5, <1>6, <1>7, <1>8, <1>9, ContinueStep

LEMMA FirewallType ==
  ASSUME NEW file \in FwFiles
  PROVE  firewall_init(file) \subseteq -128..255
<1>0. FwFiles \subseteq SUBSET (0..255) /\ Octet \in [Host -> 0..255] /\ PmHost \in Host
  BY PortMasterAssumption
<1>1. Octet[PmHost] \in 0..255 /\ file \subseteq 0..255
  BY <1>0
<1>2. hostaddr \in -128..255
  BY <1>1 DEF hostaddr
<1> SUFFICES ASSUME NEW x \in firewall_init(file)
             PROVE  x \in -128..255
  OBVIOUS
<1>3. x \in file \/ x = hostaddr
  BY DEF firewall_init
<1>4. x \in file => x \in 0..255
  BY <1>1
<1> QED BY <1>2, <1>3, <1>4

LEMMA TableStep ==
  ASSUME Inv, pm_table \/ pm_fwinit
  PROVE  Inv'
<1>1. Busy /\ HasInput /\ UNCHANGED <<table, waiting, backlog, proc, mishap>>
  BY DEF pm_table, pm_fwinit, Busy
<1>2. Len(table) \in Nat
  BY DEF Inv, Types
<1>3. <<Ok>> \in Seq(Message) /\ <<Ok, <<"table", Len(table)>> >> \in Seq(Message)
  <2>1. Ok \in Message /\ <<"table", Len(table)>> \in Message
    BY <1>2, MessageFacts
  <2> HIDE DEF Ok, Message
  <2> QED BY <2>1
<1>4. table' \in Seq(EntryRec) /\ mishap' \in 0..MaxMishap
  BY <1>1, SameTypes
<1>5. CASE pm_table
  BY <1>1, <1>3, <1>4, <1>5, SameTypes, FinishStep DEF pm_table
<1>6. CASE pm_fwinit
  <2>2. firewall' \subseteq -128..255
    BY <1>6, FirewallType DEF pm_fwinit
  <2> QED BY <1>1, <1>3, <1>4, <1>6, <2>2, FinishStep DEF pm_fwinit
<1> QED BY <1>5, <1>6

LEMMA UnknownStep ==
  ASSUME Inv, Unknown
  PROVE  Inv'
<1> DEFINE m == conn[pm.conn].toPm
<1>1. /\ pm.at = "event" /\ HasInput /\ InDialogue /\ Busy
      /\ UNCHANGED <<table, waiting, backlog, firewall, proc, mishap>>
  BY DEF Unknown, InDialogue, Busy
<1>2. PICK e \in Events : m = One(EventMsg(e)) /\ Input[1] = e /\ Tail(m) = <<>>
  BY <1>1, InputFacts
<1>3. AskAgain \in Message /\ <<AskAgain>> \in Seq(Message)
  BY MessageFacts, WrittenFacts
<1>4. table' \in Seq(EntryRec) /\ mishap' \in 0..MaxMishap /\ firewall' \subseteq -128..255
  BY <1>1, SameTypes
<1>5. CASE pm.tries < MaxTry
  <2>1. pm' = [pm EXCEPT !.tries = @ + 1] /\ conn' = Answering(<<AskAgain>>)
    BY <1>5 DEF Unknown, AskAgain
  <2>2. pm \in PmRec /\ pm.share = None
    BY <1>1 DEF Inv, Types, DialogueInv
  <2>3. /\ pm' \in PmRec /\ pm'.at = "event" /\ pm'.conn = pm.conn /\ pm'.share = None
    <3>1. pm.tries + 1 \in 0..MaxTry
      BY <1>5, <2>2, PortMasterAssumption DEF PmRec
    <3> QED BY <1>1, <2>1, <2>2, <3>1 DEF PmRec
  <2>4. ASSUME NEW p \in Proc, proc[p].conn = pm.conn,
               NEW a, a = conn[pm.conn].toCl \o <<AskAgain>>
        PROVE  Talks(p, pm.at, <<>>, a)'
    <3>1. Talks(p, pm.at, m, conn[pm.conn].toCl)
      BY <1>1, <2>4 DEF Inv, DialogueInv
    <3>2. m # <<>>
      BY <1>1 DEF HasInput
    <3>3. proc[p].phase = "asked" /\ conn[pm.conn].toCl = <<>>
      BY <1>1, <3>1, <3>2 DEF Talks, Asked, Told, Opening
    <3>4. a = One(AskAgain)
      BY <1>3, <2>4, <3>3, WrittenFacts
    <3> QED BY <1>1, <2>3, <3>3, <3>4 DEF Talks, Asked
  <2>5. Unread(pm'.at, <<>>)
    BY DEF Unread
  <2> QED BY <1>1, <1>2, <1>3, <1>4, <2>1, <2>3, <2>4, <2>5, ContinueStep
<1>6. CASE ~(pm.tries < MaxTry)
  <2>1. Finish(<<AskAgain>>)
    BY <1>6 DEF Unknown, AskAgain
  <2> QED BY <1>1, <1>3, <1>4, <2>1, FinishStep
<1> QED BY <1>5, <1>6

\* A client that is there has told what the PortMaster reads.
LEMMA TellsInput ==
  ASSUME Inv, InDialogue, HasInput, pm.at # "event", NEW p \in Proc, proc[p].conn = pm.conn
  PROVE  /\ Told(p, pm.at, conn[pm.conn].toPm, conn[pm.conn].toCl)
         /\ pm.at # "final" /\ conn[pm.conn].toCl = <<>>
         /\ proc[p].op \in NamedOps \cup {"close"} => proc[p].name \in Name
         /\ proc[p].op \in ServerOps \cup {"close"} => proc[p].port \in Port
<1>1. Talks(p, pm.at, conn[pm.conn].toPm, conn[pm.conn].toCl) /\ conn[pm.conn].toPm # <<>>
  BY DEF Inv, DialogueInv, HasInput
<1>2. Told(p, pm.at, conn[pm.conn].toPm, conn[pm.conn].toCl)
  BY <1>1 DEF Talks, Asked
<1>3. pm.at # "final" /\ conn[pm.conn].toCl = <<>> /\ proc[p].phase = "told"
  BY <1>1, <1>2 DEF Told
<1>4. ProcOK(p)
  BY DEF Inv
<1> QED BY <1>2, <1>3, <1>4 DEF ProcOK

LEMMA ReadHostStep ==
  ASSUME Inv, ReadHost
  PROVE  Inv'
<1> DEFINE m == conn[pm.conn].toPm
<1>1. /\ pm.at = "host" /\ HasInput /\ InDialogue
      /\ UNCHANGED <<table, waiting, backlog, firewall, proc, mishap>>
      /\ conn' = Answering(<<>>)
  BY DEF ReadHost, InDialogue
<1>2. PICK h \in Host, n \in Name, q \in Port :
        m = ShareSaid(h, n, q) /\ Input[2] = h /\ Tail(m) = ServerSaid(n, q)
  BY <1>1, InputFacts
<1>3. pm' = [pm EXCEPT !.at = "name", !.share = h] /\ pm \in PmRec
  BY <1>2 DEF ReadHost, Inv, Types
<1>4. pm' \in PmRec /\ pm'.at = "name" /\ pm'.conn = pm.conn /\ pm'.share = h
  BY <1>3 DEF PmRec, Places
<1>5. ASSUME NEW p \in Proc, proc[p].conn = pm.conn, NEW a, a = conn[pm.conn].toCl \o <<>>
      PROVE  Talks(p, pm.at, ServerSaid(n, q), a)'
  <2>1. /\ Told(p, pm.at, m, conn[pm.conn].toCl) /\ conn[pm.conn].toCl = <<>>
        /\ proc[p].op \in NamedOps => proc[p].name \in Name
        /\ proc[p].op \in ServerOps => proc[p].port \in Port
    BY <1>1, <1>5, TellsInput
  <2>2. /\ proc[p].phase = "told" /\ proc[p].op \in ServerOps /\ shares(p)
        /\ m = ShareSaid(HostOf[p], proc[p].name, proc[p].port)
    BY <1>1, <2>1 DEF Told
  <2>3. HostOf[p] = h /\ proc[p].name = n /\ proc[p].port = q
    <3>1. HostOf[p] \in Host /\ proc[p].name \in Name /\ proc[p].port \in Port
      BY <2>1, <2>2, PortMasterAssumption DEF ServerOps, NamedOps
    <3>2. ShareSaid(HostOf[p], proc[p].name, proc[p].port) = ShareSaid(h, n, q)
      BY <1>2, <2>2
    <3> QED BY <3>1, <3>2, ShareSame
  <2>4. a = <<>>
    BY <1>5, <2>1, WrittenFacts, MessageFacts
  <2> QED BY <1>1, <1>4, <2>2, <2>3, <2>4 DEF Talks, Told, ShareOf, shares
<1>6. Unread("name", ServerSaid(n, q)) /\ <<>> \in Seq(Message)
  BY WrittenFacts, MessageFacts DEF Unread
<1>7. table' \in Seq(EntryRec) /\ mishap' \in 0..MaxMishap
  BY <1>1, SameTypes
<1> QED BY <1>1, <1>2, <1>4, <1>5, <1>6, <1>7, ContinueStep

LEMMA ReadNameStep ==
  ASSUME Inv, ReadName
  PROVE  Inv'
<1> DEFINE m == conn[pm.conn].toPm
<1>1. /\ pm.at = "name" /\ HasInput /\ InDialogue /\ Busy
      /\ UNCHANGED <<table, waiting, backlog, firewall, proc, mishap>>
  BY DEF ReadName, InDialogue, Busy
<1>2. PICK n \in Name, q \in Port :
        m = ServerSaid(n, q) /\ Input[2] = n /\ Tail(m) = One(PortMsg(q))
  BY <1>1, InputFacts
<1>3. table' \in Seq(EntryRec) /\ mishap' \in 0..MaxMishap /\ firewall' \subseteq -128..255
  BY <1>1, SameTypes
<1>4. <<>> \in Seq(Message) /\ <<Sorry>> \in Seq(Message)
  BY MessageFacts, WrittenFacts
<1>5. CASE Entries(n) # {}
  <2>1. Finish(<<Sorry>>)
    BY <1>2, <1>5 DEF ReadName
  <2> QED BY <1>1, <1>3, <1>4, <2>1, FinishStep
<1>6. CASE Entries(n) = {}
  <2>1. /\ pm' = [pm EXCEPT !.at = "port", !.name = n] /\ pm \in PmRec
        /\ conn' = Answering(<<>>)
    BY <1>2, <1>6 DEF ReadName, Inv, Types
  <2>2. /\ pm' \in PmRec /\ pm'.at = "port" /\ pm'.conn = pm.conn /\ pm'.share = pm.share
        /\ pm'.name = n
    BY <2>1 DEF PmRec, Places
  <2>3. ASSUME NEW p \in Proc, proc[p].conn = pm.conn, NEW a, a = conn[pm.conn].toCl \o <<>>
        PROVE  Talks(p, pm.at, One(PortMsg(q)), a)'
    <3>1. /\ Told(p, pm.at, m, conn[pm.conn].toCl) /\ conn[pm.conn].toCl = <<>>
          /\ proc[p].op \in NamedOps => proc[p].name \in Name
          /\ proc[p].op \in ServerOps => proc[p].port \in Port
      BY <1>1, <2>3, TellsInput
    <3>2. /\ proc[p].phase = "told" /\ proc[p].op \in ServerOps
          /\ m = ServerSaid(proc[p].name, proc[p].port) /\ pm.share = ShareOf(p)
      BY <1>1, <3>1 DEF Told
    <3>3. proc[p].name \in Name /\ proc[p].port \in Port
      BY <3>1, <3>2 DEF ServerOps, NamedOps
    <3>4. ServerSaid(proc[p].name, proc[p].port) = ServerSaid(n, q)
      BY <1>2, <3>2
    <3>5. proc[p].name = n /\ proc[p].port = q
      BY <3>3, <3>4, ServerSame
    <3>6. a = <<>>
      BY <2>3, <3>1, WrittenFacts, MessageFacts
    <3> QED BY <1>1, <2>2, <3>2, <3>5, <3>6 DEF Talks, Told, ShareOf, shares
  <2>4. Unread("port", One(PortMsg(q)))
    BY DEF Unread
  <2>5. PICK a : a = conn[pm.conn].toCl \o <<>>
    OBVIOUS
  <2>6. PICK u : u = Tail(conn[pm.conn].toPm)
    OBVIOUS
  <2>7. u = One(PortMsg(q)) /\ Unread(pm'.at, u)
    BY <1>2, <2>2, <2>4, <2>6
  <2>8. \A p \in Proc : proc[p].conn = pm.conn => Talks(p, pm.at, u, a)'
    BY <2>3, <2>5, <2>7
  <2>9. /\ pm'.at \notin {"dead", "accept", "spin"}
        /\ pm'.at \notin {"name", "port", "final", "tell", "tellMore"} => pm'.share = None
        /\ pm'.at \in {"port", "final", "tell", "tellMore"} => pm'.name \in Name
        /\ pm'.at \in {"final", "tell", "tellMore"} => pm'.port \in Port
    BY <2>2
  <2> HIDE DEF m
  <2> QED BY <1>1, <1>3, <1>4, <2>1, <2>2, <2>5, <2>6, <2>7, <2>8, <2>9, ContinueStep
<1> QED BY <1>5, <1>6

\* The entry that is made of what the PortMaster has read.
LEMMA MadeEntry ==
  ASSUME Inv, pm.at = "port", NEW q \in Port, makePortTable(q)
  PROVE  LET e == [name |-> pm.name, share |-> pm.share, port |-> q] IN
           /\ e \in EntryRec /\ table' = Append(table, e) /\ table' \in Seq(EntryRec)
           /\ Len(table') = Len(table) + 1 /\ Len(table) \in Nat
           /\ DOMAIN table = 1..Len(table) /\ DOMAIN table' = 1..(Len(table) + 1)
           /\ \A i \in 1..Len(table) : table'[i] = table[i]
           /\ table'[Len(table) + 1] = e
<1> DEFINE e == [name |-> pm.name, share |-> pm.share, port |-> q]
<1>1. e \in EntryRec
  BY DEF Inv, Types, DialogueInv, PmRec, EntryRec
<1>2. table \in Seq(EntryRec)
  BY DEF Inv, Types
<1>3. table' = Append(table, e)
  BY DEF makePortTable
<1> HIDE DEF e
<1>4. /\ Append(table, e) \in Seq(EntryRec) /\ Len(Append(table, e)) = Len(table) + 1
      /\ \A i \in 1..Len(table) : Append(table, e)[i] = table[i]
      /\ Append(table, e)[Len(table) + 1] = e
  BY <1>1, <1>2, AppendProperties
<1>5. /\ table' \in Seq(EntryRec) /\ Len(table') = Len(table) + 1
      /\ \A i \in 1..Len(table) : table'[i] = table[i]
      /\ table'[Len(table) + 1] = e
  BY <1>3, <1>4, Zenon
<1>6. /\ DOMAIN table = 1..Len(table) /\ Len(table) \in Nat /\ DOMAIN table' = 1..Len(table')
  BY <1>2, <1>5, LenProperties
<1>7. DOMAIN table' = 1..(Len(table) + 1)
  BY <1>5, <1>6
<1> QED BY <1>1, <1>3, <1>5, <1>6, <1>7 DEF e

LEMMA ReadPortStep ==
  ASSUME Inv, ReadPort
  PROVE  Inv'
<1> DEFINE m == conn[pm.conn].toPm
<1>1. /\ pm.at = "port" /\ HasInput /\ InDialogue
      /\ UNCHANGED <<waiting, backlog, firewall, proc>>
      /\ conn' = Answering(<<Ok>>) /\ (goesWrong \/ UNCHANGED mishap)
  BY DEF ReadPort, InDialogue
<1>2. PICK q \in Port : m = One(PortMsg(q)) /\ Input[2] = q /\ Tail(m) = <<>>
  BY <1>1, InputFacts
<1>3. pm' = [pm EXCEPT !.at = "final", !.port = q] /\ pm \in PmRec /\ makePortTable(q)
  BY <1>2 DEF ReadPort, Inv, Types
<1>4. /\ pm' \in PmRec /\ pm'.at = "final" /\ pm'.conn = pm.conn /\ pm'.share = pm.share
      /\ pm'.name = pm.name /\ pm'.port = q
  BY <1>3 DEF PmRec, Places
<1>5. pm.name \in Name
  BY <1>1 DEF Inv, DialogueInv
<1>6. ASSUME NEW p \in Proc, proc[p].conn = pm.conn, NEW a, a = conn[pm.conn].toCl \o <<Ok>>
      PROVE  Talks(p, pm.at, <<>>, a)'
  <2>1. /\ Told(p, pm.at, m, conn[pm.conn].toCl) /\ conn[pm.conn].toCl = <<>>
        /\ proc[p].op \in ServerOps => proc[p].port \in Port
    BY <1>1, <1>6, TellsInput
  <2>2. /\ proc[p].phase = "told" /\ proc[p].op \in ServerOps
        /\ m = One(PortMsg(proc[p].port)) /\ pm.share = ShareOf(p) /\ pm.name = proc[p].name
    BY <1>1, <2>1 DEF Told
  <2>3. proc[p].port = q
    BY <1>2, <2>1, <2>2, SaidSame
  <2>4. a = One(Ok)
    BY <1>6, <2>1, WrittenFacts, MessageFacts
  <2> QED BY <1>1, <1>4, <2>2, <2>3, <2>4 DEF Talks, Told, ShareOf, shares
<1>7. Unread("final", <<>>) /\ <<Ok>> \in Seq(Message)
  BY WrittenFacts, MessageFacts DEF Unread
<1>8. table' \in Seq(EntryRec) /\ mishap' \in 0..MaxMishap
  BY <1>1, <1>3, SameTypes, MadeEntry
<1> QED BY <1>1, <1>2, <1>4, <1>5, <1>6, <1>7, <1>8, ContinueStep

LEMMA ReadFinalOkStep ==
  ASSUME Inv, ReadFinalOk
  PROVE  Inv'
<1> DEFINE m == conn[pm.conn].toPm
<1>1. /\ pm.at = "final" /\ HasInput /\ InDialogue
      /\ UNCHANGED <<table, waiting, backlog, firewall, proc, mishap>>
      /\ conn' = Answering(<<>>) /\ pm' = [pm EXCEPT !.at = "tell"]
  BY DEF ReadFinalOk, InDialogue, Continue
<1>2. Tail(m) = <<>> /\ pm \in PmRec /\ pm.name \in Name /\ pm.port \in Port
  BY <1>1, InputFacts DEF Inv, Types, DialogueInv
<1>3. /\ pm' \in PmRec /\ pm'.at = "tell" /\ pm'.conn = pm.conn
      /\ pm'.name = pm.name /\ pm'.port = pm.port
  BY <1>1, <1>2 DEF PmRec, Places
<1>4. \A p \in Proc : proc[p].conn # pm.conn
  BY <1>1, TellsInput
<1>5. Unread("tell", <<>>) /\ <<>> \in Seq(Message)
  BY WrittenFacts, MessageFacts DEF Unread
<1>6. table' \in Seq(EntryRec) /\ mishap' \in 0..MaxMishap
  BY <1>1, SameTypes
<1> QED BY <1>1, <1>2, <1>3, <1>4, <1>5, <1>6, ContinueStep

LEMMA LocatedType ==
  ASSUME NEW e, e.share \in Host \cup {None}, e.port \in Port
  PROVE  Located(e) \in Message
<1>1. /\ <<"PM_OK", e.port>> \in {"port", "PM_OK"} \X Port
      /\ e.share # None => <<"PM_OKSHARE", e.share, e.port>> \in {"PM_OKSHARE"} \X Host \X Port
  OBVIOUS
<1> QED BY <1>1 DEF Located, Message

\* The first entry of those that are found (pm_client, delPortTable).
FirstOf(found) == CHOOSE i \in found : \A j \in found : i <= j

LEMMA FirstFound ==
  ASSUME Inv, NEW found, found \subseteq DOMAIN table, found # {}
  PROVE  FirstOf(found) \in found
<1>1. found \in SUBSET Nat
  <2>1. DOMAIN table = 1..Len(table) /\ Len(table) \in Nat
    BY LenProperties DEF Inv, Types
  <2> QED BY <2>1
<1>2. \E k \in found : \A j \in found : k <= j
  BY <1>1, FirstPosition
<1> QED BY <1>2 DEF FirstOf

LEMMA ClientStep ==
  ASSUME Inv, pm_client
  PROVE  Inv'
<1>1. /\ pm.at \in {"cname", "wname"} /\ HasInput /\ InDialogue /\ Busy
      /\ UNCHANGED <<table, backlog, firewall, proc, mishap>>
  BY DEF pm_client, InDialogue, Busy
<1>2. PICK n \in Name : Input[2] = n
  BY <1>1, InputFacts
<1>3. table' \in Seq(EntryRec) /\ mishap' \in 0..MaxMishap /\ firewall' \subseteq -128..255
  BY <1>1, SameTypes
<1>4. Entries(n) \subseteq DOMAIN table
  BY DEF Entries
<1>5. CASE Entries(n) = {} /\ pm.at = "wname"
  <2>1. /\ waiting' = Append(waiting, [conn |-> pm.conn, name |-> n]) /\ pm' = Accepting
        /\ conn' = Answering(<<>>)
    BY <1>2, <1>5 DEF pm_client
  <2>2. ASSUME NEW msgs \in Seq(Message), conn' = Answering(msgs), NEW k, k = pm.conn
        PROVE  OnlyOne(conn, conn', k) /\ conn'[k].cl = conn[k].cl /\ conn'[k].pm
    <3>1. PICK d : d = Answering(msgs)
      OBVIOUS
    <3>2. Busy /\ HasInput
      BY <1>1
    <3>3. /\ conn[k].pm /\ OnlyOne(conn, d, k)
          /\ d[k].cl = conn[k].cl /\ d[k].pm = conn[k].pm
      BY <2>2, <3>1, <3>2, AnsweringFacts
    <3> QED BY <2>2, <3>1, <3>3
  <2>3. <<>> \in Seq(Message)
    BY WrittenFacts, MessageFacts
  <2>4. PICK k : k = pm.conn
    OBVIOUS
  <2>5. OnlyOne(conn, conn', k) /\ conn'[k].cl = conn[k].cl /\ conn'[k].pm
    BY <2>1, <2>2, <2>3, <2>4, Zenon
  <2>6. waiting' = Append(waiting, [conn |-> k, name |-> n]) /\ pm' = Accepting
    BY <2>1, <2>4
  <2> QED BY <1>1, <1>3, <2>4, <2>5, <2>6, AcceptingRec, DialogueStep
<1>6. CASE ~(Entries(n) = {} /\ pm.at = "wname")
  <2> DEFINE answer == IF Entries(n) = {} THEN Sorry ELSE Located(table[FirstOf(Entries(n))])
  <2>1. Finish(<<answer>>) /\ UNCHANGED waiting
    BY <1>2, <1>6 DEF pm_client, FirstOf
  <2>2. answer \in Message
    <3>1. CASE Entries(n) = {}
      BY <3>1, MessageFacts
    <3>2. CASE Entries(n) # {}
      <4>1. table[FirstOf(Entries(n))] \in EntryRec
        BY <1>4, <3>2, FirstFound, TypesFields DEF Inv
      <4> QED BY <3>2, <4>1, LocatedType DEF EntryRec
    <3> QED BY <3>1, <3>2
  <2> HIDE DEF answer
  <2>3. <<answer>> \in Seq(Message)
    BY <2>2, WrittenFacts
  <2> QED BY <1>1, <1>3, <2>1, <2>3, FinishStep
<1> QED BY <1>5, <1>6

LEMMA DelTypes ==
  ASSUME Inv, NEW found, found \subseteq DOMAIN table, delPortTable(found)
  PROVE  /\ table' \in Seq(EntryRec)
         /\ Finish(<<Sorry>>) \/ Finish(<<Ok>>)
<1>1. CASE found = {}
  BY <1>1, SameTypes DEF delPortTable
<1>2. CASE found # {}
  <2>1. FirstOf(found) \in DOMAIN table
    BY <1>2, FirstFound
  <2>2. table' = RemoveAt(table, FirstOf(found)) /\ Finish(<<Ok>>) /\ table \in Seq(EntryRec)
    BY <1>2 DEF delPortTable, FirstOf, Inv, Types
  <2> QED BY <2>1, <2>2, Removed
<1> QED BY <1>1, <1>2

LEMMA CloseStep ==
  ASSUME Inv, pm_close \/ pm_rmserver
  PROVE  Inv'
<1>1. /\ HasInput /\ Busy /\ UNCHANGED <<waiting, backlog, firewall, proc>>
      /\ goesWrong \/ UNCHANGED mishap
  BY DEF pm_close, pm_rmserver, Busy
<1>2. PICK found : found \subseteq DOMAIN table /\ delPortTable(found)
  <2>1. CASE pm_close
    BY <2>1 DEF pm_close
  <2>2. CASE pm_rmserver
    <3>1. Entries(Input[2]) \subseteq DOMAIN table
      BY DEF Entries
    <3> QED BY <2>2, <3>1 DEF pm_rmserver
  <2> QED BY <2>1, <2>2
<1>3. table' \in Seq(EntryRec) /\ (Finish(<<Sorry>>) \/ Finish(<<Ok>>))
  BY <1>2, DelTypes
<1>4. firewall' \subseteq -128..255 /\ mishap' \in 0..MaxMishap
  BY <1>1, SameTypes
<1>5. <<Sorry>> \in Seq(Message) /\ <<Ok>> \in Seq(Message)
  BY MessageFacts, WrittenFacts
<1> QED BY <1>1, <1>3, <1>4, <1>5, FinishStep

LEMMA LongjmpStep ==
  ASSUME Inv, longjmp \/ EndTelling \/ CutName \/ Spins
  PROVE  Inv'
<1> DEFINE k == pm.conn
<1>1. /\ Busy /\ UNCHANGED <<table, waiting, backlog, firewall, proc>>
      /\ goesWrong \/ UNCHANGED mishap
      /\ conn' = conn \/ conn' = pmCloses(conn, k)
  BY DEF longjmp, EndTelling, CutName, Spins, HalfRead, Waits, InDialogue, Busy
<1>2. k \in Conn /\ conn[k].pm /\ conn \in Conns
  BY <1>1 DEF Inv, ListInv, Types
<1>3. OnlyOne(conn, conn', k) /\ conn'[k].cl = conn[k].cl
  BY <1>1, <1>2, PmClosesFacts DEF OnlyOne
<1>4. /\ table' \in Seq(EntryRec) /\ firewall' \subseteq -128..255
      /\ mishap' \in 0..MaxMishap
  BY <1>1, SameTypes
<1>5. k = pm.conn
  OBVIOUS
<1>6. CASE pm' = Accepting
  <2> HIDE DEF k
  <2> QED BY <1>1, <1>3, <1>4, <1>5, <1>6, AcceptingRec, DialogueStep
<1>7. CASE pm' # Accepting
  <2>1. pm' = [pm EXCEPT !.at = "spin"] /\ conn' = conn /\ pm \in PmRec
    BY <1>7 DEF longjmp, EndTelling, CutName, Spins, Inv, Types
  <2>2. pm' \in PmRec /\ pm'.at = "spin" /\ pm'.conn = pm.conn
    BY <2>1 DEF PmRec, Places
  <2>3. DialogueInv'
    BY <2>2 DEF DialogueInv, InDialogue
  <2>4. conn'[k].pm
    BY <1>2, <2>1
  <2> HIDE DEF k
  <2> QED BY <1>1, <1>3, <1>4, <1>5, <2>2, <2>3, <2>4, DialogueStep
<1> QED BY <1>6, <1>7

LEMMA EndsStep ==
  ASSUME Inv, pmEnds
  PROVE  Inv'
<1>1. /\ pm' = [Accepting EXCEPT !.at = "dead"] /\ UNCHANGED proc /\ goesWrong
      /\ table' = <<>> /\ waiting' = <<>> /\ backlog' = <<>> /\ firewall' = {}
  BY DEF pmEnds
<1>2. pm' \in PmRec /\ pm'.at = "dead"
  BY <1>1, AcceptingRec DEF PmRec, Places
<1>3. ASSUME NEW k \in Conn
      PROVE  /\ conn'[k] \in ConnRec /\ conn'[k].cl = conn[k].cl
             /\ conn'[k].pm => conn[k].pm
  <2>1. conn'[k] = IF conn[k].pm THEN pmCloses(conn, k)[k] ELSE conn[k]
    BY DEF pmEnds
  <2>2. conn \in Conns /\ conn[k] \in ConnRec
    BY TypesFields DEF Inv, Types
  <2>3. PICK d : d = pmCloses(conn, k)
    OBVIOUS
  <2>4. d \in Conns /\ d[k].cl = conn[k].cl /\ ~d[k].pm
    BY <2>2, <2>3, PmClosesFacts DEF OnlyOne
  <2>5. d[k] \in ConnRec
    BY <2>4 DEF Conns
  <2> QED BY <2>1, <2>2, <2>3, <2>4, <2>5
<1>4. conn' \in Conns
  BY <1>3 DEF pmEnds, Conns
<1>5. mishap' \in 0..MaxMishap
  BY <1>1, SameTypes
<1>6. Types'
  BY <1>1, <1>2, <1>4, <1>5 DEF Inv, Types
<1>7. (\A p \in Proc : ProcOK(p))' /\ ProcsApart'
  BY <1>1, <1>3, ProcsKept DEF Inv
<1>8. DOMAIN backlog' = {} /\ DOMAIN waiting' = {}
  BY <1>1
<1>9. ListInv' /\ BacklogInv'
  BY <1>2, <1>8 DEF ListInv, BacklogInv, Busy
<1>10. DialogueInv'
  BY <1>2 DEF DialogueInv, InDialogue
<1> QED BY <1>6, <1>7, <1>9, <1>10 DEF Inv

LEMMA QuitStep ==
  ASSUME Inv, pm_quit
  PROVE  Inv'
<1>1. CASE Input[2] = "PortMaster"
  BY <1>1, EndsStep DEF pm_quit
<1>2. CASE Input[2] # "PortMaster"
  <2>1. /\ Busy /\ HasInput /\ Finish(<<Sorry>>)
        /\ UNCHANGED <<table, waiting, backlog, firewall, proc, mishap>>
    BY <1>2 DEF pm_quit, Busy
  <2>2. table' \in Seq(EntryRec) /\ firewall' \subseteq -128..255 /\ mishap' \in 0..MaxMishap
    BY <2>1, SameTypes
  <2>3. <<Sorry>> \in Seq(Message)
    BY MessageFacts, WrittenFacts
  <2> QED BY <2>1, <2>2, <2>3, FinishStep
<1> QED BY <1>1, <1>2

\* The first of the clients that wait, and the others.
LEMMA HeadWaiting ==
  ASSUME Inv, waiting # <<>>
  PROVE  /\ Head(waiting) = waiting[1] /\ Head(waiting) \in WaitRec
         /\ 1 \in DOMAIN waiting /\ Tail(waiting) \in Seq(WaitRec)
         /\ \A i \in DOMAIN Tail(waiting) :
              i + 1 \in DOMAIN waiting /\ Tail(waiting)[i] = waiting[i + 1]
         /\ DOMAIN waiting \subseteq Nat /\ DOMAIN Tail(waiting) \subseteq Nat
<1>1. waiting \in Seq(WaitRec)
  BY DEF Inv, Types
<1>2. Len(waiting) \in Nat \ {0} /\ DOMAIN waiting = 1..Len(waiting)
  BY <1>1, EmptySeq, LenProperties
<1>3. /\ Tail(waiting) \in Seq(WaitRec) /\ Len(Tail(waiting)) = Len(waiting) - 1
      /\ \A i \in 1..Len(Tail(waiting)) : Tail(waiting)[i] = waiting[i + 1]
      /\ Head(waiting) \in WaitRec
  BY <1>1, HeadTailProperties
<1>4. DOMAIN Tail(waiting) = 1..Len(Tail(waiting))
  BY <1>3, LenProperties
<1>5. Head(waiting) = waiting[1]
  BY <1>1
<1> QED BY <1>2, <1>3, <1>4, <1>5

LEMMA TellStep ==
  ASSUME Inv, TellWaiting
  PROVE  Inv'
<1>0. PICK k, told : k = Head(waiting).conn /\ told = <<Located(pm)>>
  OBVIOUS
<1>1. /\ pm.at \in {"tell", "tellMore"} /\ Busy /\ waiting # <<>>
      /\ waiting' = Tail(waiting) /\ pm' = [pm EXCEPT !.at = "tellMore"]
      /\ UNCHANGED <<table, backlog, firewall, proc, mishap>>
  BY DEF TellWaiting, Busy
<1>2. /\ k = waiting[1].conn /\ k \in Conn /\ conn[k].pm
  BY <1>0, <1>1, HeadWaiting DEF Inv, ListInv, WaitRec
<1>3. /\ k # pm.conn /\ (\A i \in DOMAIN backlog : backlog[i] # k)
      /\ \A i \in DOMAIN Tail(waiting) : Tail(waiting)[i].conn # k
  BY <1>1, <1>2, HeadWaiting DEF Inv, ListInv
<1>4. pm \in PmRec /\ pm.name \in Name /\ pm.port \in Port /\ pm.share \in Host \cup {None}
  BY <1>1 DEF Inv, Types, DialogueInv, PmRec
<1>5. told \in Seq(Message)
  <2>1. Located(pm) \in Message
    BY <1>4, LocatedType
  <2> QED BY <1>0, <2>1, WrittenFacts
<1>6. OnlyOne(conn, conn', k) /\ conn'[k].cl = conn[k].cl
  <2>1. conn \in Conns
    BY DEF Inv, Types
  <2>2. conn' = pmCloses(pmSends(conn, k, told), k)
    BY <1>0 DEF TellWaiting
  <2> QED BY <1>2, <1>5, <2>1, <2>2, LastWordFacts
<1>7. conn' \in Conns /\ \A j \in Conn \ {k} : conn'[j] = conn[j]
  BY <1>6 DEF OnlyOne
<1>8. /\ pm' \in PmRec /\ pm'.at = "tellMore" /\ pm'.conn = pm.conn /\ pm'.name = pm.name
      /\ pm'.port = pm.port
  BY <1>1, <1>4 DEF PmRec, Places
<1>9. Types'
  BY <1>1, <1>7, <1>8, HeadWaiting DEF Inv, Types
<1>10. (\A p \in Proc : ProcOK(p))' /\ ProcsApart'
  <2>1. \A j \in Conn : conn'[j].cl = conn[j].cl /\ (conn'[j].pm => conn[j].pm)
    BY <1>2, <1>6, <1>7
  <2> QED BY <1>1, <2>1, ProcsKept DEF Inv
<1>11. /\ \A i \in DOMAIN backlog : backlog[i] \in Conn
       /\ \A i \in DOMAIN backlog : conn'[backlog[i]] = conn[backlog[i]]
       /\ pm.conn \in Conn /\ conn'[pm.conn] = conn[pm.conn]
  BY <1>1, <1>3, <1>7, TypesFields DEF Inv, ListInv
<1>12. BacklogInv'
  BY <1>1, <1>11 DEF Inv, BacklogInv, MyEvent
<1>13. ListInv'
  <2>1. \A i \in DOMAIN waiting' : /\ i + 1 \in DOMAIN waiting /\ i \in Nat
                                   /\ waiting'[i] = waiting[i + 1]
                                   /\ waiting'[i].conn \in Conn /\ waiting'[i].conn # k
    BY <1>1, <1>3, HeadWaiting, TypesFields DEF Inv, WaitRec
  <2>2. \A i \in DOMAIN waiting' : conn'[waiting'[i].conn].pm /\ waiting'[i].conn # pm.conn
    BY <1>1, <1>7, <2>1 DEF Inv, ListInv
  <2>3. \A i, j \in DOMAIN waiting' : waiting'[i].conn = waiting'[j].conn => i = j
    <3> SUFFICES ASSUME NEW i \in DOMAIN waiting', NEW j \in DOMAIN waiting',
                        waiting'[i].conn = waiting'[j].conn
                 PROVE  i = j
      OBVIOUS
    <3>1. /\ i + 1 \in DOMAIN waiting /\ j + 1 \in DOMAIN waiting /\ i \in Nat /\ j \in Nat
          /\ waiting[i + 1].conn = waiting[j + 1].conn
      BY <2>1
    <3>2. i + 1 = j + 1
      BY <3>1 DEF Inv, ListInv
    <3> QED BY <3>1, <3>2
  <2>4. \A i \in DOMAIN backlog, j \in DOMAIN waiting' : backlog[i] # waiting'[j].conn
    BY <2>1 DEF Inv, ListInv
  <2>5. \A i \in DOMAIN backlog : conn'[backlog[i]].pm
    BY <1>11 DEF Inv, ListInv
  <2>6. UNCHANGED backlog /\ Busy
    BY <1>1
  <2> QED BY <1>8, <1>11, <2>2, <2>3, <2>4, <2>5, <2>6 DEF Inv, ListInv, Busy
<1>14. \A p \in Proc : proc[p].conn # pm.conn
  BY <1>1 DEF Inv, DialogueInv, InDialogue, Talks, Asked, Told, Opening
<1>15. DialogueInv'
  BY <1>1, <1>4, <1>8, <1>11, <1>14 DEF Inv, DialogueInv, InDialogue, Unread
<1> QED BY <1>9, <1>10, <1>12, <1>13, <1>15 DEF Inv

\* The first of the connections to accept, and the others.
LEMMA HeadBacklog ==
  ASSUME Inv, backlog # <<>>
  PROVE  /\ Head(backlog) = backlog[1] /\ Head(backlog) \in Conn
         /\ 1 \in DOMAIN backlog /\ Tail(backlog) \in Seq(Conn)
         /\ \A i \in DOMAIN Tail(backlog) :
              i \in Nat /\ i + 1 \in DOMAIN backlog /\ Tail(backlog)[i] = backlog[i + 1]
              /\ backlog[i + 1] # backlog[1]
<1>1. backlog \in Seq(Conn)
  BY DEF Inv, Types
<1>2. Len(backlog) \in Nat \ {0} /\ DOMAIN backlog = 1..Len(backlog)
  BY <1>1, EmptySeq, LenProperties
<1>3. /\ Tail(backlog) \in Seq(Conn) /\ Len(Tail(backlog)) = Len(backlog) - 1
      /\ \A i \in 1..Len(Tail(backlog)) : Tail(backlog)[i] = backlog[i + 1]
      /\ Head(backlog) \in Conn
  BY <1>1, HeadTailProperties
<1>4. DOMAIN Tail(backlog) = 1..Len(Tail(backlog))
  BY <1>3, LenProperties
<1>5. Head(backlog) = backlog[1]
  BY <1>1
<1>6. \A i \in DOMAIN Tail(backlog) : i \in Nat /\ i + 1 \in DOMAIN backlog
  BY <1>2, <1>3, <1>4
<1>7. \A i \in DOMAIN Tail(backlog) : backlog[i + 1] # backlog[1]
  <2> SUFFICES ASSUME NEW i \in DOMAIN Tail(backlog)
               PROVE  backlog[i + 1] # backlog[1]
    OBVIOUS
  <2>1. i + 1 # 1 /\ i + 1 \in DOMAIN backlog /\ 1 \in DOMAIN backlog
    BY <1>2, <1>3, <1>4
  <2>2. \A a, b \in DOMAIN backlog : backlog[a] = backlog[b] => a = b
    BY DEF Inv, ListInv
  <2> QED BY <2>1, <2>2
<1> QED BY <1>2, <1>3, <1>4, <1>5, <1>6, <1>7

\* A connection is taken from the backlog: it is closed at once or its dialogue begins.
LEMMA AcceptStep ==
  ASSUME Inv, Accept
  PROVE  Inv'
<1>0. PICK k : k = Head(backlog)
  OBVIOUS
<1>1. /\ pm.at = "accept" /\ backlog # <<>> /\ pm = Accepting
      /\ backlog' = Tail(backlog)
      /\ UNCHANGED <<table, waiting, firewall, proc>>
  BY DEF Accept, Inv, ListInv
<1>2. /\ k \in Conn /\ k = backlog[1] /\ conn[k].pm /\ 1 \in DOMAIN backlog
      /\ \A i \in DOMAIN waiting : waiting[i].conn # k
  BY <1>0, <1>1, HeadBacklog DEF Inv, ListInv
<1>3. \A i \in DOMAIN backlog' : /\ i \in Nat /\ i + 1 \in DOMAIN backlog
                                 /\ backlog'[i] = backlog[i + 1]
                                 /\ backlog'[i] \in Conn /\ backlog'[i] # k
  <2> SUFFICES ASSUME NEW i \in DOMAIN backlog'
               PROVE  /\ i \in Nat /\ i + 1 \in DOMAIN backlog
                      /\ backlog'[i] = backlog[i + 1]
                      /\ backlog'[i] \in Conn /\ backlog'[i] # k
    OBVIOUS
  <2>1. /\ i \in Nat /\ i + 1 \in DOMAIN backlog /\ backlog'[i] = backlog[i + 1]
        /\ backlog[i + 1] # backlog[1]
    BY <1>1, HeadBacklog
  <2>2. backlog[i + 1] \in Conn
    BY <2>1, TypesFields DEF Inv
  <2> QED BY <1>2, <2>1, <2>2
<1>4. backlog' \in Seq(Conn)
  BY <1>1, HeadBacklog
<1>5. /\ OnlyOne(conn, conn', k) /\ conn'[k].cl = conn[k].cl /\ mishap' \in 0..MaxMishap
      /\ \/ pm' = Accepting
         \/ pm' = [pm EXCEPT !.at = "event", !.conn = k] /\ conn' = conn
  <2>1. CASE Rejected(conn[k].from)
    <3>1. conn \in Conns /\ Sorry \in Message /\ <<Sorry>> \in Seq(Message)
      BY MessageFacts, WrittenFacts DEF Inv, Types
    <3>2. Rejected(conn[Head(backlog)].from)
      BY <1>0, <2>1
    <3>3. conn' = pmCloses(pmSends(conn, Head(backlog), <<Sorry>>), Head(backlog))
          /\ goesWrong /\ pm' = pm
      BY <3>2, Zenon DEF Accept
    <3>4. conn' = pmCloses(pmSends(conn, k, <<Sorry>>), k) /\ k \in Conn
      BY <1>0, <1>2, <3>3
    <3>5. OnlyOne(conn, conn', k) /\ conn'[k].cl = conn[k].cl
      BY <3>1, <3>4, LastWordFacts, Zenon
    <3>6. pm = Accepting
      BY <1>1
    <3> QED BY <3>3, <3>5, <3>6, SameTypes
  <2>2. CASE ~Rejected(conn[k].from)
    <3>1. pm' = [pm EXCEPT !.at = "event", !.conn = k] /\ conn' = conn /\ mishap' = mishap
      BY <1>0, <2>2 DEF Accept
    <3> QED BY <3>1, SameTypes DEF OnlyOne, Inv, Types
  <2> QED BY <2>1, <2>2
<1>6. conn' \in Conns /\ \A j \in Conn \ {k} : conn'[j] = conn[j]
  BY <1>5 DEF OnlyOne
<1>7. /\ pm' \in PmRec
      /\ \/ pm' = Accepting
         \/ pm'.at = "event" /\ pm'.conn = k /\ pm'.share = None /\ conn' = conn
  <2>1. CASE pm' = Accepting
    BY <2>1, AcceptingRec
  <2>2. CASE pm' # Accepting
    <3>1. pm' = [pm EXCEPT !.at = "event", !.conn = k] /\ conn' = conn /\ k \in Conn
      BY <1>2, <1>5, <2>2
    <3>2. pm \in PmRec /\ pm.share = None
      BY <1>1, AcceptingRec
    <3> QED BY <3>1, <3>2 DEF PmRec, Places
  <2> QED BY <2>1, <2>2
<1>8. Types'
  BY <1>1, <1>4, <1>5, <1>6, <1>7 DEF Inv, Types
<1>9. (\A p \in Proc : ProcOK(p))' /\ ProcsApart'
  <2>1. \A j \in Conn : conn'[j].cl = conn[j].cl /\ (conn'[j].pm => conn[j].pm)
    BY <1>2, <1>5, <1>6
  <2> QED BY <1>1, <2>1, ProcsKept DEF Inv
<1>10. BacklogInv'
  <2>1. \A i \in DOMAIN backlog' : conn'[backlog'[i]] = conn[backlog[i + 1]]
    BY <1>3, <1>6
  <2>2. ASSUME NEW i \in DOMAIN backlog'
        PROVE  /\ Unread("event", conn'[backlog'[i]].toPm)
               /\ \A p \in Proc : proc'[p].conn = backlog'[i] =>
                    /\ proc'[p].phase = "asked" /\ conn'[backlog'[i]].toCl = <<>>
                    /\ conn'[backlog'[i]].toPm = One(EventMsg(MyEvent(p)'))
    BY <1>1, <1>3, <2>1, <2>2 DEF Inv, BacklogInv, MyEvent
  <2> QED BY <2>2 DEF BacklogInv, MyEvent
<1>11. ListInv'
  <2>1. \A i \in DOMAIN backlog' : conn'[backlog'[i]].pm
    BY <1>3, <1>6 DEF Inv, ListInv
  <2>2. \A i \in DOMAIN waiting' : conn'[waiting'[i].conn].pm
    <3>1. \A i \in DOMAIN waiting : waiting[i].conn \in Conn
      BY TypesFields DEF Inv, WaitRec
    <3> QED BY <1>1, <1>2, <1>6, <3>1 DEF Inv, ListInv
  <2>3. \A i, j \in DOMAIN backlog' : backlog'[i] = backlog'[j] => i = j
    <3> SUFFICES ASSUME NEW i \in DOMAIN backlog', NEW j \in DOMAIN backlog',
                        backlog'[i] = backlog'[j]
                 PROVE  i = j
      OBVIOUS
    <3>1. /\ i + 1 \in DOMAIN backlog /\ j + 1 \in DOMAIN backlog /\ i \in Nat /\ j \in Nat
          /\ backlog[i + 1] = backlog[j + 1]
      BY <1>3
    <3>2. i + 1 = j + 1
      BY <3>1 DEF Inv, ListInv
    <3> QED BY <3>1, <3>2
  <2>4. \A i \in DOMAIN backlog', j \in DOMAIN waiting' : backlog'[i] # waiting'[j].conn
    BY <1>1, <1>3 DEF Inv, ListInv
  <2>5. Busy' => /\ pm'.conn \in Conn /\ conn'[pm'.conn].pm
                 /\ \A i \in DOMAIN backlog' : backlog'[i] # pm'.conn
                 /\ \A i \in DOMAIN waiting' : waiting'[i].conn # pm'.conn
    BY <1>1, <1>2, <1>3, <1>7, AcceptingRec DEF Busy
  <2>6. pm'.at = "accept" => pm' = Accepting
    BY <1>7
  <2>7. \A i, j \in DOMAIN waiting' : waiting'[i].conn = waiting'[j].conn => i = j
    BY <1>1 DEF Inv, ListInv
  <2> QED BY <2>1, <2>2, <2>3, <2>4, <2>5, <2>6, <2>7 DEF ListInv, Busy
<1>12. DialogueInv'
  <2>1. CASE pm' = Accepting
    BY <2>1, AcceptingRec DEF DialogueInv, InDialogue
  <2>2. CASE pm' # Accepting
    <3>1. pm'.at = "event" /\ pm'.conn = k /\ pm'.share = None /\ conn' = conn
      BY <1>7, <2>2
    <3>2. /\ Unread("event", conn[k].toPm)
          /\ \A p \in Proc : proc[p].conn = k =>
               /\ proc[p].phase = "asked" /\ conn[k].toCl = <<>>
               /\ conn[k].toPm = One(EventMsg(MyEvent(p)))
      BY <1>2 DEF Inv, BacklogInv
    <3>3. ASSUME NEW p \in Proc, proc[p].conn = k
          PROVE  Talks(p, pm.at, conn[pm.conn].toPm, conn[pm.conn].toCl)'
      BY <1>1, <3>1, <3>2, <3>3 DEF Talks, Asked, MyEvent
    <3> QED BY <1>1, <3>1, <3>2, <3>3 DEF DialogueInv, InDialogue
  <2> QED BY <2>1, <2>2
<1> QED BY <1>8, <1>9, <1>10, <1>11, <1>12 DEF Inv

LEMMA StartStep ==
  ASSUME Inv, Sopen_prtmstr
  PROVE  Inv'
<1>1. /\ pm.at = "dead" /\ pm' = Accepting
      /\ UNCHANGED <<table, waiting, backlog, conn, proc, mishap>>
  BY DEF Sopen_prtmstr
<1>2. firewall' \subseteq -128..255
  BY FirewallType DEF Sopen_prtmstr
<1>3. Types'
  BY <1>1, <1>2, AcceptingRec DEF Inv, Types
<1>4. (\A p \in Proc : ProcOK(p))' /\ ProcsApart'
  BY <1>1, ProcsKept DEF Inv
<1>5. ListInv' /\ DialogueInv'
  BY <1>1, AcceptingRec DEF Inv, ListInv, Busy, DialogueInv, InDialogue
<1>6. BacklogInv'
  BY <1>1 DEF Inv, BacklogInv, MyEvent
<1> QED BY <1>3, <1>4, <1>5, <1>6 DEF Inv

\* Each step of the PortMaster keeps the invariant.
LEMMA PmStepInv ==
  ASSUME Inv, PmStep \/ PmKilled \/ Sopen_prtmstr
  PROVE  Inv'
BY AcceptStep, BeginStep, TableStep, UnknownStep, ReadHostStep, ReadNameStep, ReadPortStep,
   ReadFinalOkStep, TellStep, LongjmpStep, ClientStep, CloseStep, QuitStep, EndsStep, StartStep
   DEF PmStep, PmKilled

-----------------------------------------------------------------------------
(* The steps of the processes *)

\* A process in a call has a connection, and nobody else has it.
LEMMA CallerFacts ==
  ASSUME Inv, NEW p \in Proc, proc[p].phase \in {"asked", "told", "spin"}, NEW k, k = proc[p].conn
  PROVE  /\ k \in Conn /\ k # None /\ conn[k].cl /\ conn[k] \in ConnRec
         /\ \A q \in Proc \ {p} : proc[q].conn # k
<1>1. ProcOK(p)
  BY DEF Inv
<1>2. k \in Conn /\ k # None /\ conn[k].cl
  BY <1>1 DEF ProcOK
<1>3. \A q \in Proc \ {p} : proc[q].conn # k
  BY <1>2 DEF Inv, ProcsApart
<1> QED BY <1>2, <1>3, TypesFields DEF Inv

\* A process has no connection that is free.
LEMMA FreeUnused ==
  ASSUME Inv, NEW k \in Conn, conn[k] = Free
  PROVE  /\ \A i \in DOMAIN backlog : backlog[i] # k
         /\ \A i \in DOMAIN waiting : waiting[i].conn # k
         /\ Busy => pm.conn # k
         /\ \A q \in Proc : proc[q].conn # k
<1>1. ~conn[k].pm /\ ~conn[k].cl
  BY FreeRec
<1>2. ASSUME NEW q \in Proc
      PROVE  proc[q].conn # k
  <2>1. ProcOK(q) /\ proc[q].phase \in {"idle", "next", "asked", "told", "spin"}
    BY TypesFields DEF Inv, ProcRec
  <2>2. k # None
    BY PortMasterAssumption
  <2> QED BY <1>1, <2>1, <2>2 DEF ProcOK
<1>3. /\ \A i \in DOMAIN backlog : conn[backlog[i]].pm
      /\ \A i \in DOMAIN waiting : conn[waiting[i].conn].pm
      /\ Busy => conn[pm.conn].pm
  BY DEF Inv, ListInv
<1> QED BY <1>1, <1>2, <1>3

\* A process goes on with its own connection, or is done with it.
LEMMA OwnStep ==
  ASSUME Inv, NEW p \in Proc, NEW k, k = proc[p].conn, NEW r \in ProcRec,
         proc' = [proc EXCEPT ![p] = r],
         UNCHANGED <<pm, table, waiting, backlog, firewall>>, mishap' \in 0..MaxMishap,
         OnlyOne(conn, conn', k), k \in Conn => conn'[k].pm = conn[k].pm,
         ProcOK(p)', r.conn \in {None, k}, r.port \in {0, proc[p].port},
         (\E i \in DOMAIN backlog : backlog[i] = k) =>
            r.conn = None /\ conn'[k].toPm = conn[k].toPm,
         InDialogue /\ pm.conn = k =>
            /\ Unread(pm.at, conn'[k].toPm)
            /\ r.conn = k => Talks(p, pm.at, conn[pm.conn].toPm, conn[pm.conn].toCl)'
  PROVE  Inv'
<1>1. conn' \in Conns /\ \A j \in Conn \ {k} : conn'[j] = conn[j]
  BY DEF OnlyOne
<1>2. proc'[p] = r /\ \A q \in Proc \ {p} : proc'[q] = proc[q]
  BY DEF Inv, Types
<1>3. k # None => \A q \in Proc \ {p} : proc[q].conn # k
  BY DEF Inv, ProcsApart
<1>4. \A j \in Conn : conn'[j].pm = conn[j].pm
  BY <1>1
<1>5. Types'
  BY <1>1 DEF Inv, Types
<1>6. ASSUME NEW q \in Proc
      PROVE  ProcOK(q)'
  <2>1. CASE q = p
    BY <2>1
  <2>2. CASE q # p
    <3>1. ProcOK(q) /\ proc'[q] = proc[q]
      BY <1>2, <2>2 DEF Inv
    <3>2. None \notin Conn
      BY PortMasterAssumption
    <3>3. CASE proc[q].phase \in {"asked", "told", "spin"}
      <4>0. proc[q].conn \in Conn
        BY <3>1, <3>3 DEF ProcOK
      <4>1. conn'[proc[q].conn] = conn[proc[q].conn]
        <5>1. CASE k = None
          BY <1>1, <3>2, <4>0, <5>1
        <5>2. CASE k # None
          BY <1>1, <1>3, <2>2, <4>0, <5>2
        <5> QED BY <5>1, <5>2
      <4> QED BY <3>1, <4>1 DEF ProcOK
    <3>4. CASE proc[q].phase \notin {"asked", "told", "spin"}
      BY <3>1, <3>4 DEF ProcOK
    <3> QED BY <3>3, <3>4
  <2> QED BY <2>1, <2>2
<1>7. ProcsApart'
  <2> SUFFICES ASSUME NEW q \in Proc, NEW s \in Proc, q # s
               PROVE  /\ proc'[q].conn # None => proc'[q].conn # proc'[s].conn
                      /\ HostOf[q] = HostOf[s] /\ proc'[q].port # 0
                           => proc'[q].port # proc'[s].port
    BY DEF ProcsApart
  <2>1. /\ \A a, b \in Proc : a # b /\ proc[a].conn # None => proc[a].conn # proc[b].conn
        /\ \A a, b \in Proc : a # b /\ HostOf[a] = HostOf[b] /\ proc[a].port # 0
                                => proc[a].port # proc[b].port
    BY DEF Inv, ProcsApart
  <2>2. CASE q = p
    BY <1>2, <2>1, <2>2
  <2>3. CASE s = p
    BY <1>2, <2>1, <2>3
  <2>4. CASE q # p /\ s # p
    BY <1>2, <2>1, <2>4
  <2> QED BY <2>2, <2>3, <2>4
<1>8. ListInv'
  <2>1. /\ \A i \in DOMAIN backlog : backlog[i] \in Conn
        /\ \A i \in DOMAIN waiting : waiting[i].conn \in Conn
    BY TypesFields DEF Inv, WaitRec
  <2> QED BY <1>4, <2>1 DEF Inv, ListInv, Busy
<1>9. BacklogInv'
  <2> SUFFICES ASSUME NEW i \in DOMAIN backlog
               PROVE  /\ Unread("event", conn'[backlog[i]].toPm)
                      /\ \A q \in Proc : proc'[q].conn = backlog[i] =>
                           /\ proc'[q].phase = "asked" /\ conn'[backlog[i]].toCl = <<>>
                           /\ conn'[backlog[i]].toPm = One(EventMsg(MyEvent(q)'))
    BY DEF BacklogInv, MyEvent
  <2>1. /\ backlog[i] \in Conn
        /\ Unread("event", conn[backlog[i]].toPm)
        /\ \A q \in Proc : proc[q].conn = backlog[i] =>
             /\ proc[q].phase = "asked" /\ conn[backlog[i]].toCl = <<>>
             /\ conn[backlog[i]].toPm = One(EventMsg(MyEvent(q)))
    BY TypesFields DEF Inv, BacklogInv
  <2>2. CASE backlog[i] = k
    <3>1. r.conn = None /\ conn'[k].toPm = conn[k].toPm /\ k # None
      BY <2>1, <2>2, PortMasterAssumption
    <3>2. \A q \in Proc : proc'[q].conn # k
      BY <1>2, <1>3, <3>1
    <3> QED BY <2>1, <2>2, <3>1, <3>2
  <2>3. CASE backlog[i] # k
    <3>1. conn'[backlog[i]] = conn[backlog[i]]
      BY <1>1, <2>1, <2>3
    <3>2. \A q \in Proc : proc'[q].conn = backlog[i] => proc'[q] = proc[q]
      BY <1>2, <2>1, <2>3, PortMasterAssumption
    <3> QED BY <2>1, <3>1, <3>2 DEF MyEvent
  <2> QED BY <2>2, <2>3
<1>10. DialogueInv'
  <2> SUFFICES ASSUME InDialogue
               PROVE  /\ Unread(pm.at, conn'[pm.conn].toPm)
                      /\ \A q \in Proc : proc'[q].conn = pm.conn =>
                           Talks(q, pm.at, conn[pm.conn].toPm, conn[pm.conn].toCl)'
    BY DEF Inv, DialogueInv, InDialogue
  <2>1. /\ pm.conn \in Conn /\ pm.conn # None
        /\ Unread(pm.at, conn[pm.conn].toPm)
        /\ \A q \in Proc : proc[q].conn = pm.conn =>
             Talks(q, pm.at, conn[pm.conn].toPm, conn[pm.conn].toCl)
    BY PortMasterAssumption DEF Inv, DialogueInv, ListInv, InDialogue, Busy
  <2>2. CASE pm.conn = k
    BY <1>2, <1>3, <2>1, <2>2
  <2>3. CASE pm.conn # k
    <3>1. conn'[pm.conn] = conn[pm.conn]
      BY <1>1, <2>1, <2>3
    <3>2. ASSUME NEW q \in Proc, proc'[q].conn = pm.conn
          PROVE  Talks(q, pm.at, conn[pm.conn].toPm, conn[pm.conn].toCl)'
      <4>1. proc'[q] = proc[q]
        BY <1>2, <2>1, <2>3, <3>2
      <4>2. Talks(q, pm.at, conn[pm.conn].toPm, conn[pm.conn].toCl)
        BY <2>1, <3>2, <4>1
      <4> QED BY <3>1, <4>1, <4>2 DEF Talks, Asked, Told, MyEvent, ShareOf, shares
    <3> QED BY <2>1, <3>1, <3>2
  <2> QED BY <2>2, <2>3
<1> QED BY <1>5, <1>6, <1>7, <1>8, <1>9, <1>10 DEF Inv

\* A process connects: it has what only the backlog has besides.
LEMMA ConnectStep ==
  ASSUME Inv, NEW p \in Proc, NEW k \in Conn, conn[k] = Free, backlog' = Append(backlog, k),
         NEW new \in ConnRec, conn' = [conn EXCEPT ![k] = new],
         new.pm, new.toCl = <<>>, Unread("event", new.toPm),
         UNCHANGED <<pm, table, waiting, firewall>>, mishap' \in 0..MaxMishap,
         \/ UNCHANGED proc
         \/ \E r \in ProcRec :
              /\ proc' = [proc EXCEPT ![p] = r]
              /\ proc[p].conn = None /\ r.conn = k /\ r.phase = "asked" /\ ProcOK(p)'
              /\ new.toPm = One(EventMsg(EventOf(p, r.op)))
              /\ \A q \in Proc \ {p} : HostOf[q] = HostOf[p] /\ r.port # 0
                                         => proc[q].port # r.port
  PROVE  Inv'
<1>1. conn \in Conns /\ proc \in [Proc -> ProcRec] /\ backlog \in Seq(Conn)
  BY DEF Inv, Types
<1>2. /\ conn' \in Conns /\ conn'[k] = new /\ \A j \in Conn \ {k} : conn'[j] = conn[j]
  BY <1>1 DEF Conns
<1>3. /\ \A i \in DOMAIN backlog : backlog[i] # k /\ backlog[i] \in Conn
      /\ \A i \in DOMAIN waiting : waiting[i].conn # k /\ waiting[i].conn \in Conn
      /\ Busy => pm.conn # k
      /\ \A q \in Proc : proc[q].conn # k
      /\ k # None
  BY FreeUnused, TypesFields, PortMasterAssumption DEF Inv, WaitRec
<1>4. /\ \A q \in Proc \ {p} : proc'[q] = proc[q]
      /\ \A q \in Proc : proc'[q] = proc[q] \/ (q = p /\ proc'[q].conn = k)
      /\ proc' \in [Proc -> ProcRec]
  BY <1>1
<1>5. /\ backlog' \in Seq(Conn)
      /\ DOMAIN backlog = 1..Len(backlog) /\ Len(backlog) \in Nat
      /\ DOMAIN backlog' = 1..(Len(backlog) + 1)
      /\ \A i \in 1..Len(backlog) : backlog'[i] = backlog[i]
      /\ backlog'[Len(backlog) + 1] = k
  <2>1. /\ Append(backlog, k) \in Seq(Conn) /\ Len(Append(backlog, k)) = Len(backlog) + 1
        /\ \A i \in 1..Len(backlog) : Append(backlog, k)[i] = backlog[i]
        /\ Append(backlog, k)[Len(backlog) + 1] = k
    BY <1>1, AppendProperties
  <2>2. /\ backlog' \in Seq(Conn) /\ Len(backlog') = Len(backlog) + 1
        /\ \A i \in 1..Len(backlog) : backlog'[i] = backlog[i]
        /\ backlog'[Len(backlog) + 1] = k
    BY <2>1, Zenon
  <2>3. /\ DOMAIN backlog = 1..Len(backlog) /\ Len(backlog) \in Nat
        /\ DOMAIN backlog' = 1..Len(backlog')
    BY <1>1, <2>2, LenProperties
  <2> QED BY <2>2, <2>3
<1>6. Types'
  BY <1>2, <1>4, <1>5 DEF Inv, Types
<1>7. ASSUME NEW q \in Proc
      PROVE  ProcOK(q)'
  <2>1. CASE proc'[q] = proc[q]
    <3>1. ProcOK(q) /\ proc[q].conn # k
      BY <1>3 DEF Inv
    <3>2. CASE proc[q].phase \in {"asked", "told", "spin"}
      <4>1. conn'[proc[q].conn] = conn[proc[q].conn]
        BY <1>2, <3>1, <3>2 DEF ProcOK
      <4> QED BY <2>1, <3>1, <4>1 DEF ProcOK
    <3>3. CASE proc[q].phase \notin {"asked", "told", "spin"}
      BY <2>1, <3>1, <3>3 DEF ProcOK
    <3> QED BY <3>2, <3>3
  <2>2. CASE proc'[q] # proc[q]
    BY <1>4, <2>2
  <2> QED BY <2>1, <2>2
<1>8. ProcsApart'
  <2>0. ProcsApart
    BY DEF Inv
  <2>1. CASE UNCHANGED proc
    BY <2>0, <2>1 DEF ProcsApart
  <2>2. ASSUME NEW r \in ProcRec, proc' = [proc EXCEPT ![p] = r], r.conn = k,
               \A q \in Proc \ {p} : HostOf[q] = HostOf[p] /\ r.port # 0
                                       => proc[q].port # r.port
        PROVE  ProcsApart'
    <3>1. proc'[p] = r
      BY <1>1, <2>2
    <3> SUFFICES ASSUME NEW q \in Proc, NEW s \in Proc, q # s
                 PROVE  /\ proc'[q].conn # None => proc'[q].conn # proc'[s].conn
                        /\ HostOf[q] = HostOf[s] /\ proc'[q].port # 0
                             => proc'[q].port # proc'[s].port
      BY DEF ProcsApart
    <3>2. CASE q = p
      BY <1>3, <1>4, <2>2, <3>1, <3>2
    <3>3. CASE s = p
      BY <1>3, <1>4, <2>2, <3>1, <3>3
    <3>4. CASE q # p /\ s # p
      BY <1>4, <2>0, <3>4 DEF ProcsApart
    <3> QED BY <3>2, <3>3, <3>4
  <2> QED BY <2>1, <2>2
<1>9. ListInv'
  <2>1. \A i \in DOMAIN backlog' : conn'[backlog'[i]].pm
    BY <1>2, <1>3, <1>5 DEF Inv, ListInv
  <2>2. \A i \in DOMAIN waiting : conn'[waiting[i].conn].pm
    BY <1>2, <1>3 DEF Inv, ListInv
  <2>3. \A i, j \in DOMAIN backlog' : backlog'[i] = backlog'[j] => i = j
    BY <1>3, <1>5 DEF Inv, ListInv
  <2>4. \A i \in DOMAIN backlog', j \in DOMAIN waiting : backlog'[i] # waiting[j].conn
    BY <1>3, <1>5 DEF Inv, ListInv
  <2>5. Busy => /\ pm.conn \in Conn /\ conn'[pm.conn].pm
                /\ \A i \in DOMAIN backlog' : backlog'[i] # pm.conn
                /\ \A i \in DOMAIN waiting : waiting[i].conn # pm.conn
    BY <1>2, <1>3, <1>5 DEF Inv, ListInv
  <2>6. /\ pm.at = "accept" => pm = Accepting
        /\ \A i, j \in DOMAIN waiting : waiting[i].conn = waiting[j].conn => i = j
    BY DEF Inv, ListInv
  <2> QED BY <2>1, <2>2, <2>3, <2>4, <2>5, <2>6 DEF ListInv, Busy
<1>10. BacklogInv'
  <2> SUFFICES ASSUME NEW i \in DOMAIN backlog'
               PROVE  /\ Unread("event", conn'[backlog'[i]].toPm)
                      /\ \A q \in Proc : proc'[q].conn = backlog'[i] =>
                           /\ proc'[q].phase = "asked" /\ conn'[backlog'[i]].toCl = <<>>
                           /\ conn'[backlog'[i]].toPm = One(EventMsg(MyEvent(q)'))
    BY DEF BacklogInv, MyEvent
  <2>1. CASE i = Len(backlog) + 1
    <3>1. backlog'[i] = k /\ conn'[backlog'[i]] = new
      BY <1>2, <1>5, <2>1
    <3>2. ASSUME NEW q \in Proc, proc'[q].conn = k
          PROVE  proc'[q].phase = "asked" /\ new.toPm = One(EventMsg(MyEvent(q)'))
      <4>1. q = p /\ proc'[p] # proc[p]
        BY <1>3, <1>4, <3>2
      <4>2. proc'[p].phase = "asked" /\ new.toPm = One(EventMsg(EventOf(p, proc'[p].op)))
        BY <1>1, <4>1
      <4> QED BY <4>1, <4>2 DEF MyEvent
    <3> QED BY <3>1, <3>2
  <2>2. CASE i # Len(backlog) + 1
    <3>1. i \in DOMAIN backlog /\ backlog'[i] = backlog[i]
      BY <1>5, <2>2
    <3>2. conn'[backlog[i]] = conn[backlog[i]] /\ backlog[i] # k
      BY <1>2, <1>3, <3>1
    <3>3. \A q \in Proc : proc'[q].conn = backlog[i] => proc'[q] = proc[q]
      BY <1>4, <3>2
    <3> QED BY <3>1, <3>2, <3>3 DEF Inv, BacklogInv, MyEvent
  <2> QED BY <2>1, <2>2
<1>11. DialogueInv'
  <2> SUFFICES ASSUME InDialogue
               PROVE  /\ Unread(pm.at, conn'[pm.conn].toPm)
                      /\ \A q \in Proc : proc'[q].conn = pm.conn =>
                           Talks(q, pm.at, conn[pm.conn].toPm, conn[pm.conn].toCl)'
    BY DEF Inv, DialogueInv, InDialogue
  <2>1. /\ pm.conn \in Conn /\ pm.conn # k
        /\ Unread(pm.at, conn[pm.conn].toPm)
        /\ \A q \in Proc : proc[q].conn = pm.conn =>
             Talks(q, pm.at, conn[pm.conn].toPm, conn[pm.conn].toCl)
    BY <1>3 DEF Inv, DialogueInv, ListInv, InDialogue, Busy
  <2>2. conn'[pm.conn] = conn[pm.conn]
    BY <1>2, <2>1
  <2>3. ASSUME NEW q \in Proc, proc'[q].conn = pm.conn
        PROVE  Talks(q, pm.at, conn[pm.conn].toPm, conn[pm.conn].toCl)'
    <3>1. proc'[q] = proc[q]
      BY <1>4, <2>1, <2>3
    <3>2. Talks(q, pm.at, conn[pm.conn].toPm, conn[pm.conn].toCl)
      BY <2>1, <2>3, <3>1
    <3> QED BY <2>2, <3>1, <3>2 DEF Talks, Asked, Told, MyEvent, ShareOf, shares
  <2> QED BY <2>1, <2>2, <2>3
<1> QED BY <1>6, <1>7, <1>8, <1>9, <1>10, <1>11 DEF Inv

\* A process without a call, or about to make the next one.
Gone(r) ==
  /\ r \in ProcRec /\ r.conn = None /\ r.port = 0 /\ ~r.listening
  /\ \/ r.phase = "idle" /\ r.op = "none"
     \/ r.phase = "next" /\ r.op \in {"server", "purge"} /\ r.name \in Name

LEMMA GoneFacts ==
  ASSUME Inv, NEW p \in Proc
  PROVE  /\ Gone(Idle)
         /\ proc[p].op \in {"Server", "purge"} => proc[p].name \in Name
         /\ Gone(Failed(proc[p]))
<1>1. Gone(Idle)
  BY DEF Gone, Idle, ProcRec
<1>2. proc[p].op \in {"Server", "purge"} => proc[p].name \in Name
  <2>1. ProcOK(p) /\ proc[p].phase \in {"idle", "next", "asked", "told", "spin"}
    BY TypesFields DEF Inv, ProcRec
  <2> QED BY <2>1 DEF ProcOK, NamedOps
<1>3. Gone(Failed(proc[p]))
  BY <1>2 DEF Failed, Gone, Idle, ProcRec, Op
<1> QED BY <1>1, <1>2, <1>3

\* What a process has of its connection when it has read an answer and written.
LEMMA ReplyFacts ==
  ASSUME Inv, NEW p \in Proc, HasAnswer(p), NEW msgs \in Seq(Message), NEW k, k = proc[p].conn,
         NEW d, d = Replying(p, msgs)
  PROVE  /\ OnlyOne(conn, d, k) /\ d[k].cl /\ d[k].pm = conn[k].pm
         /\ d[k].toCl = Tail(conn[k].toCl)
         /\ d[k].toPm = IF conn[k].pm THEN conn[k].toPm \o msgs ELSE conn[k].toPm
<1>1. k \in Conn /\ conn \in Conns /\ conn[k].cl /\ conn[k].toCl # <<>>
  BY CallerFacts DEF Inv, Types, HasAnswer, Calling
<1>2. PICK c : c = [conn EXCEPT ![k].toCl = Tail(@)]
  OBVIOUS
<1>3. /\ OnlyOne(conn, c, k) /\ c[k].cl = conn[k].cl /\ c[k].pm = conn[k].pm
      /\ c[k].toPm = conn[k].toPm /\ c[k].toCl = Tail(conn[k].toCl)
  BY <1>1, <1>2, ReadFacts
<1>4. d = clSends(c, k, msgs) /\ c \in Conns /\ k \in Conn
  BY <1>1, <1>2, <1>3 DEF Replying, OnlyOne
<1>5. /\ OnlyOne(c, d, k) /\ d[k].cl = c[k].cl /\ d[k].pm = c[k].pm
      /\ d[k].toCl = c[k].toCl
      /\ d[k].toPm = IF c[k].pm THEN c[k].toPm \o msgs ELSE c[k].toPm
  BY <1>4, ClSendsFacts
<1> QED BY <1>1, <1>3, <1>5 DEF OnlyOne

LEMMA ReplyEach ==
  ASSUME Inv, NEW p \in Proc, HasAnswer(p), NEW msgs \in Seq(Message)
  PROVE  \A k, d : k = proc[p].conn /\ d = Replying(p, msgs) =>
           /\ OnlyOne(conn, d, k) /\ d[k].pm = conn[k].pm
           /\ conn[k].pm => d[k].toPm = conn[k].toPm \o msgs
<1> SUFFICES ASSUME NEW k, k = proc[p].conn, NEW d, d = Replying(p, msgs)
             PROVE  /\ OnlyOne(conn, d, k) /\ d[k].pm = conn[k].pm
                    /\ conn[k].pm => d[k].toPm = conn[k].toPm \o msgs
  OBVIOUS
<1>1. /\ OnlyOne(conn, d, k) /\ d[k].pm = conn[k].pm
      /\ d[k].toPm = IF conn[k].pm THEN conn[k].toPm \o msgs ELSE conn[k].toPm
  BY ReplyFacts
<1> QED BY <1>1

LEMMA LastReplyFacts ==
  ASSUME Inv, NEW p \in Proc, HasAnswer(p), NEW msgs \in Seq(Message)
  PROVE  \A k, d : k = proc[p].conn /\ d = clCloses(Replying(p, msgs), k) =>
           /\ OnlyOne(conn, d, k) /\ d[k].pm = conn[k].pm
           /\ conn[k].pm => d[k].toPm = conn[k].toPm \o msgs
<1> SUFFICES ASSUME NEW k, k = proc[p].conn, NEW d, d = clCloses(Replying(p, msgs), k)
             PROVE  /\ OnlyOne(conn, d, k) /\ d[k].pm = conn[k].pm
                    /\ conn[k].pm => d[k].toPm = conn[k].toPm \o msgs
  OBVIOUS
<1>1. k \in Conn /\ k # None
  BY CallerFacts DEF HasAnswer, Calling
<1>2. PICK c : c = Replying(p, msgs)
  OBVIOUS
<1>3. /\ OnlyOne(conn, c, k) /\ c \in Conns /\ c[k].pm = conn[k].pm
      /\ conn[k].pm => c[k].toPm = conn[k].toPm \o msgs
  <2>1. /\ OnlyOne(conn, c, k) /\ c[k].pm = conn[k].pm
        /\ c[k].toPm = IF conn[k].pm THEN conn[k].toPm \o msgs ELSE conn[k].toPm
    BY <1>2, ReplyFacts
  <2> QED BY <2>1 DEF OnlyOne
<1>4. d = clCloses(c, k) /\ c \in Conns
  BY <1>2, <1>3
<1>5. /\ OnlyOne(c, d, k) /\ d[k].pm = c[k].pm
      /\ c[k].pm => d[k].toPm = c[k].toPm
  BY <1>1, <1>4, ClClosesFacts
<1>6. OnlyOne(conn, d, k)
  BY <1>3, <1>5 DEF OnlyOne
<1>7. d[k].pm = conn[k].pm
  BY <1>3, <1>5
<1>8. conn[k].pm => d[k].toPm = conn[k].toPm \o msgs
  BY <1>3, <1>5
<1> QED BY <1>6, <1>7, <1>8

\* A process that has an answer is not in the backlog; what it has in a dialogue.
LEMMA AnswerFacts ==
  ASSUME Inv, NEW p \in Proc, HasAnswer(p), NEW k, k = proc[p].conn
  PROVE  /\ \A i \in DOMAIN backlog : backlog[i] # k
         /\ InDialogue /\ pm.conn = k =>
              /\ conn[k].pm /\ conn[k].toPm = <<>>
              /\ \/ /\ proc[p].phase = "asked" /\ Answer(p) = AskAgain /\ pm.at = "event"
                    /\ conn[k].toCl = One(AskAgain)
                 \/ /\ proc[p].phase = "asked" /\ Answer(p) = Ok /\ conn[k].toCl = One(Ok)
                    /\ MyEvent(p) \in DOMAIN Opening /\ pm.at = Opening[MyEvent(p)]
                    /\ pm.share = None
                 \/ proc[p].phase = "told" /\ pm.at = "final" /\ proc[p].op \in ServerOps
<1>1. conn[k].toCl # <<>> /\ Answer(p) = Head(conn[k].toCl)
  BY DEF HasAnswer, Answer
<1>2. \A i \in DOMAIN backlog : backlog[i] # k
  BY <1>1 DEF Inv, BacklogInv
<1>3. ASSUME InDialogue, pm.conn = k
      PROVE  conn[k].pm /\ Talks(p, pm.at, conn[k].toPm, conn[k].toCl)
  BY <1>3 DEF Inv, DialogueInv, ListInv, InDialogue, Busy
<1>4. ASSUME InDialogue, pm.conn = k, Asked(p, pm.at, conn[k].toPm, conn[k].toCl)
      PROVE  \/ /\ proc[p].phase = "asked" /\ Answer(p) = AskAgain /\ pm.at = "event"
                /\ conn[k].toCl = One(AskAgain) /\ conn[k].toPm = <<>>
             \/ /\ proc[p].phase = "asked" /\ Answer(p) = Ok /\ conn[k].toCl = One(Ok)
                /\ MyEvent(p) \in DOMAIN Opening /\ pm.at = Opening[MyEvent(p)]
                /\ pm.share = None /\ conn[k].toPm = <<>>
  BY <1>1, <1>4, OkSaid DEF Asked
<1>5. ASSUME InDialogue, pm.conn = k, Told(p, pm.at, conn[k].toPm, conn[k].toCl)
      PROVE  /\ proc[p].phase = "told" /\ pm.at = "final" /\ proc[p].op \in ServerOps
             /\ conn[k].toPm = <<>>
  BY <1>1, <1>5 DEF Told
<1> QED BY <1>2, <1>3, <1>4, <1>5 DEF Talks

\* A call is over, and nothing was written.
LEMMA HangsUp ==
  ASSUME Inv, NEW p \in Proc, NEW k, k = proc[p].conn, NEW r,
         proc' = [proc EXCEPT ![p] = r], Gone(r) \/ (r \in ProcRec /\ r.conn = None
                                         /\ r.port = proc[p].port /\ ProcOK(p)'),
         UNCHANGED <<pm, table, waiting, backlog, firewall>>, mishap' \in 0..MaxMishap,
         OnlyOne(conn, conn', k), k \in Conn => conn'[k].pm = conn[k].pm,
         k \in Conn /\ conn[k].pm =>
            \/ conn'[k].toPm = conn[k].toPm
            \/ /\ \A i \in DOMAIN backlog : backlog[i] # k
               /\ InDialogue /\ pm.conn = k => Unread(pm.at, conn'[k].toPm)
  PROVE  Inv'
<1>1. r \in ProcRec /\ r.conn = None /\ r.port \in {0, proc[p].port}
  BY DEF Gone
<1>2. proc'[p] = r
  BY DEF Inv, Types
<1>3. ProcOK(p)'
  <2>1. CASE Gone(r)
    BY <1>2, <2>1 DEF ProcOK, Gone
  <2> QED BY <2>1
<1>4. (\E i \in DOMAIN backlog : backlog[i] = k) => conn'[k].toPm = conn[k].toPm
  BY TypesFields DEF Inv, ListInv
<1>5. InDialogue /\ pm.conn = k => Unread(pm.at, conn'[k].toPm) /\ r.conn # k
  <2> SUFFICES ASSUME InDialogue, pm.conn = k
               PROVE  Unread(pm.at, conn'[k].toPm) /\ r.conn # k
    OBVIOUS
  <2>1. k \in Conn /\ conn[k].pm /\ Unread(pm.at, conn[k].toPm) /\ k # None
    BY PortMasterAssumption DEF Inv, ListInv, DialogueInv, InDialogue, Busy
  <2> QED BY <1>1, <2>1
<1> QED BY <1>1, <1>3, <1>4, <1>5, OwnStep

\* A new connection, with the event or without a word.
LEMMA ConnectedFacts ==
  ASSUME NEW p \in Proc
  PROVE  /\ [connected(p) EXCEPT !.cl = FALSE] \in ConnRec
         /\ [connected(p) EXCEPT !.cl = FALSE].pm
         /\ [connected(p) EXCEPT !.cl = FALSE].toCl = <<>>
         /\ [connected(p) EXCEPT !.cl = FALSE].toPm = <<>>
         /\ \A m \in Seq(Message) :
              LET new == [connected(p) EXCEPT !.toPm = m] IN
                new \in ConnRec /\ new.pm /\ new.cl /\ new.toCl = <<>> /\ new.toPm = m
<1>1. HostOf[p] \in Host
  BY PortMasterAssumption
<1>2. /\ connected(p) \in ConnRec /\ connected(p).pm /\ connected(p).cl
      /\ connected(p).toCl = <<>> /\ connected(p).toPm = <<>>
  BY <1>1, FreeRec DEF connected, ConnRec
<1> QED BY <1>2 DEF ConnRec

LEMMA NewCallStep ==
  ASSUME Inv, NEW p \in Proc, proc[p].phase \in {"idle", "next"}, NEW rec \in ProcRec,
         NEW op \in Op, Connect(p, rec, op), UNCHANGED <<pm, table, waiting, firewall, mishap>>,
         op \in NamedOps \cup {"close"} => rec.name \in Name,
         op \in ServerOps \cup {"close"} => rec.port \in Port,
         op = "close" <=> rec.listening,
         \A q \in Proc \ {p} : HostOf[q] = HostOf[p] /\ rec.port # 0
                                 => proc[q].port # rec.port
  PROVE  Inv'
<1>1. PICK k \in Conn :
        /\ Sopen_clientport(k, [connected(p) EXCEPT !.toPm = << <<EventOf(p, op)>> >>])
        /\ proc' = [proc EXCEPT ![p] = [rec EXCEPT !.op = op, !.phase = "asked", !.conn = k]]
  BY DEF Connect
<1>2. PICK r, new, m : /\ r = [rec EXCEPT !.op = op, !.phase = "asked", !.conn = k]
                       /\ m = << <<EventOf(p, op)>> >>
                       /\ new = [connected(p) EXCEPT !.toPm = m]
  OBVIOUS
<1>3. /\ r \in ProcRec /\ r.op = op /\ r.phase = "asked" /\ r.conn = k
      /\ r.name = rec.name /\ r.port = rec.port /\ r.listening = rec.listening
  BY <1>2 DEF ProcRec
<1>4. EventOf(p, op) \in Events /\ EventMsg(EventOf(p, op)) \in Message
  BY MessageFacts DEF EventOf, Events
<1>5. m = One(EventMsg(EventOf(p, op))) /\ m \in Seq(Message)
  BY <1>2, <1>4, OneFacts DEF EventMsg
<1>6. new \in ConnRec /\ new.pm /\ new.cl /\ new.toCl = <<>> /\ new.toPm = m
  BY <1>2, <1>5, ConnectedFacts
<1>7. proc' = [proc EXCEPT ![p] = r]
  BY <1>1, <1>2
<1>8. conn[k] = Free /\ backlog' = Append(backlog, k) /\ conn' = [conn EXCEPT ![k] = new]
  BY <1>1, <1>2 DEF Sopen_clientport, FreeConn
<1>9. proc[p].conn = None
  BY DEF Inv, ProcOK
<1>10. ProcOK(p)'
  <2>1. proc'[p] = r
    BY <1>7 DEF Inv, Types
  <2>2. conn'[k] = new /\ k # None
    BY <1>8, PortMasterAssumption DEF Inv, Types, Conns
  <2>3. op # "none" /\ op \notin {"idle"}
    BY DEF Op
  <2> QED BY <1>3, <1>6, <2>1, <2>2, <2>3 DEF ProcOK
<1>11. Unread("event", new.toPm)
  BY <1>4, <1>5, <1>6 DEF Unread
<1>12. mishap' \in 0..MaxMishap
  BY SameTypes
<1>13. conn[k] = Free /\ conn' = [conn EXCEPT ![k] = new]
  BY <1>8
<1>14. \E s \in ProcRec :
              /\ proc' = [proc EXCEPT ![p] = s]
              /\ proc[p].conn = None /\ s.conn = k /\ s.phase = "asked" /\ ProcOK(p)'
              /\ new.toPm = One(EventMsg(EventOf(p, s.op)))
              /\ \A q \in Proc \ {p} : HostOf[q] = HostOf[p] /\ s.port # 0
                                         => proc[q].port # s.port
  BY <1>3, <1>5, <1>6, <1>7, <1>9, <1>10
<1>15. backlog' = Append(backlog, k)
  BY <1>8
<1> QED BY <1>6, <1>11, <1>12, <1>13, <1>14, <1>15, ConnectStep

\* A server binds a port that no process of its machine has.
LEMMA ServerCallStep ==
  ASSUME Inv, NEW p \in Proc, proc[p].phase \in {"idle", "next"}, NEW op \in ServerOps,
         NEW n \in Name, ConnectServer(p, op, n),
         UNCHANGED <<pm, table, waiting, firewall, mishap>>
  PROVE  Inv'
<1>1. PICK q \in FreePort(p) : Connect(p, [Idle EXCEPT !.name = n, !.port = q], op)
  BY DEF ConnectServer
<1>2. PICK rec : rec = [Idle EXCEPT !.name = n, !.port = q]
  OBVIOUS
<1>3. q \in Port /\ \A s \in Proc : HostOf[s] = HostOf[p] => proc[s].port # q
  BY <1>1 DEF FreePort
<1>4. /\ rec \in ProcRec /\ rec.name = n /\ rec.port = q /\ ~rec.listening
  BY <1>2, <1>3 DEF Idle, ProcRec
<1>5. Connect(p, rec, op) /\ op \in Op /\ op # "close"
  BY <1>1, <1>2 DEF ServerOps, Op
<1> QED BY <1>3, <1>4, <1>5, NewCallStep DEF ServerOps

LEMMA CallStep ==
  ASSUME Inv, NEW p \in Proc, Call(p)
  PROVE  Inv'
<1>1. /\ proc[p].phase = "idle"
      /\ UNCHANGED <<pm, table, waiting, firewall, mishap>>
  BY DEF Call, Idle
<1>2. PICK c \in Calls[p] :
        LET op == c[1]
            n == c[2]
        IN  CASE op \in {"server", "Server"} -> ConnectServer(p, op, n)
              [] op \notin {"server", "Server", "close", "purge", "check"} ->
                    Connect(p, [Idle EXCEPT !.name = n], op)
              [] OTHER -> FALSE
  BY DEF Call
<1>3. /\ c[1] \in Op /\ c[2] \in Name \cup {None}
      /\ c[1] \in NamedOps => c[2] \in Name
  BY PortMasterAssumption
<1>4. CASE c[1] \in ServerOps
  <2>1. ConnectServer(p, c[1], c[2]) /\ c[2] \in Name
    BY <1>2, <1>3, <1>4 DEF ServerOps, NamedOps
  <2> QED BY <1>1, <1>4, <2>1, ServerCallStep
<1>5. CASE c[1] \notin ServerOps
  <2>1. PICK rec : rec = [Idle EXCEPT !.name = c[2]]
    OBVIOUS
  <2>2. Connect(p, rec, c[1]) /\ c[1] \notin {"server", "Server", "close"}
    BY <1>2, <1>5, <2>1 DEF ServerOps
  <2>3. rec \in ProcRec /\ rec.name = c[2] /\ rec.port = 0 /\ ~rec.listening
    BY <1>3, <2>1 DEF Idle, ProcRec
  <2> QED BY <1>1, <1>3, <2>2, <2>3, NewCallStep DEF ServerOps
<1> QED BY <1>4, <1>5

LEMMA CheckStep ==
  ASSUME Inv, NEW p \in Proc, spmchk(p)
  PROVE  Inv'
<1>1. PICK k \in Conn : Sopen_clientport(k, [connected(p) EXCEPT !.cl = FALSE])
  BY DEF spmchk
<1>2. PICK new : new = [connected(p) EXCEPT !.cl = FALSE]
  OBVIOUS
<1>3. new \in ConnRec /\ new.pm /\ new.toCl = <<>> /\ Unread("event", new.toPm)
  BY <1>2, ConnectedFacts DEF Unread
<1>4. conn[k] = Free /\ conn' = [conn EXCEPT ![k] = new]
  BY <1>1, <1>2 DEF Sopen_clientport, FreeConn
<1>5. backlog' = Append(backlog, k)
  BY <1>1 DEF Sopen_clientport
<1>6. UNCHANGED <<pm, table, waiting, firewall, proc>> /\ mishap' \in 0..MaxMishap
  BY SameTypes DEF spmchk
<1> QED BY <1>3, <1>4, <1>5, <1>6, ConnectStep

LEMMA SameConns ==
  ASSUME Inv, NEW k
  PROVE  UNCHANGED conn => OnlyOne(conn, conn', k)
BY DEF Inv, Types, OnlyOne

\* A process fails, is killed, or closes without the PortMaster.
LEMMA LeavesStep ==
  ASSUME Inv, NEW p \in Proc, NEW r, Gone(r), proc' = [proc EXCEPT ![p] = r],
         UNCHANGED <<pm, table, waiting, backlog, firewall>>, mishap' \in 0..MaxMishap,
         UNCHANGED conn \/ conn' = clCloses(conn, proc[p].conn)
  PROVE  Inv'
<1>1. PICK k : k = proc[p].conn
  OBVIOUS
<1>2. k \in Conn \/ k = None
  BY <1>1, TypesFields DEF Inv, ProcRec
<1>3. conn \in Conns /\ None \notin Conn
  BY PortMasterAssumption DEF Inv, Types
<1>4. CASE UNCHANGED conn
  <2>1. OnlyOne(conn, conn', k)
    BY <1>4, SameConns
  <2> QED BY <1>1, <1>4, <2>1, HangsUp
<1>5. CASE conn' = clCloses(conn, k)
  <2>1. CASE k = None
    <3>1. UNCHANGED conn
      BY <1>5, <2>1 DEF clCloses
    <3> QED BY <1>4, <3>1
  <2>2. CASE k \in Conn
    <3>1. /\ OnlyOne(conn, conn', k) /\ conn'[k].pm = conn[k].pm
          /\ conn[k].pm => conn'[k].toPm = conn[k].toPm
      <4>1. PICK d : d = clCloses(conn, k)
        OBVIOUS
      <4>2. k # None
        BY <1>3, <2>2
      <4>3. /\ OnlyOne(conn, d, k) /\ d[k].pm = conn[k].pm
            /\ conn[k].pm => d[k].toPm = conn[k].toPm
        BY <1>3, <2>2, <4>1, <4>2, ClClosesFacts
      <4> QED BY <1>5, <4>1, <4>3
    <3> QED BY <1>1, <3>1, HangsUp
  <2> QED BY <1>2, <2>1, <2>2
<1> QED BY <1>1, <1>4, <1>5

LEMMA SclosesStep ==
  ASSUME Inv, NEW p \in Proc, Sclose(p)
  PROVE  Inv'
<1>1. /\ proc[p].listening /\ proc[p].phase = "idle" /\ proc[p] \in ProcRec
      /\ UNCHANGED <<pm, table, waiting, firewall, mishap>>
  BY TypesFields DEF Sclose, Inv
<1>2. CASE pm.at = "dead"
  <2>1. proc' = [proc EXCEPT ![p] = Idle] /\ UNCHANGED <<conn, backlog>>
    BY <1>2 DEF Sclose
  <2> QED BY <1>1, <2>1, SameTypes, GoneFacts, LeavesStep
<1>3. CASE pm.at # "dead"
  <2>1. Connect(p, proc[p], "close")
    BY <1>3 DEF Sclose
  <2>2. proc[p].name \in Name /\ proc[p].port \in Port
    BY <1>1 DEF Inv, ProcOK
  <2>3. \A q \in Proc \ {p} : HostOf[q] = HostOf[p] /\ proc[p].port # 0
                                => proc[q].port # proc[p].port
    BY DEF Inv, ProcsApart
  <2>4. "close" \in Op
    BY DEF Op
  <2> QED BY <1>1, <2>1, <2>2, <2>3, <2>4, NewCallStep
<1> QED BY <1>2, <1>3

LEMMA CallNextStep ==
  ASSUME Inv, NEW p \in Proc, CallNext(p)
  PROVE  Inv'
<1>1. /\ proc[p].phase = "next" /\ proc[p] \in ProcRec
      /\ UNCHANGED <<pm, table, waiting, firewall, mishap>>
  BY TypesFields DEF CallNext, Inv
<1>2. /\ proc[p].op \in {"server", "purge"} /\ proc[p].name \in Name
      /\ ~proc[p].listening /\ proc[p].port = 0
  BY <1>1 DEF Inv, ProcOK
<1>3. CASE pm.at = "dead"
  <2>1. proc' = [proc EXCEPT ![p] = Failed(proc[p])] /\ UNCHANGED <<conn, backlog>>
    BY <1>3 DEF CallNext
  <2> QED BY <1>1, <2>1, SameTypes, GoneFacts, LeavesStep
<1>4. CASE pm.at # "dead" /\ proc[p].op = "server"
  <2>1. ConnectServer(p, "server", proc[p].name)
    BY <1>4 DEF CallNext
  <2> QED BY <1>1, <1>2, <2>1, ServerCallStep DEF ServerOps
<1>5. CASE pm.at # "dead" /\ proc[p].op = "purge"
  <2>1. Connect(p, proc[p], "purge")
    BY <1>5 DEF CallNext
  <2>2. "purge" \in Op /\ "purge" \notin ServerOps \cup {"close"}
    BY DEF Op, ServerOps
  <2> QED BY <1>1, <1>2, <2>1, <2>2, NewCallStep
<1> QED BY <1>2, <1>3, <1>4, <1>5

LEMMA RefusedStep ==
  ASSUME Inv, NEW p \in Proc, Refused(p)
  PROVE  Inv'
<1>1. /\ proc' = [proc EXCEPT ![p] = Failed(proc[p])] /\ conn' = clCloses(conn, proc[p].conn)
      /\ UNCHANGED <<pm, table, waiting, backlog, firewall, mishap>>
  BY DEF Refused, Fails
<1> QED BY <1>1, SameTypes, GoneFacts, LeavesStep

LEMMA KillStep ==
  ASSUME Inv, NEW p \in Proc, Kill(p)
  PROVE  Inv'
<1>1. /\ proc' = [proc EXCEPT ![p] = Idle] /\ conn' = clCloses(conn, proc[p].conn)
      /\ UNCHANGED <<pm, table, waiting, backlog, firewall>> /\ goesWrong
  BY DEF Kill
<1> QED BY <1>1, SameTypes, GoneFacts, LeavesStep

LEMMA LosesTouchStep ==
  ASSUME Inv, NEW p \in Proc, LosesTouch(p)
  PROVE  Inv'
<1>1. /\ proc[p].phase \in {"asked", "told"}
      /\ UNCHANGED <<pm, table, waiting, backlog, firewall>>
      /\ goesWrong \/ UNCHANGED mishap
  BY DEF LosesTouch, Calling
<1>2. CASE ~(proc[p].op \in {"remove", "purge"} /\ proc[p].phase = "told")
  <2>1. /\ proc' = [proc EXCEPT ![p] = Failed(proc[p])]
        /\ UNCHANGED conn \/ conn' = clCloses(conn, proc[p].conn)
    BY <1>2 DEF LosesTouch, Fails
  <2> QED BY <1>1, <2>1, SameTypes, GoneFacts, LeavesStep
<1>3. CASE proc[p].op \in {"remove", "purge"} /\ proc[p].phase = "told"
  <2>1. PICK r, k : r = [proc[p] EXCEPT !.phase = "spin"] /\ k = proc[p].conn
    OBVIOUS
  <2>2. /\ proc' = [proc EXCEPT ![p].phase = "spin"] /\ UNCHANGED conn
        /\ ~conn[k].pm
    BY <1>3, <2>1 DEF LosesTouch
  <2>3. proc[p] \in ProcRec /\ ProcOK(p) /\ conn \in Conns /\ proc \in [Proc -> ProcRec]
    BY TypesFields DEF Inv, Types
  <2>4. /\ r \in ProcRec /\ r.conn = k /\ r.port = proc[p].port /\ r.phase = "spin"
        /\ r.op = proc[p].op /\ r.name = proc[p].name /\ r.listening = proc[p].listening
    BY <2>1, <2>3 DEF ProcRec
  <2>5. proc' = [proc EXCEPT ![p] = r] /\ proc'[p] = r
    BY <2>1, <2>2, <2>3
  <2>6. ProcOK(p)'
    BY <1>3, <2>1, <2>2, <2>3, <2>4, <2>5 DEF ProcOK
  <2>7. OnlyOne(conn, conn', k)
    BY <2>2, SameConns
  <2>8. mishap' \in 0..MaxMishap
    BY <1>1, SameTypes
  <2>9. /\ \A i \in DOMAIN backlog : backlog[i] # k
        /\ InDialogue => pm.conn # k
    BY <2>2 DEF Inv, ListInv, InDialogue, Busy
  <2>10. k \in Conn => conn'[k].pm = conn[k].pm
    BY <2>2
  <2>11. proc' = [proc EXCEPT ![p] = r]
    BY <2>5
  <2>12. UNCHANGED <<pm, table, waiting, backlog, firewall>>
    BY <1>1
  <2> QED BY <2>1, <2>4, <2>6, <2>7, <2>8, <2>9, <2>10, <2>11, <2>12, OwnStep
<1> QED BY <1>2, <1>3

\* A process reads its last answer, may write a last word, and closes.
LEMMA LastReplyStep ==
  ASSUME Inv, NEW p \in Proc, HasAnswer(p), NEW msgs \in Seq(Message), NEW r,
         conn' = clCloses(Replying(p, msgs), proc[p].conn), proc' = [proc EXCEPT ![p] = r],
         Gone(r) \/ (r \in ProcRec /\ r.conn = None /\ r.port = proc[p].port /\ ProcOK(p)'),
         UNCHANGED <<pm, table, waiting, backlog, firewall, mishap>>,
         InDialogue /\ pm.conn = proc[p].conn =>
            msgs = <<>> \/ Unread(pm.at, <<>> \o msgs)
  PROVE  Inv'
<1>1. PICK k : k = proc[p].conn
  OBVIOUS
<1>2. PICK d : d = clCloses(Replying(p, msgs), k)
  OBVIOUS
<1>3. /\ OnlyOne(conn, d, k) /\ d[k].pm = conn[k].pm
      /\ conn[k].pm => d[k].toPm = conn[k].toPm \o msgs
  <2>1. \A j, e : j = proc[p].conn /\ e = clCloses(Replying(p, msgs), j) =>
          /\ OnlyOne(conn, e, j) /\ e[j].pm = conn[j].pm
          /\ conn[j].pm => e[j].toPm = conn[j].toPm \o msgs
    BY LastReplyFacts, Zenon
  <2> QED BY <1>1, <1>2, <2>1
<1>4. conn' = d
  BY <1>1, <1>2
<1>5. /\ \A i \in DOMAIN backlog : backlog[i] # k
      /\ InDialogue /\ pm.conn = k => conn[k].pm /\ conn[k].toPm = <<>>
  BY <1>1, AnswerFacts
<1>6. InDialogue /\ pm.conn = k => Unread(pm.at, conn'[k].toPm)
  <2> SUFFICES ASSUME InDialogue, pm.conn = k
               PROVE  Unread(pm.at, d[k].toPm)
    BY <1>4
  <2>1. d[k].toPm = <<>> \o msgs
    BY <1>3, <1>5
  <2>2. msgs = <<>> => Unread(pm.at, <<>> \o msgs)
    <3>1. <<>> \o <<>> = <<>>
      BY WrittenFacts, MessageFacts
    <3> QED BY <3>1 DEF Unread
  <2> QED BY <1>1, <2>1, <2>2
<1>7. OnlyOne(conn, conn', k) /\ conn'[k].pm = conn[k].pm
  BY <1>3, <1>4
<1>8. mishap' \in 0..MaxMishap
  BY SameTypes
<1> QED BY <1>1, <1>5, <1>6, <1>7, <1>8, HangsUp

LEMMA EndsWithStep ==
  ASSUME Inv, NEW p \in Proc, NEW ops, endsWith(p, ops)
  PROVE  Inv'
<1>1. /\ HasAnswer(p) /\ conn' = clCloses(Replying(p, <<>>), proc[p].conn)
      /\ proc' = [proc EXCEPT ![p] = Failed(proc[p])]
      /\ UNCHANGED <<pm, table, waiting, backlog, firewall, mishap>>
  BY DEF endsWith, lastAnswer, Fails
<1>2. <<>> \in Seq(Message)
  BY WrittenFacts, MessageFacts
<1>3. Gone(Failed(proc[p]))
  BY GoneFacts
<1> QED BY <1>1, <1>2, <1>3, LastReplyStep

LEMMA SopenServerStep ==
  ASSUME Inv, NEW p \in Proc, Sopen_server(p)
  PROVE  Inv'
<1>1. /\ HasAnswer(p) /\ proc[p].phase = "told" /\ proc[p].op \in ServerOps
      /\ UNCHANGED <<pm, table, waiting, backlog, firewall, mishap>>
  BY DEF Sopen_server, lastAnswer, ServerOps
<1>2. CASE Answer(p) = Ok
  <2>1. PICK r : r = [proc[p] EXCEPT !.op = "none", !.phase = "idle", !.conn = None,
                                     !.listening = TRUE]
    OBVIOUS
  <2>2. /\ conn' = clCloses(Replying(p, <<Ok>>), proc[p].conn)
        /\ proc' = [proc EXCEPT ![p].op = "none", ![p].phase = "idle",
                                ![p].conn = None, ![p].listening = TRUE]
    BY <1>2 DEF Sopen_server
  <2>3. proc[p] \in ProcRec /\ ProcOK(p) /\ proc \in [Proc -> ProcRec]
    BY TypesFields DEF Inv, Types
  <2>4. /\ r \in ProcRec /\ r.conn = None /\ r.port = proc[p].port /\ r.phase = "idle"
        /\ r.op = "none" /\ r.name = proc[p].name
    BY <2>1, <2>3 DEF ProcRec
  <2>5. proc' = [proc EXCEPT ![p] = r] /\ proc'[p] = r
    BY <2>1, <2>2, <2>3
  <2>6. proc[p].name \in Name /\ proc[p].port \in Port
    BY <1>1, <2>3 DEF ProcOK, NamedOps, ServerOps
  <2>7. ProcOK(p)'
    BY <2>4, <2>5, <2>6 DEF ProcOK
  <2>8. <<Ok>> \in Seq(Message) /\ <<>> \o <<Ok>> = One(Ok)
    BY WrittenFacts, MessageFacts
  <2>9. InDialogue /\ pm.conn = proc[p].conn => Unread(pm.at, <<>> \o <<Ok>>)
    <3>1. InDialogue /\ pm.conn = proc[p].conn => pm.at = "final"
      BY <1>1, AnswerFacts
    <3> QED BY <2>8, <3>1 DEF Unread
  <2>10. proc' = [proc EXCEPT ![p] = r]
    BY <2>5
  <2>11. conn' = clCloses(Replying(p, <<Ok>>), proc[p].conn)
    BY <2>2
  <2> QED BY <1>1, <2>4, <2>7, <2>8, <2>9, <2>10, <2>11, LastReplyStep
<1>3. CASE Answer(p) # Ok
  <2>1. /\ conn' = clCloses(Replying(p, <<>>), proc[p].conn)
        /\ proc' = [proc EXCEPT ![p] = Failed(proc[p])]
    BY <1>3 DEF Sopen_server, Fails
  <2>2. <<>> \in Seq(Message)
    BY WrittenFacts, MessageFacts
  <2>3. Gone(Failed(proc[p]))
    BY GoneFacts
  <2> QED BY <1>1, <2>1, <2>2, <2>3, LastReplyStep
<1> QED BY <1>2, <1>3

\* A process has read its last answer and leaves the connection open.
LEMMA LeftOpen ==
  ASSUME Inv, NEW p \in Proc, HasAnswer(p), conn' = Replying(p, <<>>), NEW r, Gone(r),
         proc' = [proc EXCEPT ![p] = r],
         UNCHANGED <<pm, table, waiting, backlog, firewall, mishap>>
  PROVE  Inv'
<1>1. PICK k, d : k = proc[p].conn /\ d = Replying(p, <<>>)
  OBVIOUS
<1>2. PICK msgs \in Seq(Message) : msgs = <<>>
  BY WrittenFacts, MessageFacts
<1>3. /\ OnlyOne(conn, d, k) /\ d[k].pm = conn[k].pm
      /\ conn[k].pm => d[k].toPm = conn[k].toPm \o msgs
  <2>1. \A j, e : j = proc[p].conn /\ e = Replying(p, msgs) =>
          /\ OnlyOne(conn, e, j) /\ e[j].pm = conn[j].pm
          /\ conn[j].pm => e[j].toPm = conn[j].toPm \o msgs
    BY ReplyEach, Zenon
  <2>2. d = Replying(p, msgs)
    BY <1>1, <1>2
  <2> QED BY <1>1, <2>1, <2>2
<1>4. /\ \A i \in DOMAIN backlog : backlog[i] # k
      /\ InDialogue /\ pm.conn = k => conn[k].pm /\ conn[k].toPm = <<>>
  BY <1>1, AnswerFacts
<1>5. InDialogue /\ pm.conn = k => Unread(pm.at, d[k].toPm)
  <2>1. <<>> \o <<>> = <<>>
    BY WrittenFacts, MessageFacts
  <2> QED BY <1>2, <1>3, <1>4, <2>1 DEF Unread
<1>6. conn' = d /\ mishap' \in 0..MaxMishap
  BY <1>1, SameTypes
<1> QED BY <1>1, <1>3, <1>4, <1>5, <1>6, HangsUp

LEMMA ClosesAtOnceStep ==
  ASSUME Inv, NEW p \in Proc, Tfwinit(p) \/ Tshut(p)
  PROVE  Inv'
<1>1. /\ HasAnswer(p) /\ proc' = [proc EXCEPT ![p] = Idle] /\ Gone(Idle)
      /\ UNCHANGED <<pm, table, waiting, backlog, firewall, mishap>>
  BY GoneFacts DEF Tfwinit, Tshut, doneAtOnce
<1>2. CASE Tfwinit(p)
  <2>1. \/ conn' = Replying(p, <<>>)
        \/ conn' = clCloses(Replying(p, <<>>), proc[p].conn)
    BY <1>2 DEF Tfwinit
  <2>2. <<>> \in Seq(Message)
    BY WrittenFacts, MessageFacts
  <2>3. CASE conn' = Replying(p, <<>>)
    BY <1>1, <2>3, LeftOpen
  <2>4. CASE conn' = clCloses(Replying(p, <<>>), proc[p].conn)
    BY <1>1, <2>2, <2>4, LastReplyStep
  <2> QED BY <2>1, <2>3, <2>4
<1>3. CASE Tshut(p)
  <2>1. /\ conn' = clCloses(Replying(p, <<NameMsg("PortMaster")>>), proc[p].conn)
        /\ proc[p].op = "quit" /\ proc[p].phase = "asked" /\ Answer(p) = Ok
    BY <1>3 DEF Tshut, doneAtOnce, NameMsg
  <2>2. /\ <<NameMsg("PortMaster")>> \in Seq(Message)
        /\ <<>> \o <<NameMsg("PortMaster")>> = One(NameMsg("PortMaster"))
    BY WrittenFacts, MessageFacts
  <2>3. InDialogue /\ pm.conn = proc[p].conn =>
          Unread(pm.at, <<>> \o <<NameMsg("PortMaster")>>)
    <3>1. Ok # AskAgain
      BY MessageFacts
    <3>2. InDialogue /\ pm.conn = proc[p].conn => pm.at = Opening[MyEvent(p)]
      BY <1>1, <2>1, <3>1, AnswerFacts
    <3>3. MyEvent(p) = "PM_QUIT"
      BY <2>1 DEF MyEvent, EventOf
    <3>4. InDialogue /\ pm.conn = proc[p].conn => pm.at = "qname"
      BY <3>2, <3>3 DEF Opening
    <3> QED BY <2>2, <3>4 DEF Unread
  <2>4. conn' = clCloses(Replying(p, <<NameMsg("PortMaster")>>), proc[p].conn)
    BY <2>1
  <2> QED BY <1>1, <2>2, <2>3, <2>4, LastReplyStep
<1> QED BY <1>2, <1>3

\* What a process tells after PM_OK is what the PortMaster goes on to read.
LEMMA RestSaid ==
  ASSUME Inv, NEW p \in Proc, proc[p].phase = "asked"
  PROVE  LET r == proc[p] IN
         /\ Rest(p) \in Seq(Message) /\ <<>> \o Rest(p) = Rest(p)
         /\ r.op \in ServerOps /\ shares(p) => Rest(p) = ShareSaid(HostOf[p], r.name, r.port)
         /\ r.op \in ServerOps /\ ~shares(p) => Rest(p) = ServerSaid(r.name, r.port)
         /\ r.op \in {"client", "wait", "remove", "purge"} => Rest(p) = One(NameMsg(r.name))
         /\ r.op = "close" => Rest(p) = One(PortMsg(r.port))
         /\ r.op = "tornName" => Rest(p) = One(Part)
         /\ r.op \in NamedOps \cup {"close"} => r.name \in Name
         /\ r.op \in ServerOps \cup {"close"} => r.port \in Port
<1> DEFINE r == proc[p]
<1>1. /\ r.op \in NamedOps \cup {"close"} => r.name \in Name
      /\ r.op \in ServerOps \cup {"close"} => r.port \in Port
  BY DEF Inv, ProcOK
<1>2. HostOf[p] \in Host /\ HostMsg(HostOf[p]) \in Message
  BY PortMasterAssumption, MessageFacts
<1>3. ASSUME r.op \in ServerOps
      PROVE  /\ NameMsg(r.name) \in Message /\ PortMsg(r.port) \in Message
             /\ ServerSaid(r.name, r.port) \in Seq(Message)
             /\ ShareSaid(HostOf[p], r.name, r.port) \in Seq(Message)
  <2>1. r.name \in Name /\ r.port \in Port
    BY <1>1, <1>3 DEF NamedOps, ServerOps
  <2> QED BY <1>2, <2>1, MessageFacts, ServerHasSaid, ShareHasSaid
<1>4. CASE r.op \in ServerOps /\ shares(p)
  <2>1. Rest(p) = <<HostMsg(HostOf[p]), NameMsg(r.name), PortMsg(r.port)>>
    BY <1>4 DEF Rest, HostMsg, NameMsg, PortMsg, ServerOps
  <2>2. <<HostMsg(HostOf[p]), NameMsg(r.name), PortMsg(r.port)>>
          = ShareSaid(HostOf[p], r.name, r.port)
    <3> HIDE DEF r
    <3> QED BY <1>2, <1>3, <1>4, TwoAndThree DEF ShareSaid, ServerSaid
  <2>3. Rest(p) = ShareSaid(HostOf[p], r.name, r.port) /\ Rest(p) \in Seq(Message)
    BY <1>3, <1>4, <2>1, <2>2
  <2>4. <<>> \o Rest(p) = Rest(p)
    BY <2>3, ConcatEmptySeq
  <2>5. r.op \notin {"client", "wait", "remove", "purge", "close", "tornName"}
    BY <1>4 DEF ServerOps
  <2> QED BY <1>1, <1>4, <2>3, <2>4, <2>5
<1>5. CASE r.op \in ServerOps /\ ~shares(p)
  <2>1. Rest(p) = <<NameMsg(r.name), PortMsg(r.port)>>
    BY <1>5 DEF Rest, NameMsg, PortMsg, ServerOps
  <2>2. <<NameMsg(r.name), PortMsg(r.port)>> = ServerSaid(r.name, r.port)
    <3> HIDE DEF r
    <3> QED BY <1>3, <1>5, TwoAndThree DEF ServerSaid
  <2>3. Rest(p) = ServerSaid(r.name, r.port) /\ Rest(p) \in Seq(Message)
    BY <1>3, <1>5, <2>1, <2>2
  <2>4. <<>> \o Rest(p) = Rest(p)
    BY <2>3, ConcatEmptySeq
  <2>5. r.op \notin {"client", "wait", "remove", "purge", "close", "tornName"}
    BY <1>5 DEF ServerOps
  <2> QED BY <1>1, <1>5, <2>3, <2>4, <2>5
<1>6. CASE r.op \in {"client", "wait", "remove", "purge"}
  <2>1. NameMsg(r.name) \in Message
    BY <1>1, <1>6, MessageFacts DEF NamedOps
  <2>2. Rest(p) = <<NameMsg(r.name)>>
    BY <1>6 DEF Rest, NameMsg
  <2>3. Rest(p) = One(NameMsg(r.name)) /\ Rest(p) \in Seq(Message)
    BY <2>1, <2>2, OneFacts
  <2>4. <<>> \o Rest(p) = Rest(p)
    BY <2>3, ConcatEmptySeq
  <2>5. r.op \notin ServerOps \cup {"close", "tornName"}
    BY <1>6 DEF ServerOps
  <2> QED BY <1>1, <1>6, <2>3, <2>4, <2>5
<1>7. CASE r.op = "close"
  <2>1. PortMsg(r.port) \in Message
    BY <1>1, <1>7, MessageFacts
  <2>2. Rest(p) = <<PortMsg(r.port)>>
    BY <1>7 DEF Rest, PortMsg
  <2>3. Rest(p) = One(PortMsg(r.port)) /\ Rest(p) \in Seq(Message)
    BY <2>1, <2>2, OneFacts
  <2>4. <<>> \o Rest(p) = Rest(p)
    BY <2>3, ConcatEmptySeq
  <2>5. r.op \notin ServerOps \cup {"client", "wait", "remove", "purge", "tornName"}
    BY <1>7 DEF ServerOps
  <2> QED BY <1>1, <1>7, <2>3, <2>4, <2>5
<1>9. CASE r.op = "tornName"
  <2>1. Rest(p) = <<Part>>
    BY <1>9 DEF Rest
  <2>5. PICK part : part = Part
    OBVIOUS
  <2>6. part \in Message
    BY <2>5, MessageFacts
  <2>7. One(part) = <<part>> /\ One(part) \in Seq(Message)
    BY <2>6, OneFacts
  <2>2. Rest(p) = One(Part) /\ Rest(p) \in Seq(Message)
    BY <2>1, <2>5, <2>7
  <2>3. <<>> \o Rest(p) = Rest(p)
    BY <2>2, ConcatEmptySeq
  <2>4. r.op \notin ServerOps \cup {"client", "wait", "remove", "purge", "close"}
    BY <1>9 DEF ServerOps
  <2> QED BY <1>1, <1>9, <2>2, <2>3, <2>4
<1>8. CASE r.op \notin ServerOps \cup {"client", "wait", "remove", "purge", "close", "tornName"}
  <2>1. Rest(p) = <<>>
    BY <1>8 DEF Rest, ServerOps
  <2>2. <<>> \in Seq(Message) /\ <<>> \o <<>> = <<>>
    BY WrittenFacts, MessageFacts
  <2> QED BY <1>1, <1>8, <2>1, <2>2
<1> QED BY <1>4, <1>5, <1>6, <1>7, <1>8, <1>9

\* A process answers and goes on with its call.
LEMMA ReplyStep ==
  ASSUME Inv, NEW p \in Proc, HasAnswer(p), NEW msgs \in Seq(Message), NEW r \in ProcRec,
         conn' = Replying(p, msgs), proc' = [proc EXCEPT ![p] = r],
         r.phase \in {"asked", "told"}, r.op = proc[p].op, r.conn = proc[p].conn,
         r.name = proc[p].name, r.port = proc[p].port, r.listening = proc[p].listening,
         UNCHANGED <<pm, table, waiting, backlog, firewall, mishap>>,
         NEW m, m = <<>> \o msgs, NEW a, a = Tail(conn[proc[p].conn].toCl),
         InDialogue /\ pm.conn = proc[p].conn => Unread(pm.at, m) /\ Talks(p, pm.at, m, a)'
  PROVE  Inv'
<1>1. PICK k : k = proc[p].conn
  OBVIOUS
<1>2. PICK d : d = Replying(p, msgs)
  OBVIOUS
<1>3. /\ OnlyOne(conn, d, k) /\ d[k].cl /\ d[k].pm = conn[k].pm
      /\ d[k].toCl = a
      /\ d[k].toPm = IF conn[k].pm THEN conn[k].toPm \o msgs ELSE conn[k].toPm
  BY <1>1, <1>2, ReplyFacts
<1>4. conn' = d
  BY <1>2
<1>5. /\ \A i \in DOMAIN backlog : backlog[i] # k
      /\ InDialogue /\ pm.conn = k => conn[k].pm /\ conn[k].toPm = <<>>
  BY <1>1, AnswerFacts
<1>6. proc'[p] = r /\ ProcOK(p) /\ proc[p].phase \in {"asked", "told"}
  BY DEF Inv, Types, HasAnswer, Calling
<1>7. ProcOK(p)'
  BY <1>1, <1>3, <1>4, <1>6 DEF ProcOK
<1>8. InDialogue /\ pm.conn = k =>
            /\ Unread(pm.at, conn'[k].toPm)
            /\ Talks(p, pm.at, conn[pm.conn].toPm, conn[pm.conn].toCl)'
  <2> SUFFICES ASSUME InDialogue, pm.conn = k
               PROVE  /\ Unread(pm.at, conn'[k].toPm)
                      /\ Talks(p, pm.at, conn[pm.conn].toPm, conn[pm.conn].toCl)'
    OBVIOUS
  <2>1. Unread(pm.at, m) /\ Talks(p, pm.at, m, a)'
    BY <1>1
  <2>2. d[k].toPm = m /\ d[k].toCl = a
    BY <1>3, <1>5
  <2>3. (conn[pm.conn].toPm)' = m /\ (conn[pm.conn].toCl)' = a
    BY <1>4, <2>2
  <2> QED BY <1>4, <2>1, <2>2, <2>3
<1>9. mishap' \in 0..MaxMishap
  BY SameTypes
<1>10. OnlyOne(conn, conn', k) /\ conn'[k].pm = conn[k].pm
  BY <1>3, <1>4
<1> QED BY <1>1, <1>5, <1>7, <1>8, <1>9, <1>10, OwnStep

LEMMA ResendStep ==
  ASSUME Inv, NEW p \in Proc, Resend(p)
  PROVE  Inv'
<1>1. /\ HasAnswer(p) /\ proc[p].phase = "asked" /\ Answer(p)[1] = "PM_RESEND"
      /\ conn' = Replying(p, <<EventMsg(MyEvent(p))>>)
      /\ UNCHANGED <<pm, table, waiting, backlog, firewall, proc, mishap>>
  BY DEF Resend, EventMsg, MyEvent
<1>2. PICK r : r = proc[p]
  OBVIOUS
<1>3. r \in ProcRec /\ proc' = [proc EXCEPT ![p] = r]
  BY <1>1, <1>2, TypesFields DEF Inv, Types
<1>4. EventMsg(MyEvent(p)) \in Message /\ MyEvent(p) \in Events
  BY MessageFacts, MyEventType
<1>5. PICK msgs, m, a : /\ msgs = <<EventMsg(MyEvent(p))>> /\ m = One(EventMsg(MyEvent(p)))
                        /\ a = Tail(conn[proc[p].conn].toCl)
  OBVIOUS
<1>6. msgs \in Seq(Message) /\ m = <<>> \o msgs
  BY <1>4, <1>5, WrittenFacts
<1>7. ASSUME InDialogue, pm.conn = proc[p].conn
      PROVE  Unread(pm.at, m) /\ Talks(p, pm.at, m, a)'
  <2>1. pm.at = "event" /\ conn[proc[p].conn].toCl = One(AskAgain)
    <3>1. Ok[1] # "PM_RESEND"
      BY MessageFacts
    <3> QED BY <1>1, <1>7, <3>1, AnswerFacts
  <2>2. a = <<>>
    BY <1>5, <2>1, OkSaid
  <2> QED BY <1>1, <1>4, <1>5, <2>1, <2>2 DEF Unread, Talks, Asked, MyEvent
<1>8. conn' = Replying(p, msgs)
  BY <1>1, <1>5
<1> QED BY <1>1, <1>2, <1>3, <1>5, <1>6, <1>7, <1>8, ReplyStep

LEMMA TellRestStep ==
  ASSUME Inv, NEW p \in Proc, TellRest(p)
  PROVE  Inv'
<1>1. /\ HasAnswer(p) /\ proc[p].phase = "asked" /\ Answer(p) = Ok
      /\ proc[p].op \notin {"quit", "fwinit"}
      /\ conn' = Replying(p, Rest(p)) /\ proc' = [proc EXCEPT ![p].phase = "told"]
      /\ UNCHANGED <<pm, table, waiting, backlog, firewall, mishap>>
  BY DEF TellRest
<1>2. PICK r : r = [proc[p] EXCEPT !.phase = "told"]
  OBVIOUS
<1>3. proc[p] \in ProcRec /\ proc \in [Proc -> ProcRec]
  BY TypesFields DEF Inv, Types
<1>4. /\ r \in ProcRec /\ r.phase = "told" /\ r.op = proc[p].op /\ r.conn = proc[p].conn
      /\ r.name = proc[p].name /\ r.port = proc[p].port /\ r.listening = proc[p].listening
  BY <1>2, <1>3 DEF ProcRec
<1>5. proc' = [proc EXCEPT ![p] = r] /\ proc'[p] = r
  BY <1>1, <1>2, <1>3
<1>6. PICK msgs, a : msgs = Rest(p) /\ a = Tail(conn[proc[p].conn].toCl)
  OBVIOUS
<1>7. msgs \in Seq(Message) /\ msgs = <<>> \o msgs
  BY <1>1, <1>6, RestSaid
<1>8. ASSUME InDialogue, pm.conn = proc[p].conn
      PROVE  Unread(pm.at, msgs) /\ Talks(p, pm.at, msgs, a)'
  <2>1. /\ conn[proc[p].conn].toCl = One(Ok) /\ MyEvent(p) \in DOMAIN Opening
        /\ pm.at = Opening[MyEvent(p)] /\ pm.share = None
    <3>1. Ok # AskAgain
      BY MessageFacts
    <3> QED BY <1>1, <1>8, <3>1, AnswerFacts
  <2>2. a = <<>> /\ UNCHANGED pm
    BY <1>1, <1>6, <2>1, OkSaid
  <2>3. /\ r.op \in ServerOps /\ shares(p) => msgs = ShareSaid(HostOf[p], r.name, r.port)
        /\ r.op \in ServerOps /\ ~shares(p) => msgs = ServerSaid(r.name, r.port)
        /\ r.op \in {"client", "wait", "remove", "purge"} => msgs = One(NameMsg(r.name))
        /\ r.op = "close" => msgs = One(PortMsg(r.port))
        /\ r.op = "tornName" => msgs = One(Part)
        /\ r.op \in NamedOps \cup {"close"} => r.name \in Name
        /\ r.op \in ServerOps \cup {"close"} => r.port \in Port
    BY <1>1, <1>4, <1>6, RestSaid
  <2>4. HostOf[p] \in Host
    BY PortMasterAssumption
  <2>5. CASE r.op \in ServerOps
    <3>1. pm.at = IF shares(p) THEN "host" ELSE "name"
      BY <1>4, <2>1, <2>5 DEF MyEvent, EventOf, Opening, ServerOps
    <3>2. r.name \in Name /\ r.port \in Port
      BY <2>3, <2>5 DEF ServerOps, NamedOps
    <3> QED BY <1>4, <1>5, <2>2, <2>3, <2>4, <2>5, <2>1, <3>1, <3>2
            DEF Unread, Talks, Told, ShareOf, shares
  <2>6. CASE r.op \in {"client", "wait", "remove", "purge", "close"}
    <3>1. /\ r.op = "client" => pm.at = "cname"
          /\ r.op = "wait" => pm.at = "wname"
          /\ r.op \in {"remove", "purge"} => pm.at = "rname"
          /\ r.op = "close" => pm.at = "cport"
      BY <1>4, <2>1, <2>6 DEF MyEvent, EventOf, Opening
    <3>2. r.name \in Name /\ (r.op = "close" => r.port \in Port)
      BY <2>3, <2>6 DEF NamedOps
    <3> QED BY <1>4, <1>5, <2>2, <2>3, <2>6, <3>1, <3>2 DEF Unread, Talks, Told
  <2>8. CASE r.op = "tornName"
    <3>1. pm.at = "cname"
      BY <1>4, <2>1, <2>8 DEF MyEvent, EventOf, Opening
    <3> QED BY <1>4, <1>5, <2>2, <2>3, <2>8, <3>1 DEF Unread, Talks, Told
  <2>7. CASE r.op \notin ServerOps \cup {"client", "wait", "remove", "purge", "close", "tornName"}
    <3>1. MyEvent(p) \notin DOMAIN Opening
      BY <1>1, <1>4, <2>7 DEF MyEvent, EventOf, Opening, ServerOps
    <3> QED BY <2>1, <3>1
  <2> QED BY <2>5, <2>6, <2>7, <2>8
<1>9. conn' = Replying(p, msgs)
  BY <1>1, <1>6
<1>10. proc' = [proc EXCEPT ![p] = r]
  BY <1>5
<1>11. UNCHANGED <<pm, table, waiting, backlog, firewall, mishap>> /\ HasAnswer(p)
  BY <1>1
<1> QED BY <1>4, <1>6, <1>7, <1>8, <1>9, <1>10, <1>11, ReplyStep

\* A program that sends the rest of its event, or of the name, goes on like a client.
LEMMA RestComes ==
  ASSUME Inv, NEW p \in Proc, SendRest(p), NEW k, k = proc[p].conn
  PROVE  /\ k \in Conn /\ conn[k].pm /\ InDialogue /\ pm.conn = k
         /\ \A i \in DOMAIN backlog : backlog[i] # k
         /\ proc[p].op \in TornOps /\ proc[p].phase \in {"asked", "told"}
         /\ proc' = [proc EXCEPT ![p].op = "client"]
         /\ UNCHANGED <<pm, table, waiting, backlog, firewall, mishap>>
         /\ Talks(p, pm.at, conn[k].toPm, conn[k].toCl) /\ conn[k].toPm # <<>>
<1>1. /\ proc[p].op \in TornOps /\ proc[p].phase \in {"asked", "told"} /\ pm.conn = k
      /\ InDialogue /\ Busy /\ conn[k].toPm # <<>>
      /\ proc' = [proc EXCEPT ![p].op = "client"]
      /\ UNCHANGED <<pm, table, waiting, backlog, firewall, mishap>>
  BY DEF SendRest, Calling, HalfRead, InDialogue, Busy
<1> QED BY <1>1 DEF Inv, ListInv, DialogueInv

LEMMA SendRestStep ==
  ASSUME Inv, NEW p \in Proc, SendRest(p)
  PROVE  Inv'
<1>1. PICK k, r, m : /\ k = proc[p].conn /\ r = [proc[p] EXCEPT !.op = "client"]
                     /\ m = IF pm.at = "event" THEN One(EventMsg("PM_CLIENT"))
                            ELSE One(NameMsg(proc[p].name))
  OBVIOUS
<1>2. /\ k \in Conn /\ conn[k].pm /\ InDialogue /\ pm.conn = k
      /\ \A i \in DOMAIN backlog : backlog[i] # k
      /\ proc[p].op \in TornOps /\ proc[p].phase \in {"asked", "told"}
      /\ proc' = [proc EXCEPT ![p].op = "client"]
      /\ UNCHANGED <<pm, table, waiting, backlog, firewall, mishap>>
      /\ Talks(p, pm.at, conn[k].toPm, conn[k].toCl) /\ conn[k].toPm # <<>>
  BY <1>1, RestComes
<1>3. proc[p] \in ProcRec /\ ProcOK(p) /\ conn \in Conns /\ proc \in [Proc -> ProcRec]
  BY TypesFields DEF Inv, Types
<1>4. /\ r \in ProcRec /\ r.conn = k /\ r.port = proc[p].port /\ r.phase = proc[p].phase
      /\ r.op = "client" /\ r.name = proc[p].name /\ r.listening = proc[p].listening
  BY <1>1, <1>3 DEF ProcRec, Op
<1>5. proc' = [proc EXCEPT ![p] = r] /\ proc'[p] = r
  BY <1>1, <1>2, <1>3
<1>6. proc[p].name \in Name /\ ~proc[p].listening /\ conn[k].cl
  BY <1>1, <1>2, <1>3 DEF ProcOK, NamedOps, TornOps
<1>7. /\ pm.at = "event" => m = One(EventMsg("PM_CLIENT"))
      /\ pm.at # "event" => m = One(NameMsg(r.name))
      /\ m \in Seq(Message) /\ pm.at \in {"event", "cname"}
  <2>1. "PM_CLIENT" \in Events
    BY DEF Events
  <2>2. EventMsg("PM_CLIENT") \in Message /\ NameMsg(r.name) \in Message
    BY <1>4, <1>6, <2>1, MessageFacts
  <2> QED BY <1>1, <1>4, <2>2, OneMessage DEF SendRest, HalfRead
<1>8. conn' = [conn EXCEPT ![k].toPm = m]
  <2>1. /\ pm.at = "event" => m = << <<"PM_CLIENT">> >>
        /\ pm.at # "event" => m = << <<"name", proc[p].name>> >>
    <3>1. /\ One(EventMsg("PM_CLIENT")) = <<EventMsg("PM_CLIENT")>>
          /\ One(NameMsg(proc[p].name)) = <<NameMsg(proc[p].name)>>
      <4>1. "PM_CLIENT" \in Events
        BY DEF Events
      <4>2. EventMsg("PM_CLIENT") \in Message /\ NameMsg(proc[p].name) \in Message
        BY <1>6, <4>1, MessageFacts
      <4> QED BY <4>2, OneFacts
    <3> QED BY <1>1, <3>1 DEF EventMsg, NameMsg
  <2> QED BY <1>2, <2>1 DEF SendRest
<1>9. /\ OnlyOne(conn, conn', k) /\ conn'[k].pm = conn[k].pm /\ conn'[k].cl
      /\ conn'[k].toPm = m /\ conn'[k].toCl = conn[k].toCl
  <2>1. conn[k] \in ConnRec
    BY <1>2, <1>3 DEF Conns
  <2>2. [conn[k] EXCEPT !.toPm = m] \in ConnRec
    BY <1>7, <2>1 DEF ConnRec
  <2> QED BY <1>2, <1>3, <1>6, <1>8, <2>1, <2>2 DEF OnlyOne, Conns, ConnRec
<1>10. ProcOK(p)'
  <2>1. r.phase \in {"asked", "told"} /\ r.name \in Name /\ ~r.listening
    BY <1>2, <1>4, <1>6
  <2>2. r.conn \in Conn /\ r.conn # None /\ conn'[r.conn].cl
    BY <1>2, <1>3, <1>4, <1>9, PortMasterAssumption
  <2> HIDE DEF NamedOps
  <2>3. r.op = "client" /\ r.op \notin ServerOps \cup {"close", "none"}
    BY <1>4 DEF ServerOps
  <2> QED BY <1>5, <2>1, <2>2, <2>3 DEF ProcOK
<1>11. Unread(pm.at, m)
  <2>1. CASE pm.at = "event"
    BY <1>7, <2>1 DEF Unread, Events
  <2>2. CASE pm.at = "cname"
    BY <1>4, <1>6, <1>7, <2>2 DEF Unread
  <2> QED BY <1>7, <2>1, <2>2
<1>12. Talks(p, pm.at, conn[pm.conn].toPm, conn[pm.conn].toCl)'
  <2>1. (conn[pm.conn].toPm)' = m /\ (conn[pm.conn].toCl)' = conn[k].toCl
    BY <1>2, <1>9
  <2>2. CASE pm.at = "event"
    <3>1. proc[p].phase = "asked" /\ conn[k].toCl = <<>>
      BY <1>2, <2>2 DEF Talks, Asked, Told
    <3>2. MyEvent(p)' = "PM_CLIENT"
      BY <1>4, <1>5 DEF MyEvent, EventOf
    <3> QED BY <1>2, <1>4, <1>5, <1>7, <2>1, <2>2, <3>1, <3>2 DEF Talks, Asked
  <2>3. CASE pm.at = "cname"
    <3>1. proc[p].phase = "told" /\ conn[k].toCl = <<>>
      BY <1>2, <2>3 DEF Talks, Asked, Told
    <3> QED BY <1>2, <1>4, <1>5, <1>7, <2>1, <2>3, <3>1 DEF Talks, Told
  <2> QED BY <1>7, <2>2, <2>3
<1>13. mishap' \in 0..MaxMishap
  BY <1>2, SameTypes
<1> QED BY <1>1, <1>2, <1>4, <1>5, <1>9, <1>10, <1>11, <1>12, <1>13, OwnStep

-----------------------------------------------------------------------------
(* Types *)

LEMMA InitInv ==
  ASSUME Init
  PROVE  Inv
<1>1. firewall \subseteq -128..255
  BY FirewallType DEF Init
<1>2. Types
  <2>1. conn \in Conns
    BY FreeRec DEF Init, Conns
  <2>2. proc \in [Proc -> ProcRec]
    BY DEF Init, Idle, ProcRec
  <2>3. <<>> \in Seq(EntryRec) /\ <<>> \in Seq(WaitRec) /\ <<>> \in Seq(Conn)
    OBVIOUS
  <2>4. table \in Seq(EntryRec) /\ waiting \in Seq(WaitRec) /\ backlog \in Seq(Conn)
    BY <2>3 DEF Init
  <2>5. pm \in PmRec
    BY AcceptingRec DEF Init
  <2>6. mishap \in 0..MaxMishap
    BY PortMasterAssumption DEF Init
  <2> QED BY <1>1, <2>1, <2>2, <2>4, <2>5, <2>6 DEF Types
<1>3. \A p \in Proc : ProcOK(p)
  BY DEF Init, ProcOK, Idle
<1>4. ProcsApart
  BY DEF Init, ProcsApart, Idle
<1>5. DOMAIN backlog = {} /\ DOMAIN waiting = {}
  BY DEF Init
<1>6. ListInv /\ BacklogInv
  BY <1>5, AcceptingRec DEF Init, ListInv, BacklogInv, Busy
<1>7. DialogueInv
  BY AcceptingRec DEF Init, DialogueInv, InDialogue
<1> QED BY <1>2, <1>3, <1>4, <1>6, <1>7 DEF Inv

LEMMA NextInv ==
  ASSUME Inv, [Next]_vars
  PROVE  Inv'
<1>1. CASE PmStep \/ PmKilled \/ Sopen_prtmstr
  BY <1>1, PmStepInv
<1>2. ASSUME NEW p \in Proc,
             Call(p) \/ spmchk(p) \/ Sclose(p) \/ CallNext(p) \/ Refused(p) \/ Resend(p)
               \/ TellRest(p) \/ SendRest(p) \/ Tfwinit(p) \/ Tshut(p)
      PROVE  Inv'
  BY <1>2, CallStep, CheckStep, SclosesStep, CallNextStep, RefusedStep, ResendStep,
     TellRestStep, SendRestStep, ClosesAtOnceStep
<1>3. ASSUME NEW p \in Proc,
             Sopen_server(p) \/ Sopen_client(p) \/ Srmsrvr(p) \/ SclosePM(p)
               \/ printPMtable(p) \/ LosesTouch(p) \/ Kill(p)
      PROVE  Inv'
  BY <1>3, SopenServerStep, EndsWithStep, LosesTouchStep, KillStep
     DEF Sopen_client, Srmsrvr, SclosePM, printPMtable
<1>4. CASE UNCHANGED vars
  <2>1. UNCHANGED <<pm, table, waiting, backlog, firewall, conn, proc, mishap>>
    BY <1>4 DEF vars
  <2>2. Types' /\ (\A p \in Proc : ProcOK(p)') /\ ProcsApart' /\ ListInv'
    BY <2>1 DEF Inv, Types, ProcOK, ProcsApart, ListInv, Busy
  <2>3. BacklogInv'
    BY <2>1 DEF Inv, BacklogInv, MyEvent
  <2>4. ASSUME NEW p \in Proc, NEW m, NEW a
        PROVE  Talks(p, pm.at, m, a) => Talks(p, pm.at, m, a)'
    BY <2>1 DEF Talks, Asked, Told, MyEvent, ShareOf, shares
  <2>5. DialogueInv'
    BY <2>1, <2>4 DEF Inv, DialogueInv, InDialogue
  <2> QED BY <2>2, <2>3, <2>5 DEF Inv
<1> QED BY <1>1, <1>2, <1>3, <1>4 DEF Next

\* Every variable of the PortMaster and of the processes has values of its type: what
\* either side reads is a message that the other can have sent, whoever gave up before
\* (Sreadbytes and Swrite on both sides); the PortMaster serves and keeps waiting only
\* connections that it has not closed.
THEOREM PortMasterTypesCorrect == Spec => []PortMasterTypeOK
<1>1. Init => Inv
  BY InitInv
<1>2. Inv /\ [Next]_vars => Inv'
  BY NextInv
<1>3. Inv => PortMasterTypeOK
  <2> SUFFICES ASSUME Inv
               PROVE  PortMasterTypeOK
    OBVIOUS
  <2>1. InDialogue => conn[pm.conn].pm
    BY DEF Inv, ListInv, InDialogue, Busy
  <2>2. \A i \in DOMAIN waiting : conn[waiting[i].conn].pm
    BY DEF Inv, ListInv
  <2> QED BY <2>1, <2>2 DEF Inv, Types, PortMasterTypeOK, PmRec, EntryRec, WaitRec, ProcRec,
             Conns, ConnRec
<1> QED BY <1>1, <1>2, <1>3, PTL DEF Spec

-----------------------------------------------------------------------------
(* The invariant of the table, as long as nothing has gone wrong *)

\* A process whose entry is in the table: a server that listens, until its PM_CLOSE was
\* answered, and one whose port was just read.
OnTable(p) ==
  \/ /\ proc[p].listening
     /\ ~(proc[p].op = "close" /\ proc[p].phase = "told" /\ conn[proc[p].conn].toCl # <<>>)
  \/ pm.at = "final" /\ proc[p].conn = pm.conn

PortsApart == \A i, j \in DOMAIN table : table[i].port = table[j].port => i = j

Entered == \A p \in Proc : OnTable(p) => \E i \in DOMAIN table : table[i] = EntryOf(p)

Owned == \A i \in DOMAIN table : \E p \in Proc : OnTable(p) /\ table[i] = EntryOf(p)

\* The PortMaster has closed the connection of a process with its last answer.
LastAnswered(p) ==
  LET k == proc[p].conn IN
  /\ proc[p].phase = "told" /\ ~conn[k].pm /\ conn[k].toCl # <<>>
  /\ proc[p].op \in ServerOps => conn[k].toCl = One(Sorry)

\* A server that comes or goes is waiting for its turn, or in its dialogue, or it has
\* its last answer.
Attended ==
  \A p \in Proc : Calling(p) /\ proc[p].op \in ServerOps \cup {"close"} =>
     \/ InBacklog(proc[p].conn)
     \/ InDialogue /\ pm.conn = proc[p].conn
     \/ LastAnswered(p)

\* At these places there is a client at the other end.
Needs(at, m) ==
  \/ at = "event" /\ m # <<>>
  \/ at \in {"host", "name", "port", "cport"}
  \/ at = "final" /\ m = <<>>

NoStrays ==
  /\ \A i \in DOMAIN backlog :
       conn[backlog[i]].toPm # <<>> => \E p \in Proc : proc[p].conn = backlog[i]
  /\ InDialogue /\ Needs(pm.at, conn[pm.conn].toPm) => \E p \in Proc : proc[p].conn = pm.conn

\* Nobody has been told of a server that waits at the head of the list.
HeadInv ==
  waiting # <<>> =>
    /\ pm.at \in {"final", "tell"} =>
         Head(waiting).name = pm.name \/ Entries(Head(waiting).name) = {}
    /\ pm.at \notin {"final", "tell", "tellMore", "spin"} => Entries(Head(waiting).name) = {}

TellInv ==
  pm.at \in {"final", "tell", "tellMore"} =>
    \E i \in DOMAIN table :
      table[i] = [name |-> pm.name, share |-> pm.share, port |-> pm.port]

Truth == /\ pm.at # "dead" /\ PortsApart /\ Entered /\ Owned /\ Attended /\ NoStrays
         /\ HeadInv /\ TellInv

TruthInv == mishap = 0 => Truth

LEMMA GoesWrong ==
  ASSUME Types, mishap' = 0
  PROVE  ~goesWrong /\ (UNCHANGED mishap => mishap = 0)
BY PortMasterAssumption DEF Types, goesWrong

\* The step of a process leaves OnTable as it is for every other process, and so does a
\* step of the PortMaster.
LEMMA SameOnTable ==
  ASSUME NEW p, proc'[p] = proc[p], pm'.at = "final" => pm = pm',
         pm.at = "final" /\ pm'.at # "final" => proc[p].conn # pm.conn,
         proc[p].phase = "told" /\ proc[p].op = "close" =>
            conn'[proc[p].conn] = conn[proc[p].conn]
  PROVE  OnTable(p)' = OnTable(p) /\ EntryOf(p)' = EntryOf(p)
BY DEF OnTable, EntryOf, shares

\* The entries stay.
LEMMA SameTable ==
  ASSUME Truth, UNCHANGED table, \A p \in Proc : OnTable(p)' = OnTable(p)
                                   /\ (OnTable(p) => EntryOf(p)' = EntryOf(p))
  PROVE  PortsApart' /\ Entered' /\ Owned'
<1>1. PortsApart'
  BY DEF Truth, PortsApart
<1>2. Entered'
  BY DEF Truth, Entered
<1>3. Owned'
  <2> SUFFICES ASSUME NEW i \in DOMAIN table
               PROVE  \E p \in Proc : OnTable(p)' /\ table[i] = EntryOf(p)'
    BY DEF Owned
  <2>1. PICK p \in Proc : OnTable(p) /\ table[i] = EntryOf(p)
    BY DEF Truth, Owned
  <2> QED BY <2>1
<1> QED BY <1>1, <1>2, <1>3

\* The list of the clients that wait, when it and the table stay.
LEMMA SameWaiting ==
  ASSUME Truth, UNCHANGED <<table, waiting>>,
         pm'.at \in {"final", "tell", "tellMore"} =>
            /\ pm'.name = pm.name /\ pm'.share = pm.share /\ pm'.port = pm.port
            /\ pm.at = "final" \/ pm'.at = pm.at,
         pm.at \in {"final", "tell", "tellMore", "spin"} =>
            pm'.at \in {"final", "tell", "tellMore", "spin"}
  PROVE  HeadInv' /\ TellInv'
<1>1. TellInv'
  <2> SUFFICES ASSUME pm'.at \in {"final", "tell", "tellMore"}
               PROVE  \E i \in DOMAIN table : table[i] = [name |-> pm'.name,
                                                share |-> pm'.share, port |-> pm'.port]
    BY DEF TellInv
  <2>1. pm.at \in {"final", "tell", "tellMore"}
    OBVIOUS
  <2> QED BY <2>1 DEF Truth, TellInv
<1>2. HeadInv'
  <2> SUFFICES ASSUME waiting # <<>>
               PROVE  /\ pm'.at \in {"final", "tell"} =>
                           Head(waiting).name = pm'.name \/ Entries(Head(waiting).name)' = {}
                      /\ pm'.at \notin {"final", "tell", "tellMore", "spin"} =>
                           Entries(Head(waiting).name)' = {}
    BY DEF HeadInv
  <2>1. Entries(Head(waiting).name)' = Entries(Head(waiting).name)
    BY DEF Entries
  <2> QED BY <2>1 DEF Truth, HeadInv
<1> QED BY <1>1, <1>2

\* The connection of a process in a call.
LEMMA CallConn ==
  ASSUME Inv, NEW p \in Proc, proc[p].phase \in {"asked", "told"} \/ proc[p].conn # None
  PROVE  proc[p].conn \in Conn /\ proc[p].conn # None /\ conn[proc[p].conn].cl
<1>1. proc[p].phase \in {"asked", "told", "spin"}
  BY TypesFields DEF Inv, ProcOK, ProcRec
<1> QED BY <1>1, CallerFacts

\* A step of a dialogue that leaves the table as it is.
LEMMA DialogueTruth ==
  ASSUME Inv, Truth, UNCHANGED <<table, backlog, proc>>, NEW k, k = pm.conn, Busy,
         OnlyOne(conn, conn', k), pm'.at \notin {"dead", "final"},
         pm.at = "final" => \A p \in Proc : proc[p].conn # k,
         \A p \in Proc : proc[p].conn = k =>
            /\ ~(proc[p].phase = "told" /\ proc[p].op = "close")
            /\ Calling(p) /\ proc[p].op \in ServerOps \cup {"close"} =>
                 (InDialogue' /\ pm'.conn = k) \/ LastAnswered(p)',
         InDialogue' => /\ pm'.conn = k
                        /\ Needs(pm'.at, conn'[k].toPm) => \E p \in Proc : proc[p].conn = k
  PROVE  pm'.at # "dead" /\ PortsApart' /\ Entered' /\ Owned' /\ Attended' /\ NoStrays'
<1>1. \A j \in Conn \ {k} : conn'[j] = conn[j]
  BY DEF OnlyOne
<1>2. \A p \in Proc : OnTable(p)' = OnTable(p) /\ EntryOf(p)' = EntryOf(p)
  <2> SUFFICES ASSUME NEW p \in Proc
               PROVE  OnTable(p)' = OnTable(p) /\ EntryOf(p)' = EntryOf(p)
    OBVIOUS
  <2>1. proc[p].phase = "told" /\ proc[p].op = "close" =>
          conn'[proc[p].conn] = conn[proc[p].conn]
    BY <1>1, CallConn
  <2> QED BY <2>1, SameOnTable
<1>3. PortsApart' /\ Entered' /\ Owned'
  BY <1>2, SameTable
<1>4. Attended'
  <2> SUFFICES ASSUME NEW p \in Proc, Calling(p), proc[p].op \in ServerOps \cup {"close"}
               PROVE  \/ InBacklog(proc[p].conn)
                      \/ InDialogue' /\ pm'.conn = proc[p].conn
                      \/ LastAnswered(p)'
    BY DEF Attended, Calling, InBacklog
  <2>1. CASE proc[p].conn = k
    BY <2>1
  <2>2. CASE proc[p].conn # k
    <3>1. conn'[proc[p].conn] = conn[proc[p].conn]
      BY <1>1, <2>2, CallConn DEF Calling
    <3>2. InBacklog(proc[p].conn) \/ LastAnswered(p)
      BY <2>2 DEF Truth, Attended
    <3> QED BY <3>1, <3>2 DEF LastAnswered
  <2> QED BY <2>1, <2>2
<1>5. NoStrays'
  <2>1. \A i \in DOMAIN backlog : conn'[backlog[i]] = conn[backlog[i]]
    BY <1>1, TypesFields DEF Inv, ListInv
  <2> QED BY <2>1 DEF Truth, NoStrays
<1> QED BY <1>3, <1>4, <1>5

\* Who talks with the PortMaster when it reads an event.
LEMMA EventTruth ==
  ASSUME Inv, pm.at = "event", HasInput, NEW p \in Proc, proc[p].conn = pm.conn
  PROVE  /\ proc[p].phase = "asked" /\ Input[1] = MyEvent(p)
         /\ proc[p].op \in ServerOps \cup {"close"} => Input[1] \in DOMAIN Opening
<1>1. InDialogue /\ conn[pm.conn].toPm # <<>>
  BY DEF InDialogue, HasInput
<1>2. Talks(p, pm.at, conn[pm.conn].toPm, conn[pm.conn].toCl)
  BY <1>1 DEF Inv, DialogueInv
<1>3. proc[p].phase = "asked" /\ conn[pm.conn].toPm = One(EventMsg(MyEvent(p)))
  BY <1>1, <1>2 DEF Talks, Asked, Told, Opening
<1>4. Input[1] = MyEvent(p)
  BY <1>3, EventSaid, MyEventType DEF Input
<1>5. proc[p].op \in ServerOps \cup {"close"} =>
        MyEvent(p) \in {"PM_SERVER", "PM_SHARE", "PM_CLOSE"}
  BY DEF MyEvent, EventOf, ServerOps
<1> QED BY <1>3, <1>4, <1>5 DEF Opening

\* The events, of which the table knows nothing.
LEMMA EventStepTruth ==
  ASSUME Inv, Truth, BeginDialogue \/ pm_table \/ pm_fwinit \/ Unknown
  PROVE  Truth'
<1>1. /\ pm.at = "event" /\ HasInput /\ Busy /\ InDialogue
      /\ UNCHANGED <<table, waiting, backlog, proc>>
  BY DEF BeginDialogue, pm_table, pm_fwinit, Unknown, Busy, InDialogue
<1>2. PICK k : k = pm.conn
  OBVIOUS
<1>3. \A p \in Proc : proc[p].conn = k =>
        /\ proc[p].phase = "asked"
        /\ proc[p].op \in ServerOps \cup {"close"} => Input[1] \in DOMAIN Opening
  BY <1>1, <1>2, EventTruth
<1>4. Needs("event", conn[k].toPm) /\ \E p \in Proc : proc[p].conn = k
  BY <1>1, <1>2 DEF Needs, HasInput, Truth, NoStrays
<1>5. /\ OnlyOne(conn, conn', k)
      /\ pm'.at \notin {"dead", "final", "tell", "tellMore"}
      /\ InDialogue' => pm'.conn = k
      /\ Input[1] \in DOMAIN Opening => InDialogue'
  <2>1. CASE BeginDialogue
    <3>1. /\ conn' = Answering(<<Ok>>) /\ pm' = [pm EXCEPT !.at = Opening[Input[1]]]
          /\ Input[1] \in DOMAIN Opening
      BY <2>1 DEF BeginDialogue, Continue
    <3>2. <<Ok>> \in Seq(Message)
      BY MessageFacts, WrittenFacts
    <3>3. OnlyOne(conn, conn', k)
      BY <1>1, <1>2, <3>1, <3>2, AnsweredOne
    <3>4. pm'.at = Opening[Input[1]] /\ pm'.conn = k
      BY <1>2, <3>1 DEF Inv, Types, PmRec
    <3> QED BY <3>1, <3>3, <3>4, OpeningFacts DEF InDialogue
  <2>2. CASE pm_table \/ pm_fwinit
    <3>1. PICK msgs \in Seq(Message) : Finish(msgs)
      <4>1. Len(table) \in Nat /\ Ok \in Message
        BY MessageFacts DEF Inv, Types
      <4>2. <<"table", Len(table)>> \in Message
        BY <4>1, MessageFacts
      <4>3. <<Ok, <<"table", Len(table)>> >> \in Seq(Message) /\ <<Ok>> \in Seq(Message)
        <5> HIDE DEF Ok, Message
        <5> QED BY <4>1, <4>2
      <4> QED BY <2>2, <4>3 DEF pm_table, pm_fwinit
    <3>2. OnlyOne(conn, conn', k) /\ pm' = Accepting
      BY <1>1, <1>2, <3>1, FinishFacts
    <3>3. Input[1] \notin DOMAIN Opening
      BY <2>2 DEF pm_table, pm_fwinit, Opening
    <3> QED BY <3>2, <3>3, AcceptingRec DEF InDialogue
  <2>3. CASE Unknown
    <3>1. <<AskAgain>> \in Seq(Message) /\ Input[1] \notin DOMAIN Opening
      BY <2>3, MessageFacts, WrittenFacts DEF Unknown, Opening
    <3>2. CASE pm.tries < MaxTry
      <4>1. pm' = [pm EXCEPT !.tries = @ + 1] /\ conn' = Answering(<<AskAgain>>)
        BY <2>3, <3>2 DEF Unknown, AskAgain
      <4>2. OnlyOne(conn, conn', k)
        BY <1>1, <1>2, <3>1, <4>1, AnsweredOne
      <4>3. pm'.at = "event" /\ pm'.conn = k
        BY <1>1, <1>2, <4>1 DEF Inv, Types, PmRec
      <4> QED BY <3>1, <4>2, <4>3
    <3>3. CASE ~(pm.tries < MaxTry)
      <4>1. Finish(<<AskAgain>>)
        BY <2>3, <3>3 DEF Unknown, AskAgain
      <4>2. OnlyOne(conn, conn', k) /\ pm' = Accepting
        BY <1>1, <1>2, <3>1, <4>1, FinishFacts
      <4> QED BY <3>1, <4>2, AcceptingRec DEF InDialogue
    <3> QED BY <3>2, <3>3
  <2> QED BY <2>1, <2>2, <2>3
<1>6. pm'.at # "dead" /\ PortsApart' /\ Entered' /\ Owned' /\ Attended' /\ NoStrays'
  BY <1>1, <1>2, <1>3, <1>4, <1>5, DialogueTruth
<1>7. HeadInv' /\ TellInv'
  BY <1>1, <1>5, SameWaiting
<1> QED BY <1>6, <1>7 DEF Truth

\* What a server says before its port.
LEMMA ReadStepTruth ==
  ASSUME Inv, Truth, ReadHost \/ ReadName
  PROVE  Truth'
<1>1. /\ pm.at \in {"host", "name"} /\ HasInput /\ Busy /\ InDialogue
      /\ UNCHANGED <<table, waiting, backlog, proc>>
  BY DEF ReadHost, ReadName, Busy, InDialogue
<1>2. PICK k : k = pm.conn
  OBVIOUS
<1>3. \A p \in Proc : proc[p].conn = k =>
        /\ proc[p].phase = "told" /\ proc[p].op \in ServerOps /\ conn[k].toCl = <<>>
        /\ conn[k].cl
  <2> SUFFICES ASSUME NEW p \in Proc, proc[p].conn = k
               PROVE  /\ proc[p].phase = "told" /\ proc[p].op \in ServerOps
                      /\ conn[k].toCl = <<>> /\ conn[k].cl
    OBVIOUS
  <2>1. Told(p, pm.at, conn[k].toPm, conn[k].toCl) /\ conn[k].toCl = <<>>
    BY <1>1, <1>2, TellsInput
  <2>2. proc[p].phase = "told" /\ proc[p].op \in ServerOps
    BY <1>1, <2>1 DEF Told
  <2> QED BY <2>1, <2>2, CallerFacts
<1>4. \E p \in Proc : proc[p].conn = k
  BY <1>1, <1>2 DEF Needs, Truth, NoStrays
<1>5. /\ OnlyOne(conn, conn', k) /\ pm'.at \notin {"dead", "final", "tell", "tellMore"}
      /\ \/ InDialogue' /\ pm'.conn = k
         \/ pm' = Accepting /\ ~conn'[k].pm
            /\ \A p \in Proc : proc[p].conn = k => conn'[k].toCl = One(Sorry)
  <2>1. ASSUME conn' = Answering(<<>>), NEW at \in {"name", "port"}, pm'.at = at,
               pm'.conn = pm.conn
        PROVE  OnlyOne(conn, conn', k) /\ InDialogue' /\ pm'.conn = k
    <3>1. <<>> \in Seq(Message)
      BY MessageFacts, WrittenFacts
    <3> QED BY <1>1, <1>2, <2>1, <3>1, AnsweredOne DEF InDialogue
  <2>2. pm \in PmRec
    BY DEF Inv, Types
  <2>3. CASE ReadHost
    <3>1. conn' = Answering(<<>>) /\ pm'.at = "name" /\ pm'.conn = pm.conn
      BY <2>2, <2>3 DEF ReadHost, PmRec
    <3> QED BY <2>1, <3>1
  <2>4. CASE ReadName /\ Entries(Input[2]) = {}
    <3>1. conn' = Answering(<<>>) /\ pm'.at = "port" /\ pm'.conn = pm.conn
      BY <2>2, <2>4 DEF ReadName, PmRec
    <3> QED BY <2>1, <3>1
  <2>5. CASE ReadName /\ Entries(Input[2]) # {}
    <3>1. Finish(<<Sorry>>)
      BY <2>5 DEF ReadName
    <3>2. <<Sorry>> \in Seq(Message) /\ <<>> \o <<Sorry>> = One(Sorry)
      BY MessageFacts, WrittenFacts
    <3>3. /\ pm' = Accepting /\ OnlyOne(conn, conn', k) /\ ~conn'[k].pm
          /\ conn[k].cl => conn'[k].toCl = conn[k].toCl \o <<Sorry>>
      BY <1>1, <1>2, <3>1, <3>2, FinishFacts
    <3>4. \A p \in Proc : proc[p].conn = k => conn'[k].toCl = One(Sorry)
      BY <1>3, <3>2, <3>3
    <3> QED BY <3>3, <3>4, AcceptingRec
  <2> QED BY <2>3, <2>4, <2>5
<1>6. \A p \in Proc : proc[p].conn = k => (InDialogue' /\ pm'.conn = k) \/ LastAnswered(p)'
  BY <1>1, <1>3, <1>5, OkSaid DEF LastAnswered
<1>7. InDialogue' => pm'.conn = k
  BY <1>5, AcceptingRec DEF InDialogue
<1>8. pm'.at # "dead" /\ PortsApart' /\ Entered' /\ Owned' /\ Attended' /\ NoStrays'
  <2>1. \A p \in Proc : proc[p].conn = k => ~(proc[p].phase = "told" /\ proc[p].op = "close")
    BY <1>3 DEF ServerOps
  <2>2. pm'.at \notin {"dead", "final"} /\ pm.at # "final" /\ OnlyOne(conn, conn', k)
    BY <1>1, <1>5
  <2> QED BY <1>1, <1>2, <1>4, <1>6, <1>7, <2>1, <2>2, DialogueTruth
<1>9. HeadInv' /\ TellInv'
  BY <1>1, <1>5, SameWaiting
<1> QED BY <1>8, <1>9 DEF Truth

\* The dialogue with nobody at the other end, and its end.
LEMMA LonelyTruth ==
  ASSUME Inv, Truth, UNCHANGED <<table, backlog, proc, waiting>>, NEW k, k = pm.conn, Busy,
         OnlyOne(conn, conn', k), \A p \in Proc : proc[p].conn # k,
         \/ pm' = Accepting
         \/ pm'.at = "tell" /\ pm'.conn = k /\ pm.at = "final"
              /\ pm'.name = pm.name /\ pm'.share = pm.share /\ pm'.port = pm.port
         \/ pm'.at = "spin",
         pm' = Accepting => pm.at # "final",
         pm.at \in {"tell", "tellMore"} /\ pm' = Accepting /\ waiting # <<>> =>
            pm.at = "tell" /\ Head(waiting).name # pm.name,
         pm.at # "spin"
  PROVE  Truth'
<1>1. pm'.at \in {"accept", "tell", "spin"} /\ (InDialogue' => pm'.at = "tell" /\ pm'.conn = k)
  BY AcceptingRec DEF InDialogue
<1>2. InDialogue' => ~Needs(pm'.at, conn'[k].toPm)
  BY <1>1 DEF Needs
<1>3. pm'.at # "dead" /\ PortsApart' /\ Entered' /\ Owned' /\ Attended' /\ NoStrays'
  BY <1>1, <1>2, DialogueTruth
<1>4. HeadInv' /\ TellInv'
  <2>1. CASE pm.at \in {"tell", "tellMore"} /\ pm' = Accepting
    <3>1. TellInv'
      BY <2>1, AcceptingRec DEF TellInv
    <3>2. waiting # <<>> => Entries(Head(waiting).name) = {}
      BY <2>1 DEF Truth, HeadInv
    <3>3. HeadInv'
      BY <2>1, <3>2, AcceptingRec DEF HeadInv, Entries
    <3> QED BY <3>1, <3>3
  <2>2. CASE ~(pm.at \in {"tell", "tellMore"} /\ pm' = Accepting)
    BY <1>1, <2>2, SameWaiting, AcceptingRec
  <2> QED BY <2>1, <2>2
<1> QED BY <1>3, <1>4 DEF Truth

LEMMA FinalOkTruth ==
  ASSUME Inv, Truth, ReadFinalOk
  PROVE  Truth'
<1>1. /\ pm.at = "final" /\ HasInput /\ Busy /\ InDialogue
      /\ UNCHANGED <<table, waiting, backlog, proc>>
      /\ conn' = Answering(<<>>) /\ pm' = [pm EXCEPT !.at = "tell"]
  BY DEF ReadFinalOk, Busy, InDialogue, Continue
<1>2. PICK k : k = pm.conn
  OBVIOUS
<1>3. \A p \in Proc : proc[p].conn # k
  BY <1>1, <1>2, TellsInput
<1>4. <<>> \in Seq(Message)
  BY MessageFacts, WrittenFacts
<1>5. OnlyOne(conn, conn', k)
  BY <1>1, <1>2, <1>4, AnsweredOne
<1>6. /\ pm'.at = "tell" /\ pm'.conn = k /\ pm'.name = pm.name /\ pm'.share = pm.share
      /\ pm'.port = pm.port
  BY <1>1, <1>2 DEF Inv, Types, PmRec
<1>7. pm' # Accepting
  BY <1>6, AcceptingRec
<1> QED BY <1>1, <1>2, <1>3, <1>5, <1>6, <1>7, LonelyTruth

\* The end of the loop in pm_server, and longjmp: in a dialogue that nobody gave up the
\* client has gone.
LEMMA GoneTruth ==
  ASSUME Inv, Truth, EndTelling \/ CutName \/ Spins \/ (longjmp /\ ~goesWrong)
  PROVE  Truth'
<1>1. PICK k : k = pm.conn
  OBVIOUS
<1>2. /\ Busy /\ InDialogue /\ UNCHANGED <<table, waiting, backlog, proc>>
      /\ conn' = conn \/ conn' = pmCloses(conn, k)
  BY <1>1 DEF longjmp, EndTelling, CutName, Spins, HalfRead, Waits, InDialogue, Busy
<1>3. OnlyOne(conn, conn', k)
  <2>1. k \in Conn /\ conn \in Conns
    BY <1>1, <1>2 DEF Inv, ListInv, Types
  <2> QED BY <1>2, <2>1, PmClosesFacts DEF OnlyOne
<1>4. \A p \in Proc : proc[p].conn # k
  <2>1. CASE EndTelling
    BY <1>1, <1>2, <2>1
       DEF EndTelling, Inv, DialogueInv, Talks, Asked, Told, Opening
  <2>2. CASE CutName \/ Spins \/ (longjmp /\ ~goesWrong)
    <3>1. ~conn[k].cl
      BY <1>1, <2>2 DEF longjmp, CutName, Spins
    <3>2. k \in Conn /\ k # None
      BY <1>1, <1>2, PortMasterAssumption DEF Inv, ListInv
    <3> QED BY <3>1, <3>2, CallConn
  <2> QED BY <2>1, <2>2
<1>5. CASE EndTelling
  <2>1. /\ pm.at \in {"tell", "tellMore"}
        /\ \/ pm' = Accepting /\ (pm.at = "tell" \/ waiting = <<>>)
           \/ pm' = [pm EXCEPT !.at = "spin"]
        /\ waiting # <<>> => Head(waiting).name # pm.name
    BY <1>5 DEF EndTelling
  <2>2. pm' = Accepting \/ pm'.at = "spin"
    BY <2>1 DEF Inv, Types, PmRec
  <2>3. pm' = Accepting /\ waiting # <<>> => pm.at = "tell"
    <3>1. [pm EXCEPT !.at = "spin"].at = "spin"
      BY DEF Inv, Types, PmRec
    <3> QED BY <2>1, <3>1, AcceptingRec
  <2> QED BY <1>1, <1>2, <1>3, <1>4, <2>1, <2>2, <2>3, LonelyTruth
<1>7. CASE CutName \/ Spins
  <2>1. /\ pm.at \in {"event", "cname"}
        /\ pm' = Accepting \/ pm' = [pm EXCEPT !.at = "spin"]
    BY <1>7 DEF CutName, Spins, HalfRead
  <2>2. pm' = Accepting \/ pm'.at = "spin"
    BY <2>1 DEF Inv, Types, PmRec
  <2> QED BY <1>1, <1>2, <1>3, <1>4, <2>1, <2>2, LonelyTruth
<1>6. CASE longjmp /\ ~goesWrong
  <2>1. pm' = Accepting /\ conn[pm.conn].toPm = <<>> /\ pm.at \notin {"tell", "tellMore", "spin"}
    BY <1>6 DEF longjmp, Waits, InDialogue
  <2>2. pm.at # "final"
    <3>1. pm.at = "final" => Needs(pm.at, conn[pm.conn].toPm)
      BY <2>1 DEF Needs
    <3> QED BY <1>1, <1>2, <1>4, <3>1 DEF Truth, NoStrays
  <2> QED BY <1>1, <1>2, <1>3, <1>4, <2>1, <2>2, LonelyTruth
<1> QED BY <1>5, <1>6, <1>7

LEMMA QuitTruth ==
  ASSUME Inv, Truth, pm_quit, ~goesWrong
  PROVE  Truth'
<1>1. PICK k : k = pm.conn
  OBVIOUS
<1>2. /\ Finish(<<Sorry>>) /\ pm.at = "qname" /\ HasInput /\ Busy /\ InDialogue
      /\ UNCHANGED <<table, waiting, backlog, proc>>
  BY DEF pm_quit, pmEnds, Busy, InDialogue
<1>3. \A p \in Proc : proc[p].conn # k
  BY <1>1, <1>2, TellsInput DEF Told
<1>4. <<Sorry>> \in Seq(Message)
  BY MessageFacts, WrittenFacts
<1>5. pm' = Accepting /\ OnlyOne(conn, conn', k)
  BY <1>1, <1>2, <1>4, FinishFacts
<1> QED BY <1>1, <1>2, <1>3, <1>5, LonelyTruth

LEMMA Appended ==
  ASSUME NEW S, NEW s \in Seq(S), NEW e \in S, NEW t, t = Append(s, e)
  PROVE  /\ t \in Seq(S) /\ Len(t) = Len(s) + 1
         /\ \A i \in 1..Len(s) : t[i] = s[i]
         /\ t[Len(s) + 1] = e
<1>1. /\ Append(s, e) \in Seq(S) /\ Len(Append(s, e)) = Len(s) + 1
      /\ \A i \in 1..Len(s) : Append(s, e)[i] = s[i]
      /\ Append(s, e)[Len(s) + 1] = e
  BY AppendProperties
<1> QED BY <1>1, Zenon

LEMMA AppendHead ==
  ASSUME NEW S, NEW s \in Seq(S), NEW e \in S, NEW t, t = Append(s, e)
  PROVE  t # <<>> /\ Head(t) = IF s = <<>> THEN e ELSE Head(s)
<1>1. /\ t \in Seq(S) /\ Len(t) = Len(s) + 1
      /\ \A i \in 1..Len(s) : t[i] = s[i]
      /\ t[Len(s) + 1] = e
  BY Appended
<1>2. Len(s) \in Nat /\ (s = <<>> <=> Len(s) = 0)
  BY EmptySeq, LenProperties
<1>3. t # <<>> /\ Head(t) = t[1]
  BY <1>1, <1>2
<1>4. s # <<>> => Head(s) = s[1] /\ 1 \in 1..Len(s)
  BY <1>2
<1>5. s = <<>> => Len(s) + 1 = 1
  BY <1>2
<1> QED BY <1>1, <1>3, <1>4, <1>5

LEMMA ClientTruth ==
  ASSUME Inv, Truth, pm_client
  PROVE  Truth'
<1>1. /\ pm.at \in {"cname", "wname"} /\ HasInput /\ InDialogue /\ Busy
      /\ UNCHANGED <<table, backlog, proc>>
  BY DEF pm_client, InDialogue, Busy
<1>2. PICK k : k = pm.conn
  OBVIOUS
<1>3. PICK n \in Name : Input[2] = n
  BY <1>1, InputFacts
<1>4. \A p \in Proc : proc[p].conn = k => proc[p].op \in {"client", "wait", "tornName"}
  BY <1>1, <1>2, TellsInput DEF Told
<1>5. /\ OnlyOne(conn, conn', k) /\ pm' = Accepting
      /\ \/ waiting' = waiting
         \/ Entries(n) = {} /\ \E w \in WaitRec : w.name = n /\ waiting' = Append(waiting, w)
  <2>1. CASE Entries(n) = {} /\ pm.at = "wname"
    <3>1. /\ waiting' = Append(waiting, [conn |-> k, name |-> n]) /\ pm' = Accepting
          /\ conn' = Answering(<<>>)
      BY <1>2, <1>3, <2>1 DEF pm_client
    <3>2. <<>> \in Seq(Message)
      BY WrittenFacts, MessageFacts
    <3>3. conn' = Answering(<<>>)
      BY <3>1
    <3>4. OnlyOne(conn, conn', k) /\ k \in Conn
      BY <1>1, <1>2, <3>2, <3>3, AnsweredOne
    <3>5. [conn |-> k, name |-> n] \in WaitRec
      BY <3>4 DEF WaitRec
    <3> QED BY <2>1, <3>1, <3>4, <3>5
  <2>2. CASE ~(Entries(n) = {} /\ pm.at = "wname")
    <3> DEFINE answer == IF Entries(n) = {} THEN Sorry
                         ELSE Located(table[FirstOf(Entries(n))])
    <3>1. Finish(<<answer>>) /\ UNCHANGED waiting
      BY <1>3, <2>2 DEF pm_client, FirstOf
    <3>2. answer \in Message
      <4>1. CASE Entries(n) = {}
        BY <4>1, MessageFacts
      <4>2. CASE Entries(n) # {}
        <5>0. Entries(n) \subseteq DOMAIN table
          BY DEF Entries
        <5>1. table[FirstOf(Entries(n))] \in EntryRec
          BY <4>2, <5>0, FirstFound, TypesFields DEF Inv
        <5> QED BY <4>2, <5>1, LocatedType DEF EntryRec
      <4> QED BY <4>1, <4>2
    <3> HIDE DEF answer
    <3>3. <<answer>> \in Seq(Message)
      BY <3>2, WrittenFacts
    <3> QED BY <1>1, <1>2, <3>1, <3>3, FinishFacts
  <2> QED BY <2>1, <2>2
<1>6. pm'.at = "accept" /\ ~InDialogue'
  BY <1>5, AcceptingRec DEF InDialogue
<1>7. pm'.at # "dead" /\ PortsApart' /\ Entered' /\ Owned' /\ Attended' /\ NoStrays'
  <2>1. \A p \in Proc : proc[p].conn = k =>
           ~(proc[p].phase = "told" /\ proc[p].op = "close")
           /\ proc[p].op \notin ServerOps \cup {"close"}
    BY <1>4 DEF ServerOps
  <2>2. pm.at # "final" /\ OnlyOne(conn, conn', k) /\ pm'.at \notin {"dead", "final"}
    BY <1>1, <1>5, <1>6
  <2> QED BY <1>1, <1>2, <1>6, <2>1, <2>2, DialogueTruth
<1>8. HeadInv' /\ TellInv'
  <2>1. CASE waiting' = waiting
    BY <1>1, <1>6, <2>1, SameWaiting
  <2>2. ASSUME Entries(n) = {}, NEW w \in WaitRec, w.name = n, waiting' = Append(waiting, w)
        PROVE  HeadInv' /\ TellInv'
    <3>1. waiting \in Seq(WaitRec)
      BY DEF Inv, Types
    <3>2. Head(waiting') = IF waiting = <<>> THEN w ELSE Head(waiting)
      <4>1. PICK t : t = Append(waiting, w)
        OBVIOUS
      <4>2. Head(t) = IF waiting = <<>> THEN w ELSE Head(waiting)
        BY <3>1, <4>1, AppendHead
      <4> QED BY <2>2, <4>1, <4>2, Zenon
    <3>3. waiting # <<>> => Entries(Head(waiting).name) = {}
      BY <1>1 DEF Truth, HeadInv
    <3>4. Entries(Head(waiting').name) = {}
      <4>1. CASE waiting = <<>>
        <5>1. Head(waiting').name = n
          BY <2>2, <3>2, <4>1, Zenon
        <5>2. Entries(n) = {}
          BY <2>2
        <5> QED BY <5>1, <5>2, Zenon
      <4>2. CASE waiting # <<>>
        BY <3>2, <3>3, <4>2, Zenon
      <4> QED BY <4>1, <4>2
    <3>5. UNCHANGED table
      BY <1>1
    <3> QED BY <1>6, <3>4, <3>5 DEF HeadInv, TellInv, Entries
  <2> QED BY <1>5, <2>1, <2>2
<1> QED BY <1>7, <1>8 DEF Truth

LEMMA PortTruth ==
  ASSUME Inv, Truth, ReadPort, ~goesWrong
  PROVE  Truth'
<1>1. /\ pm.at = "port" /\ HasInput /\ InDialogue /\ Busy
      /\ UNCHANGED <<waiting, backlog, proc>> /\ conn' = Answering(<<Ok>>)
  BY DEF ReadPort, InDialogue, Busy
<1>2. PICK k : k = pm.conn
  OBVIOUS
<1>3. PICK q \in Port : conn[k].toPm = One(PortMsg(q)) /\ Input[2] = q
                        /\ Tail(conn[k].toPm) = <<>>
  BY <1>1, <1>2, InputFacts
<1>4. /\ pm' = [pm EXCEPT !.at = "final", !.port = q] /\ makePortTable(q)
      /\ \A i \in DOMAIN table : table[i].port # q
  BY <1>3 DEF ReadPort
<1>5. /\ pm'.at = "final" /\ pm'.conn = k /\ pm'.share = pm.share /\ pm'.name = pm.name
      /\ pm'.port = q
  BY <1>2, <1>4 DEF Inv, Types, PmRec
<1>6. PICK e : e = [name |-> pm.name, share |-> pm.share, port |-> q]
  OBVIOUS
<1>7. /\ e \in EntryRec /\ Len(table) \in Nat
      /\ DOMAIN table = 1..Len(table) /\ DOMAIN table' = 1..(Len(table) + 1)
      /\ \A i \in 1..Len(table) : table'[i] = table[i]
      /\ table'[Len(table) + 1] = e
  BY <1>1, <1>4, <1>6, MadeEntry
<1>8. /\ OnlyOne(conn, conn', k) /\ conn'[k].toPm = <<>> /\ k \in Conn
  <2>1. <<Ok>> \in Seq(Message)
    BY MessageFacts, WrittenFacts
  <2> QED BY <1>1, <1>2, <1>3, <2>1, AnsweredOne
<1>9. \A j \in Conn \ {k} : conn'[j] = conn[j]
  BY <1>8 DEF OnlyOne
<1>10. \A p \in Proc : proc[p].conn = k =>
         /\ proc[p].phase = "told" /\ proc[p].op \in ServerOps /\ ~proc[p].listening
         /\ EntryOf(p) = e
  <2> SUFFICES ASSUME NEW p \in Proc, proc[p].conn = k
               PROVE  /\ proc[p].phase = "told" /\ proc[p].op \in ServerOps
                      /\ ~proc[p].listening /\ EntryOf(p) = e
    OBVIOUS
  <2>1. /\ Told(p, pm.at, conn[k].toPm, conn[k].toCl)
        /\ proc[p].op \in ServerOps => proc[p].port \in Port
    BY <1>1, <1>2, TellsInput
  <2>2. /\ proc[p].phase = "told" /\ proc[p].op \in ServerOps
        /\ conn[k].toPm = One(PortMsg(proc[p].port))
        /\ pm.share = ShareOf(p) /\ pm.name = proc[p].name
    BY <1>1, <2>1 DEF Told
  <2>3. proc[p].port = q
    BY <1>3, <2>1, <2>2, SaidSame
  <2>4. ~proc[p].listening
    BY <2>2 DEF Inv, ProcOK, ServerOps
  <2> QED BY <1>6, <2>2, <2>3, <2>4 DEF EntryOf, ShareOf
<1>11. PICK s \in Proc : proc[s].conn = k
  BY <1>1, <1>2 DEF Truth, NoStrays, Needs
<1>12. \A p \in Proc : EntryOf(p)' = EntryOf(p)
  BY <1>1 DEF EntryOf, shares
<1>13. \A p \in Proc : proc[p].conn # k => OnTable(p)' = OnTable(p)
  <2> SUFFICES ASSUME NEW p \in Proc, proc[p].conn # k
               PROVE  OnTable(p)' = OnTable(p)
    OBVIOUS
  <2>1. proc[p].phase = "told" => conn'[proc[p].conn] = conn[proc[p].conn]
    BY <1>9, CallConn
  <2> QED BY <1>1, <1>2, <1>5, <2>1 DEF OnTable
<1>14. \A p \in Proc : proc[p].conn = k => ~OnTable(p) /\ OnTable(p)'
  BY <1>1, <1>2, <1>5, <1>10 DEF OnTable
<1>15. PortsApart'
  <2>1. \A i \in 1..Len(table) : table'[i].port # e.port
    BY <1>4, <1>6, <1>7
  <2> QED BY <1>7, <2>1 DEF Truth, PortsApart
<1>16. Entered'
  <2> SUFFICES ASSUME NEW p \in Proc, OnTable(p)'
               PROVE  \E i \in DOMAIN table' : table'[i] = EntryOf(p)'
    BY DEF Entered
  <2>1. CASE proc[p].conn = k
    <3>1. EntryOf(p)' = e
      BY <1>10, <1>12, <2>1
    <3> QED BY <1>7, <3>1
  <2>2. CASE proc[p].conn # k
    <3>1. PICK i \in DOMAIN table : table[i] = EntryOf(p)
      BY <1>13, <2>2 DEF Truth, Entered
    <3> QED BY <1>7, <1>12, <3>1
  <2> QED BY <2>1, <2>2
<1>17. Owned'
  <2> SUFFICES ASSUME NEW i \in DOMAIN table'
               PROVE  \E p \in Proc : OnTable(p)' /\ table'[i] = EntryOf(p)'
    BY DEF Owned
  <2>1. CASE i = Len(table) + 1
    BY <1>7, <1>10, <1>11, <1>12, <1>14, <2>1
  <2>2. CASE i # Len(table) + 1
    <3>1. i \in DOMAIN table /\ table'[i] = table[i]
      BY <1>7, <2>2
    <3>2. PICK p \in Proc : OnTable(p) /\ table[i] = EntryOf(p)
      BY <3>1 DEF Truth, Owned
    <3>3. OnTable(p)'
      BY <1>13, <1>14, <3>2
    <3> QED BY <1>12, <3>1, <3>2, <3>3
  <2> QED BY <2>1, <2>2
<1>18. Attended'
  <2> SUFFICES ASSUME NEW p \in Proc, Calling(p), proc[p].op \in ServerOps \cup {"close"}
               PROVE  \/ InBacklog(proc[p].conn)
                      \/ InDialogue' /\ pm'.conn = proc[p].conn
                      \/ LastAnswered(p)'
    BY <1>1 DEF Attended, Calling, InBacklog
  <2>1. CASE proc[p].conn = k
    BY <1>5, <2>1 DEF InDialogue
  <2>2. CASE proc[p].conn # k
    <3>1. conn'[proc[p].conn] = conn[proc[p].conn]
      BY <1>9, <2>2, CallConn DEF Calling
    <3>2. InBacklog(proc[p].conn) \/ LastAnswered(p)
      BY <1>2, <2>2 DEF Truth, Attended
    <3> QED BY <1>1, <3>1, <3>2 DEF LastAnswered
  <2> QED BY <2>1, <2>2
<1>19. NoStrays'
  <2>1. \A i \in DOMAIN backlog : conn'[backlog[i]] = conn[backlog[i]]
    BY <1>1, <1>2, <1>9, TypesFields DEF Inv, ListInv
  <2> QED BY <1>1, <1>5, <1>11, <2>1 DEF Truth, NoStrays
<1>20. HeadInv'
  <2> SUFFICES ASSUME waiting # <<>>
               PROVE  Head(waiting).name = pm'.name \/ Entries(Head(waiting).name)' = {}
    BY <1>1, <1>5 DEF HeadInv
  <2>1. PICK n : n = Head(waiting).name
    OBVIOUS
  <2>2. Entries(n) = {} /\ e.name = pm.name
    BY <1>1, <1>6, <2>1 DEF Truth, HeadInv
  <2>3. ASSUME n # pm.name
        PROVE  \A i \in DOMAIN table' : table'[i].name # n
    <3> SUFFICES ASSUME NEW i \in DOMAIN table'
                 PROVE  table'[i].name # n
      OBVIOUS
    <3>1. CASE i = Len(table) + 1
      BY <1>7, <2>2, <2>3, <3>1
    <3>2. CASE i # Len(table) + 1
      <4>1. i \in DOMAIN table /\ table'[i] = table[i]
        BY <1>7, <3>2
      <4> QED BY <2>2, <4>1 DEF Entries
    <3> QED BY <3>1, <3>2
  <2>4. n # pm.name => Entries(n)' = {}
    BY <2>3 DEF Entries
  <2>5. UNCHANGED waiting
    BY <1>1
  <2> QED BY <1>5, <2>1, <2>4, <2>5 DEF Entries
<1>21. TellInv'
  <2>1. table'[Len(table) + 1] = [name |-> pm'.name, share |-> pm'.share, port |-> pm'.port]
    BY <1>5, <1>6, <1>7
  <2> QED BY <1>7, <2>1 DEF TellInv
<1> QED BY <1>5, <1>15, <1>16, <1>17, <1>18, <1>19, <1>20, <1>21 DEF Truth

\* The client that is told is not a server that comes or goes.
LEMMA TellTruth ==
  ASSUME Inv, Truth, TellWaiting
  PROVE  Truth'
<1>0. PICK k, told : k = Head(waiting).conn /\ told = <<Located(pm)>>
  OBVIOUS
<1>1. /\ pm.at \in {"tell", "tellMore"} /\ Busy /\ InDialogue /\ waiting # <<>>
      /\ pm' = [pm EXCEPT !.at = "tellMore"] /\ UNCHANGED <<table, backlog, proc>>
  BY DEF TellWaiting, Busy, InDialogue
<1>2. /\ k \in Conn /\ conn[k].pm /\ k # pm.conn /\ \A i \in DOMAIN backlog : backlog[i] # k
  BY <1>0, <1>1, HeadWaiting DEF Inv, ListInv, WaitRec
<1>3. pm \in PmRec /\ pm.name \in Name /\ pm.port \in Port /\ pm.share \in Host \cup {None}
  BY <1>1 DEF Inv, Types, DialogueInv, PmRec
<1>4. \A j \in Conn \ {k} : conn'[j] = conn[j]
  <2>1. Located(pm) \in Message
    BY <1>3, LocatedType
  <2>2. told \in Seq(Message)
    BY <1>0, <2>1, WrittenFacts
  <2>3. conn \in Conns
    BY DEF Inv, Types
  <2>4. conn' = pmCloses(pmSends(conn, k, told), k)
    BY <1>0 DEF TellWaiting
  <2> QED BY <1>2, <2>2, <2>3, <2>4, LastWordFacts DEF OnlyOne
<1>5. /\ pm'.at = "tellMore" /\ pm'.conn = pm.conn /\ pm'.name = pm.name
      /\ pm'.share = pm.share /\ pm'.port = pm.port
  BY <1>1, <1>3 DEF PmRec
<1>6. \A p \in Proc : Calling(p) /\ proc[p].op \in ServerOps \cup {"close"} => proc[p].conn # k
  BY <1>2 DEF Truth, Attended, InBacklog, LastAnswered
<1>7. \A p \in Proc : Calling(p) /\ proc[p].op \in ServerOps \cup {"close"} =>
         proc[p].conn \in Conn /\ conn'[proc[p].conn] = conn[proc[p].conn]
  BY <1>4, <1>6, CallConn DEF Calling
<1>8. \A p \in Proc : OnTable(p)' = OnTable(p) /\ EntryOf(p)' = EntryOf(p)
  <2> SUFFICES ASSUME NEW p \in Proc
               PROVE  OnTable(p)' = OnTable(p) /\ EntryOf(p)' = EntryOf(p)
    OBVIOUS
  <2>1. proc[p].phase = "told" /\ proc[p].op = "close" =>
          conn'[proc[p].conn] = conn[proc[p].conn]
    BY <1>7 DEF Calling
  <2> QED BY <1>1, <1>5, <2>1, SameOnTable
<1>9. PortsApart' /\ Entered' /\ Owned'
  BY <1>1, <1>8, SameTable
<1>10. Attended'
  <2> SUFFICES ASSUME NEW p \in Proc, Calling(p), proc[p].op \in ServerOps \cup {"close"}
               PROVE  \/ InBacklog(proc[p].conn)
                      \/ InDialogue' /\ pm'.conn = proc[p].conn
                      \/ LastAnswered(p)'
    BY <1>1 DEF Attended, Calling, InBacklog
  <2>1. \/ InBacklog(proc[p].conn)
        \/ InDialogue /\ pm.conn = proc[p].conn
        \/ LastAnswered(p)
    BY DEF Truth, Attended
  <2>2. LastAnswered(p) => LastAnswered(p)'
    BY <1>1, <1>7 DEF LastAnswered
  <2>3. InDialogue'
    BY <1>5 DEF InDialogue
  <2> QED BY <1>5, <2>1, <2>2, <2>3
<1>11. NoStrays'
  <2>1. \A i \in DOMAIN backlog : conn'[backlog[i]] = conn[backlog[i]]
    BY <1>2, <1>4, TypesFields DEF Inv
  <2>2. ~Needs(pm'.at, conn'[pm'.conn].toPm)
    BY <1>5 DEF Needs
  <2> QED BY <1>1, <2>1, <2>2 DEF Truth, NoStrays
<1>12. HeadInv'
  BY <1>5 DEF HeadInv
<1>13. TellInv'
  BY <1>1, <1>5 DEF Truth, TellInv
<1> QED BY <1>5, <1>9, <1>10, <1>11, <1>12, <1>13 DEF Truth

\* A connection that is accepted has been in the backlog, with its client.
LEMMA AcceptTruth ==
  ASSUME Inv, Truth, Accept, ~goesWrong
  PROVE  Truth'
<1>0. PICK k : k = Head(backlog)
  OBVIOUS
<1>1. /\ pm.at = "accept" /\ backlog # <<>> /\ pm = Accepting
      /\ backlog' = Tail(backlog) /\ UNCHANGED <<table, waiting, proc>>
  BY DEF Accept, Inv, ListInv
<1>2. pm' = [pm EXCEPT !.at = "event", !.conn = k] /\ conn' = conn
  <2>1. ~Rejected(conn[Head(backlog)].from)
    BY DEF Accept
  <2> QED BY <1>0, <2>1 DEF Accept
<1>3. pm'.at = "event" /\ pm'.conn = k /\ InDialogue'
  BY <1>2 DEF Inv, Types, PmRec, InDialogue
<1>4. \A p \in Proc : OnTable(p)' = OnTable(p) /\ EntryOf(p)' = EntryOf(p)
  BY <1>1, <1>2, <1>3 DEF OnTable, EntryOf, shares
<1>5. PortsApart' /\ Entered' /\ Owned'
  BY <1>1, <1>4, SameTable
<1>6. \A c \in Conn : InBacklog(c) => c = k \/ InBacklog(c)'
  <2> SUFFICES ASSUME NEW c \in Conn, NEW i \in DOMAIN backlog, backlog[i] = c, c # k
               PROVE  InBacklog(c)'
    BY DEF InBacklog
  <2>1. backlog \in Seq(Conn) /\ k = backlog[1]
    BY <1>0, <1>1, HeadBacklog DEF Inv, Types
  <2>2. /\ i \in 1..Len(backlog) /\ i # 1 /\ Len(backlog) \in Nat
        /\ Len(Tail(backlog)) = Len(backlog) - 1 /\ Tail(backlog) \in Seq(Conn)
        /\ \A j \in 1..Len(Tail(backlog)) : Tail(backlog)[j] = backlog[j + 1]
    BY <1>1, <2>1, HeadTailProperties
  <2>3. i - 1 \in 1..Len(Tail(backlog)) /\ (i - 1) + 1 = i
    BY <2>2
  <2>4. i - 1 \in DOMAIN Tail(backlog) /\ Tail(backlog)[i - 1] = c
    BY <2>2, <2>3
  <2> QED BY <1>1, <2>4 DEF InBacklog
<1>7. Attended'
  <2> SUFFICES ASSUME NEW p \in Proc, Calling(p), proc[p].op \in ServerOps \cup {"close"}
               PROVE  \/ InBacklog(proc[p].conn)'
                      \/ pm'.conn = proc[p].conn
                      \/ LastAnswered(p)'
    BY <1>1, <1>3 DEF Attended, Calling, InBacklog
  <2>1. InBacklog(proc[p].conn) \/ LastAnswered(p)
    BY <1>1 DEF Truth, Attended, InDialogue
  <2>2. LastAnswered(p) => LastAnswered(p)'
    BY <1>1, <1>2 DEF LastAnswered
  <2>3. proc[p].conn \in Conn
    BY CallConn DEF Calling
  <2> QED BY <1>1, <1>3, <1>6, <2>1, <2>2, <2>3 DEF InBacklog
<1>8. NoStrays'
  <2>1. \A i \in DOMAIN backlog' : i + 1 \in DOMAIN backlog /\ backlog'[i] = backlog[i + 1]
    BY <1>1, HeadBacklog
  <2>2. 1 \in DOMAIN backlog /\ k = backlog[1]
    BY <1>0, <1>1, HeadBacklog
  <2>3. conn[k].toPm # <<>> => \E p \in Proc : proc[p].conn = k
    BY <2>2 DEF Truth, NoStrays
  <2>4. \A i \in DOMAIN backlog' :
          conn[backlog'[i]].toPm # <<>> => \E p \in Proc : proc[p].conn = backlog'[i]
    BY <2>1 DEF Truth, NoStrays
  <2> QED BY <1>1, <1>2, <1>3, <2>3, <2>4 DEF NoStrays, Needs
<1>9. HeadInv' /\ TellInv'
  BY <1>1, <1>3, SameWaiting
<1> QED BY <1>3, <1>5, <1>7, <1>8, <1>9 DEF Truth

\* An entry is that of one process only.
LEMMA EntryApart ==
  ASSUME Inv, NEW p \in Proc, NEW q \in Proc, proc[p].port # 0, EntryOf(p) = EntryOf(q)
  PROVE  p = q
<1>1. proc[p].port = proc[q].port /\ ShareOf(p) = ShareOf(q)
  BY DEF EntryOf, ShareOf
<1>2. HostOf[p] = HostOf[q]
  BY <1>1, PortMasterAssumption DEF ShareOf, shares
<1> QED BY <1>1, <1>2 DEF Inv, ProcsApart

\* The entries that are left are those that were there, each once.
LEMMA EntriesLeft ==
  ASSUME NEW S, NEW t \in Seq(S), NEW f \in DOMAIN t, NEW u, u = RemoveAt(t, f)
  PROVE  /\ \A i \in DOMAIN t : i # f => \E j \in DOMAIN u : u[j] = t[i]
         /\ \A j \in DOMAIN u : \E i \in DOMAIN t :
              i # f /\ u[j] = t[i] /\ (i = j \/ i = j + 1) /\ (i = j <=> j < f)
         /\ DOMAIN u \subseteq Nat /\ DOMAIN t \subseteq Nat
<1>1. f \in 1..Len(t) /\ Len(t) \in Nat /\ DOMAIN t = 1..Len(t)
  BY LenProperties
<1>2. /\ DOMAIN u = 1..(Len(t) - 1)
      /\ \A j \in 1..(Len(t) - 1) : u[j] = IF j < f THEN t[j] ELSE t[j + 1]
  BY Removed
<1>3. ASSUME NEW i \in DOMAIN t, i # f
      PROVE  \E j \in DOMAIN u : u[j] = t[i]
  <2>1. CASE i < f
    <3>1. i \in 1..(Len(t) - 1)
      BY <1>1, <2>1
    <3> QED BY <1>2, <2>1, <3>1
  <2>2. CASE ~(i < f)
    <3>1. i - 1 \in 1..(Len(t) - 1) /\ ~(i - 1 < f) /\ (i - 1) + 1 = i
      BY <1>1, <1>3, <2>2
    <3>2. i - 1 \in DOMAIN u /\ u[i - 1] = t[i]
      BY <1>2, <3>1
    <3> QED BY <3>2
  <2> QED BY <2>1, <2>2
<1>4. ASSUME NEW j \in DOMAIN u
      PROVE  \E i \in DOMAIN t :
               i # f /\ u[j] = t[i] /\ (i = j \/ i = j + 1) /\ (i = j <=> j < f)
  <2>1. j \in 1..(Len(t) - 1)
    BY <1>2
  <2>2. CASE j < f
    <3>1. j \in DOMAIN t /\ j # f /\ u[j] = t[j]
      BY <1>1, <1>2, <2>1, <2>2
    <3> QED BY <2>2, <3>1
  <2>3. CASE ~(j < f)
    <3>1. j + 1 \in DOMAIN t /\ j + 1 # f /\ u[j] = t[j + 1] /\ j + 1 # j
      BY <1>1, <1>2, <2>1, <2>3
    <3> QED BY <2>3, <3>1
  <2> QED BY <2>2, <2>3
<1> QED BY <1>1, <1>2, <1>3, <1>4

\* A server that closes takes its own entry out of the table, and no other one.
LEMMA CloseTruth ==
  ASSUME Inv, Truth, pm_close
  PROVE  Truth'
<1>1. /\ pm.at = "cport" /\ HasInput /\ InDialogue /\ Busy
      /\ UNCHANGED <<waiting, backlog, proc>>
  BY DEF pm_close, InDialogue, Busy
<1>2. PICK k : k = pm.conn
  OBVIOUS
<1>3. PICK c \in Proc : proc[c].conn = k
  BY <1>1, <1>2 DEF Truth, NoStrays, Needs
<1>4. /\ proc[c].phase = "told" /\ proc[c].op = "close" /\ conn[k].toCl = <<>>
      /\ conn[k].toPm = One(PortMsg(proc[c].port)) /\ proc[c].port \in Port
  <2>1. /\ Told(c, pm.at, conn[k].toPm, conn[k].toCl) /\ conn[k].toCl = <<>>
        /\ proc[c].op \in ServerOps \cup {"close"} => proc[c].port \in Port
    BY <1>1, <1>2, <1>3, TellsInput
  <2>2. /\ proc[c].phase = "told" /\ proc[c].op = "close"
        /\ conn[k].toPm = One(PortMsg(proc[c].port))
    BY <1>1, <2>1 DEF Told
  <2> QED BY <2>1, <2>2
<1>5. Input[2] = proc[c].port
  <2>1. PICK q \in Port : conn[k].toPm = One(PortMsg(q)) /\ Input[2] = q
    BY <1>1, <1>2, InputFacts
  <2> QED BY <1>4, <2>1, SaidSame
<1>6. OnTable(c) /\ proc[c].listening
  <2>1. proc[c].listening
    BY <1>4 DEF Inv, ProcOK
  <2> QED BY <1>3, <1>4, <2>1 DEF OnTable
<1>7. PICK f \in DOMAIN table : table[f] = EntryOf(c)
  BY <1>6 DEF Truth, Entered
<1>8. {i \in DOMAIN table : table[i].port = Input[2]} = {f}
  BY <1>5, <1>7 DEF Truth, PortsApart, EntryOf
<1>9. Finish(<<Ok>>) /\ table' = RemoveAt(table, f)
  <2>1. PICK found : found = {f}
    OBVIOUS
  <2>2. delPortTable(found)
    BY <1>8, <2>1 DEF pm_close
  <2>3. FirstOf(found) = f
    <3>1. found \subseteq DOMAIN table /\ found # {}
      BY <2>1
    <3> QED BY <2>1, <3>1, FirstFound
  <2> QED BY <2>1, <2>2, <2>3 DEF delPortTable, FirstOf
<1>10. /\ \A i \in DOMAIN table : i # f => \E j \in DOMAIN table' : table'[j] = table[i]
       /\ \A j \in DOMAIN table' : \E i \in DOMAIN table :
            i # f /\ table'[j] = table[i] /\ (i = j \/ i = j + 1) /\ (i = j <=> j < f)
       /\ DOMAIN table' \subseteq Nat /\ DOMAIN table \subseteq Nat
  <2>1. table \in Seq(EntryRec)
    BY DEF Inv, Types
  <2>2. PICK u : u = RemoveAt(table, f)
    OBVIOUS
  <2>3. /\ \A i \in DOMAIN table : i # f => \E j \in DOMAIN u : u[j] = table[i]
        /\ \A j \in DOMAIN u : \E i \in DOMAIN table :
             i # f /\ u[j] = table[i] /\ (i = j \/ i = j + 1) /\ (i = j <=> j < f)
        /\ DOMAIN u \subseteq Nat /\ DOMAIN table \subseteq Nat
    BY <2>1, <2>2, EntriesLeft
  <2>4. table' = u
    BY <1>9, <2>2
  <2> QED BY <2>3, <2>4
<1>11. /\ OnlyOne(conn, conn', k) /\ pm' = Accepting /\ ~conn'[k].pm
       /\ conn'[k].toCl = One(Ok)
  <2>1. <<Ok>> \in Seq(Message) /\ <<>> \o <<Ok>> = One(Ok)
    BY MessageFacts, WrittenFacts
  <2>2. conn[k].cl
    BY <1>3, <1>4, CallConn
  <2>3. /\ pm' = Accepting /\ OnlyOne(conn, conn', k) /\ ~conn'[k].pm
        /\ conn[k].cl => conn'[k].toCl = conn[k].toCl \o <<Ok>>
    BY <1>1, <1>2, <1>9, <2>1, FinishFacts
  <2> QED BY <1>4, <2>1, <2>2, <2>3
<1>12. pm'.at = "accept" /\ ~InDialogue'
  BY <1>11, AcceptingRec DEF InDialogue
<1>13. \A j \in Conn \ {k} : conn'[j] = conn[j]
  BY <1>11 DEF OnlyOne
<1>14. \A p \in Proc : p # c => proc[p].conn # k
  <2>1. proc[c].conn # None
    BY <1>4, CallConn
  <2> QED BY <1>3, <2>1 DEF Inv, ProcsApart
<1>15. \A p \in Proc : EntryOf(p)' = EntryOf(p)
  BY <1>1 DEF EntryOf, shares
<1>16. \A p \in Proc : p # c => OnTable(p)' = OnTable(p)
  <2> SUFFICES ASSUME NEW p \in Proc, p # c
               PROVE  OnTable(p)' = OnTable(p)
    OBVIOUS
  <2>1. proc[p].phase = "told" => conn'[proc[p].conn] = conn[proc[p].conn]
    BY <1>13, <1>14, CallConn
  <2> QED BY <1>1, <1>12, <2>1 DEF OnTable
<1>17. ~OnTable(c)'
  <2>1. One(Ok) # <<>>
    BY OkSaid
  <2> QED BY <1>1, <1>3, <1>4, <1>11, <1>12, <2>1 DEF OnTable
<1>18. PortsApart'
  BY <1>10 DEF Truth, PortsApart
<1>19. Entered'
  <2> SUFFICES ASSUME NEW p \in Proc, OnTable(p)'
               PROVE  \E j \in DOMAIN table' : table'[j] = EntryOf(p)'
    BY DEF Entered
  <2>1. p # c /\ OnTable(p)
    BY <1>16, <1>17
  <2>2. PICK i \in DOMAIN table : table[i] = EntryOf(p)
    BY <2>1 DEF Truth, Entered
  <2>3. i # f
    <3>1. proc[c].port # 0
      BY <1>4, PortMasterAssumption
    <3> QED BY <1>7, <2>1, <2>2, <3>1, EntryApart
  <2> QED BY <1>10, <1>15, <2>2, <2>3
<1>20. Owned'
  <2> SUFFICES ASSUME NEW j \in DOMAIN table'
               PROVE  \E p \in Proc : OnTable(p)' /\ table'[j] = EntryOf(p)'
    BY DEF Owned
  <2>1. PICK i \in DOMAIN table : i # f /\ table'[j] = table[i]
    BY <1>10
  <2>2. PICK p \in Proc : OnTable(p) /\ table[i] = EntryOf(p)
    BY DEF Truth, Owned
  <2>3. p # c
    BY <1>7, <2>1, <2>2 DEF Truth, PortsApart
  <2> QED BY <1>15, <1>16, <2>1, <2>2, <2>3
<1>21. Attended'
  <2> SUFFICES ASSUME NEW p \in Proc, Calling(p), proc[p].op \in ServerOps \cup {"close"}
               PROVE  InBacklog(proc[p].conn) \/ LastAnswered(p)'
    BY <1>1 DEF Attended, Calling, InBacklog
  <2>1. CASE p = c
    <3>1. One(Ok) # <<>>
      BY OkSaid
    <3> QED BY <1>1, <1>3, <1>4, <1>11, <2>1, <3>1 DEF LastAnswered, ServerOps
  <2>2. CASE p # c
    <3>1. conn'[proc[p].conn] = conn[proc[p].conn]
      BY <1>13, <1>14, <2>2, CallConn DEF Calling
    <3>2. InBacklog(proc[p].conn) \/ LastAnswered(p)
      BY <1>2, <1>14, <2>2 DEF Truth, Attended
    <3> QED BY <1>1, <3>1, <3>2 DEF LastAnswered
  <2> QED BY <2>1, <2>2
<1>22. NoStrays'
  <2>1. \A i \in DOMAIN backlog : conn'[backlog[i]] = conn[backlog[i]]
    BY <1>1, <1>2, <1>13, TypesFields DEF Inv, ListInv
  <2> QED BY <1>1, <1>12, <2>1 DEF Truth, NoStrays
<1>23. HeadInv'
  <2> SUFFICES ASSUME waiting # <<>>
               PROVE  Entries(Head(waiting).name)' = {}
    BY <1>1, <1>12 DEF HeadInv
  <2>1. PICK n : n = Head(waiting).name
    OBVIOUS
  <2>2. Entries(n) = {}
    BY <1>1, <2>1 DEF Truth, HeadInv
  <2>3. \A j \in DOMAIN table' : table'[j].name # n
    BY <1>10, <2>2 DEF Entries
  <2>4. UNCHANGED waiting
    BY <1>1
  <2> QED BY <2>1, <2>3, <2>4 DEF Entries
<1>24. TellInv'
  BY <1>12 DEF TellInv
<1> QED BY <1>12, <1>18, <1>19, <1>20, <1>21, <1>22, <1>23, <1>24 DEF Truth

\* A process goes on with its own connection, which the PortMaster has accepted.
LEMMA OwnTruth ==
  ASSUME Inv, Truth, NEW p \in Proc, NEW k, k = proc[p].conn, NEW r,
         proc' = [proc EXCEPT ![p] = r], UNCHANGED <<pm, table, waiting, backlog>>,
         OnlyOne(conn, conn', k), r.conn \in {None, k},
         \A i \in DOMAIN backlog : backlog[i] # k,
         OnTable(p)' = OnTable(p) /\ (OnTable(p) => EntryOf(p)' = EntryOf(p)),
         r.phase \in {"asked", "told"} /\ r.op \in ServerOps \cup {"close"} =>
            proc[p].phase = "asked" /\ r.conn = k /\ r.op = proc[p].op,
         InDialogue /\ pm.conn = k /\ Needs(pm.at, conn'[k].toPm) => r.conn = k
  PROVE  Truth'
<1>1. proc'[p] = r /\ \A q \in Proc \ {p} : proc'[q] = proc[q]
  BY DEF Inv, Types
<1>2. \A j \in Conn \ {k} : conn'[j] = conn[j]
  BY DEF OnlyOne
<1>3. \A q \in Proc \ {p} : proc[q].conn # None => proc[q].conn # k
  BY DEF Inv, ProcsApart
<1>4. \A q \in Proc : OnTable(q)' = OnTable(q) /\ (OnTable(q) => EntryOf(q)' = EntryOf(q))
  <2> SUFFICES ASSUME NEW q \in Proc, q # p
               PROVE  OnTable(q)' = OnTable(q) /\ EntryOf(q)' = EntryOf(q)
    OBVIOUS
  <2>1. proc[q].phase = "told" => conn'[proc[q].conn] = conn[proc[q].conn]
    BY <1>2, <1>3, CallConn
  <2> QED BY <1>1, <2>1, SameOnTable
<1>5. PortsApart' /\ Entered' /\ Owned'
  BY <1>4, SameTable
<1>6. HeadInv' /\ TellInv'
  BY SameWaiting
<1>7. Attended'
  <2> SUFFICES ASSUME NEW q \in Proc, Calling(q)', proc'[q].op \in ServerOps \cup {"close"}
               PROVE  \/ InBacklog(proc'[q].conn)
                      \/ InDialogue /\ pm.conn = proc'[q].conn
                      \/ LastAnswered(q)'
    BY DEF Attended, InBacklog, InDialogue
  <2>1. CASE q = p
    <3>1. proc[p].phase = "asked" /\ r.conn = k /\ r.op = proc[p].op
      BY <1>1, <2>1 DEF Calling
    <3>2. InBacklog(k) \/ (InDialogue /\ pm.conn = k)
      BY <1>1, <2>1, <3>1 DEF Truth, Attended, Calling, LastAnswered
    <3> QED BY <1>1, <2>1, <3>1, <3>2
  <2>2. CASE q # p
    <3>1. proc'[q] = proc[q] /\ Calling(q)
      BY <1>1, <2>2 DEF Calling
    <3>2. \/ InBacklog(proc[q].conn)
          \/ InDialogue /\ pm.conn = proc[q].conn
          \/ LastAnswered(q)
      BY <3>1 DEF Truth, Attended
    <3>3. conn'[proc[q].conn] = conn[proc[q].conn]
      BY <1>2, <1>3, <2>2, <3>1, CallConn DEF Calling
    <3> QED BY <3>1, <3>2, <3>3 DEF LastAnswered
  <2> QED BY <2>1, <2>2
<1>8. NoStrays'
  <2>1. \A j \in Conn : j # k => ((\E q \in Proc : proc[q].conn = j)
                                     => \E q \in Proc : proc'[q].conn = j)
    BY <1>1
  <2>2. \A i \in DOMAIN backlog : /\ backlog[i] \in Conn /\ backlog[i] # k
                                  /\ conn'[backlog[i]] = conn[backlog[i]]
    BY <1>2, TypesFields DEF Inv
  <2>3. \A i \in DOMAIN backlog : conn'[backlog[i]].toPm # <<>>
                                    => \E q \in Proc : proc'[q].conn = backlog[i]
    BY <2>1, <2>2 DEF Truth, NoStrays
  <2>4. ASSUME InDialogue, Needs(pm.at, conn'[pm.conn].toPm)
        PROVE  \E q \in Proc : proc'[q].conn = pm.conn
    <3>1. CASE pm.conn = k
      BY <1>1, <2>4, <3>1
    <3>2. CASE pm.conn # k
      <4>1. pm.conn \in Conn
        BY <2>4 DEF Inv, ListInv, InDialogue, Busy
      <4>2. conn'[pm.conn] = conn[pm.conn]
        BY <1>2, <3>2, <4>1
      <4> QED BY <2>1, <2>4, <3>2, <4>1, <4>2 DEF Truth, NoStrays
    <3> QED BY <3>1, <3>2
  <2> QED BY <2>3, <2>4 DEF NoStrays, InDialogue
<1> QED BY <1>5, <1>6, <1>7, <1>8 DEF Truth

\* A process whose entry is not in the table leaves, and its entry stays out.
LEMMA NotOnTable ==
  ASSUME Inv, NEW p \in Proc, NEW r, proc' = [proc EXCEPT ![p] = r], UNCHANGED pm,
         ~r.listening, r.conn = None \/ r.conn # pm.conn
  PROVE  ~OnTable(p)'
<1>1. proc'[p] = r
  BY DEF Inv, Types
<1>2. pm.at = "final" => pm.conn # None
  BY PortMasterAssumption DEF Inv, ListInv, Busy
<1> QED BY <1>1, <1>2 DEF OnTable

\* A server that comes or goes and reads an answer that ends a call is in its dialogue, or
\* was answered for good.
LEMMA AnsweredServer ==
  ASSUME Inv, Truth, NEW p \in Proc, HasAnswer(p), proc[p].op \in ServerOps \cup {"close"}
  PROVE  (InDialogue /\ pm.conn = proc[p].conn) \/ LastAnswered(p)
<1>1. \A i \in DOMAIN backlog : backlog[i] # proc[p].conn
  BY AnswerFacts
<1> QED BY <1>1 DEF Truth, Attended, HasAnswer, InBacklog

LEMMA ListensFacts ==
  ASSUME Inv, NEW p \in Proc, Calling(p)
  PROVE  proc[p].listening <=> proc[p].op = "close"
BY DEF Inv, ProcOK, Calling

\* A call is over; the PortMaster needs nothing more from the process.
LEMMA LeavesTruth ==
  ASSUME Inv, Truth, NEW p \in Proc, NEW k, k = proc[p].conn, NEW r, Gone(r),
         proc' = [proc EXCEPT ![p] = r], UNCHANGED <<pm, table, waiting, backlog>>,
         OnlyOne(conn, conn', k), \A i \in DOMAIN backlog : backlog[i] # k, ~OnTable(p),
         InDialogue /\ pm.conn = k => ~Needs(pm.at, conn'[k].toPm)
  PROVE  Truth'
<1>1. ~r.listening /\ r.conn = None /\ r.phase \in {"idle", "next"}
  BY DEF Gone
<1>2. ~OnTable(p)'
  BY <1>1, NotOnTable
<1>3. OnTable(p)' = OnTable(p)
  BY <1>2 DEF OnTable
<1> QED BY <1>1, <1>3, OwnTruth

\* The PortMaster refuses only who is not in the backlog, the table or a dialogue.
LEMMA RefusedTruth ==
  ASSUME Inv, Truth, NEW p \in Proc, Refused(p)
  PROVE  Truth'
<1>1. /\ proc[p].phase = "asked" /\ HasAnswer(p) /\ Calling(p) /\ Answer(p) = Sorry
      /\ proc' = [proc EXCEPT ![p] = Failed(proc[p])] /\ conn' = clCloses(conn, proc[p].conn)
      /\ UNCHANGED <<pm, table, waiting, backlog>>
  BY DEF Refused, Fails, Calling
<1>2. PICK k, d : k = proc[p].conn /\ d = clCloses(conn, k)
  OBVIOUS
<1>3. OnlyOne(conn, conn', k)
  <2>1. k \in Conn /\ k # None /\ conn \in Conns
    BY <1>1, <1>2, CallConn DEF Inv, Types
  <2>2. OnlyOne(conn, d, k) /\ conn' = d
    BY <1>1, <1>2, <2>1, ClClosesFacts
  <2> QED BY <2>2
<1>4. /\ ~(InDialogue /\ pm.conn = k)
      /\ \A i \in DOMAIN backlog : backlog[i] # k
  <2>1. Sorry # Ok /\ Sorry # AskAgain
    BY DEF Sorry, Ok, AskAgain
  <2> QED BY <1>1, <1>2, <2>1, AnswerFacts
<1>5. ~OnTable(p)
  <2>1. proc[p].op \notin ServerOps \cup {"close"}
    BY <1>1, <1>2, <1>4, AnsweredServer DEF LastAnswered
  <2>2. ~proc[p].listening
    BY <1>1, <2>1, ListensFacts
  <2> QED BY <1>2, <1>4, <2>2 DEF OnTable, InDialogue
<1>6. Gone(Failed(proc[p]))
  BY GoneFacts
<1> QED BY <1>1, <1>2, <1>3, <1>4, <1>5, <1>6, LeavesTruth

\* A process answers and goes on with its call: a server that closes is in its dialogue.
LEMMA ReplyTruth ==
  ASSUME Inv, Truth, NEW p \in Proc, HasAnswer(p), proc[p].phase = "asked",
         NEW msgs \in Seq(Message), NEW r \in ProcRec, conn' = Replying(p, msgs),
         proc' = [proc EXCEPT ![p] = r], r.phase \in {"asked", "told"},
         r.phase = "told" => Answer(p) = Ok,
         r.op = proc[p].op, r.conn = proc[p].conn, r.name = proc[p].name,
         r.port = proc[p].port, r.listening = proc[p].listening,
         UNCHANGED <<pm, table, waiting, backlog>>
  PROVE  Truth'
<1>1. PICK k, d : k = proc[p].conn /\ d = Replying(p, msgs)
  OBVIOUS
<1>2. OnlyOne(conn, d, k) /\ d[k].toCl = Tail(conn[k].toCl) /\ conn' = d
  BY <1>1, ReplyFacts
<1>3. OnlyOne(conn, conn', k) /\ conn'[k].toCl = Tail(conn[k].toCl)
  BY <1>2
<1>4. \A i \in DOMAIN backlog : backlog[i] # k
  BY <1>1, AnswerFacts
<1>5. proc'[p] = r
  BY DEF Inv, Types
<1>6. r.phase = "told" /\ r.op = "close" => conn'[k].toCl = <<>>
  <2> SUFFICES ASSUME r.phase = "told", r.op = "close"
               PROVE  conn'[k].toCl = <<>>
    OBVIOUS
  <2>1. InDialogue /\ pm.conn = k
    BY <1>1, AnsweredServer DEF LastAnswered
  <2>2. conn[k].toCl = One(Ok)
    <3>1. Ok # AskAgain
      BY MessageFacts
    <3> QED BY <1>1, <2>1, <3>1, AnswerFacts
  <2> QED BY <1>3, <2>2, OkSaid
<1>7. OnTable(p)' = OnTable(p) /\ EntryOf(p)' = EntryOf(p)
  <2>1. EntryOf(p)' = EntryOf(p)
    BY <1>5 DEF EntryOf, shares
  <2>2. OnTable(p) <=> proc[p].listening \/ (pm.at = "final" /\ k = pm.conn)
    BY <1>1 DEF OnTable
  <2>3. OnTable(p)' <=> r.listening \/ (pm.at = "final" /\ k = pm.conn)
    BY <1>1, <1>5, <1>6 DEF OnTable
  <2> QED BY <2>1, <2>2, <2>3 DEF OnTable
<1> QED BY <1>1, <1>3, <1>4, <1>7, OwnTruth

LEMMA ResendTruth ==
  ASSUME Inv, Truth, NEW p \in Proc, Resend(p)
  PROVE  Truth'
<1>1. /\ HasAnswer(p) /\ proc[p].phase = "asked"
      /\ conn' = Replying(p, <<EventMsg(MyEvent(p))>>)
      /\ UNCHANGED <<pm, table, waiting, backlog, proc>>
  BY DEF Resend, EventMsg, MyEvent
<1>2. PICK r, msgs : r = proc[p] /\ msgs = <<EventMsg(MyEvent(p))>>
  OBVIOUS
<1>3. r \in ProcRec /\ proc' = [proc EXCEPT ![p] = r]
  BY <1>1, <1>2, TypesFields DEF Inv, Types
<1>4. msgs \in Seq(Message)
  <2>1. EventMsg(MyEvent(p)) \in Message
    BY MessageFacts, MyEventType
  <2> QED BY <1>2, <2>1, WrittenFacts
<1>5. conn' = Replying(p, msgs)
  BY <1>1, <1>2
<1> QED BY <1>1, <1>2, <1>3, <1>4, <1>5, ReplyTruth

LEMMA TellRestTruth ==
  ASSUME Inv, Truth, NEW p \in Proc, TellRest(p)
  PROVE  Truth'
<1>1. /\ HasAnswer(p) /\ proc[p].phase = "asked" /\ Answer(p) = Ok
      /\ conn' = Replying(p, Rest(p)) /\ proc' = [proc EXCEPT ![p].phase = "told"]
      /\ UNCHANGED <<pm, table, waiting, backlog>>
  BY DEF TellRest
<1>2. PICK r, msgs : r = [proc[p] EXCEPT !.phase = "told"] /\ msgs = Rest(p)
  OBVIOUS
<1>3. proc[p] \in ProcRec /\ proc \in [Proc -> ProcRec]
  BY TypesFields DEF Inv, Types
<1>4. /\ r \in ProcRec /\ r.phase = "told" /\ r.op = proc[p].op /\ r.conn = proc[p].conn
      /\ r.name = proc[p].name /\ r.port = proc[p].port /\ r.listening = proc[p].listening
  BY <1>2, <1>3 DEF ProcRec
<1>5. proc' = [proc EXCEPT ![p] = r]
  BY <1>1, <1>2, <1>3
<1>6. msgs \in Seq(Message)
  BY <1>1, <1>2, RestSaid
<1>7. conn' = Replying(p, msgs)
  BY <1>1, <1>2
<1>8. HasAnswer(p) /\ Answer(p) = Ok /\ UNCHANGED <<pm, table, waiting, backlog>>
  BY <1>1
<1> QED BY <1>1, <1>4, <1>5, <1>6, <1>7, <1>8, ReplyTruth

\* The rest of an event, or of a name, is that of a client.
LEMMA SendRestTruth ==
  ASSUME Inv, Truth, NEW p \in Proc, SendRest(p)
  PROVE  Truth'
<1>1. PICK k, r : k = proc[p].conn /\ r = [proc[p] EXCEPT !.op = "client"]
  OBVIOUS
<1>2. /\ k \in Conn /\ pm.conn = k /\ pm.at \in {"event", "cname"}
      /\ \A i \in DOMAIN backlog : backlog[i] # k
      /\ proc[p].op \in TornOps /\ proc[p].phase \in {"asked", "told"}
      /\ proc' = [proc EXCEPT ![p].op = "client"]
      /\ UNCHANGED <<pm, table, waiting, backlog>>
  BY <1>1, RestComes DEF SendRest, HalfRead
<1>3. proc[p] \in ProcRec /\ ProcOK(p) /\ proc \in [Proc -> ProcRec]
  BY TypesFields DEF Inv, Types
<1>4. /\ r.conn = k /\ r.op = "client" /\ r.listening = proc[p].listening
      /\ ~proc[p].listening
  BY <1>1, <1>2, <1>3 DEF ProcRec, ProcOK, TornOps
<1>5. proc' = [proc EXCEPT ![p] = r] /\ proc'[p] = r
  BY <1>1, <1>2, <1>3
<1>6. OnlyOne(conn, conn', k)
  <2>1. Inv'
    BY SendRestStep
  <2>2. conn' \in Conns
    BY <2>1 DEF Inv, Types
  <2>3. PICK m : conn' = [conn EXCEPT ![k].toPm = m]
    BY <1>2 DEF SendRest
  <2> QED BY <2>2, <2>3 DEF OnlyOne, Inv, Types, Conns
<1>7. ~OnTable(p) /\ ~OnTable(p)'
  BY <1>2, <1>4, <1>5 DEF OnTable
<1>8. OnTable(p)' = OnTable(p)
  BY <1>7 DEF OnTable
<1>9. r.op \notin ServerOps \cup {"close"}
  BY <1>4 DEF ServerOps
<1>10. /\ k = proc[p].conn /\ r.conn = k /\ proc' = [proc EXCEPT ![p] = r]
       /\ UNCHANGED <<pm, table, waiting, backlog>>
       /\ \A i \in DOMAIN backlog : backlog[i] # k
  BY <1>1, <1>2, <1>4, <1>5
<1>11. OnTable(p)' = OnTable(p) /\ (OnTable(p) => EntryOf(p)' = EntryOf(p))
  BY <1>7, <1>8
<1>12. r.conn \in {None, k}
  BY <1>10
<1> QED BY <1>6, <1>9, <1>10, <1>11, <1>12, OwnTruth

\* A process reads its last answer and closes.
LEMMA LastReplyTruth ==
  ASSUME Inv, Truth, NEW p \in Proc, HasAnswer(p), NEW msgs \in Seq(Message), NEW r, Gone(r),
         conn' = clCloses(Replying(p, msgs), proc[p].conn), proc' = [proc EXCEPT ![p] = r],
         UNCHANGED <<pm, table, waiting, backlog>>, ~OnTable(p),
         InDialogue /\ pm.conn = proc[p].conn =>
           pm.at \notin {"event", "host", "name", "port", "cport", "final"}
  PROVE  Truth'
<1>1. PICK k, d : k = proc[p].conn /\ d = clCloses(Replying(p, msgs), k)
  OBVIOUS
<1>2. OnlyOne(conn, d, k) /\ conn' = d
  BY <1>1, LastReplyFacts
<1>3. OnlyOne(conn, conn', k)
  BY <1>2
<1>4. \A i \in DOMAIN backlog : backlog[i] # k
  BY <1>1, AnswerFacts
<1>5. InDialogue /\ pm.conn = k => ~Needs(pm.at, conn'[k].toPm)
  BY <1>1 DEF Needs
<1> QED BY <1>1, <1>3, <1>4, <1>5, LeavesTruth

LEMMA EndsWithTruth ==
  ASSUME Inv, Truth, NEW p \in Proc,
         Sopen_client(p) \/ Srmsrvr(p) \/ SclosePM(p) \/ printPMtable(p)
  PROVE  Truth'
<1>1. /\ HasAnswer(p) /\ conn' = clCloses(Replying(p, <<>>), proc[p].conn)
      /\ proc[p].phase = "told" /\ proc[p].op \in Op \ ServerOps
      /\ proc' = [proc EXCEPT ![p] = Failed(proc[p])]
      /\ UNCHANGED <<pm, table, waiting, backlog>>
  BY DEF Sopen_client, Srmsrvr, SclosePM, printPMtable, endsWith, lastAnswer, Fails,
         Op, ServerOps
<1>2. ~(InDialogue /\ pm.conn = proc[p].conn)
  BY <1>1, AnswerFacts
<1>3. ~OnTable(p)
  <2>1. Calling(p) /\ conn[proc[p].conn].toCl # <<>>
    BY <1>1 DEF HasAnswer
  <2>2. proc[p].listening => proc[p].op = "close"
    BY <2>1, ListensFacts
  <2> QED BY <1>1, <1>2, <2>1, <2>2 DEF OnTable, InDialogue
<1>4. <<>> \in Seq(Message)
  BY WrittenFacts, MessageFacts
<1>5. Gone(Failed(proc[p]))
  BY GoneFacts
<1> QED BY <1>1, <1>2, <1>3, <1>4, <1>5, LastReplyTruth

LEMMA ClosesAtOnceTruth ==
  ASSUME Inv, Truth, NEW p \in Proc, Tfwinit(p) \/ Tshut(p)
  PROVE  Truth'
<1>1. /\ HasAnswer(p) /\ proc' = [proc EXCEPT ![p] = Idle] /\ Gone(Idle)
      /\ proc[p].phase = "asked" /\ Answer(p) = Ok /\ proc[p].op \in {"fwinit", "quit"}
      /\ UNCHANGED <<pm, table, waiting, backlog>>
  BY GoneFacts DEF Tfwinit, Tshut, doneAtOnce
<1>2. \/ \E msgs \in Seq(Message) : conn' = clCloses(Replying(p, msgs), proc[p].conn)
      \/ conn' = Replying(p, <<>>)
  <2>1. CASE Tfwinit(p)
    <3>1. <<>> \in Seq(Message)
      BY WrittenFacts, MessageFacts
    <3> QED BY <2>1, <3>1 DEF Tfwinit
  <2>2. CASE Tshut(p)
    <3>1. conn' = clCloses(Replying(p, <<NameMsg("PortMaster")>>), proc[p].conn)
      BY <2>2 DEF Tshut, NameMsg
    <3>2. <<NameMsg("PortMaster")>> \in Seq(Message)
      BY WrittenFacts, MessageFacts
    <3> QED BY <3>1, <3>2
  <2> QED BY <1>1, <2>1, <2>2
<1>3. InDialogue /\ pm.conn = proc[p].conn => pm.at = "qname"
  <2> SUFFICES ASSUME InDialogue, pm.conn = proc[p].conn
               PROVE  pm.at = "qname"
    OBVIOUS
  <2>1. MyEvent(p) \in DOMAIN Opening /\ pm.at = Opening[MyEvent(p)]
    <3>1. Ok # AskAgain
      BY MessageFacts
    <3> QED BY <1>1, <3>1, AnswerFacts
  <2> QED BY <1>1, <2>1 DEF MyEvent, EventOf, Opening
<1>4. ~OnTable(p)
  <2>1. ~proc[p].listening
    BY <1>1, ListensFacts DEF Calling
  <2> QED BY <1>3, <2>1 DEF OnTable, InDialogue
<1>5. CASE \E msgs \in Seq(Message) : conn' = clCloses(Replying(p, msgs), proc[p].conn)
  BY <1>1, <1>3, <1>4, <1>5, LastReplyTruth
<1>6. CASE conn' = Replying(p, <<>>)
  <2>1. PICK l, d, msgs : l = proc[p].conn /\ d = Replying(p, msgs) /\ msgs = <<>>
    OBVIOUS
  <2>2. msgs \in Seq(Message)
    BY <2>1, WrittenFacts, MessageFacts
  <2>3. OnlyOne(conn, d, l)
    BY <1>1, <2>1, <2>2, ReplyFacts
  <2>4. conn' = d
    BY <1>6, <2>1
  <2>5. OnlyOne(conn, conn', l)
    BY <2>3, <2>4
  <2>6. \A i \in DOMAIN backlog : backlog[i] # l
    BY <1>1, <2>1, AnswerFacts
  <2>7. InDialogue /\ pm.conn = l => ~Needs(pm.at, conn'[l].toPm)
    BY <1>3, <2>1 DEF Needs
  <2> QED BY <1>1, <1>4, <2>1, <2>5, <2>6, <2>7, LeavesTruth
<1> QED BY <1>2, <1>5, <1>6

\* A server that has PM_OK for its port is the one whose entry was just made, and it
\* listens before the dialogue goes on.
LEMMA SopenServerTruth ==
  ASSUME Inv, Truth, NEW p \in Proc, Sopen_server(p)
  PROVE  Truth'
<1>1. /\ HasAnswer(p) /\ proc[p].phase = "told" /\ proc[p].op \in ServerOps
      /\ Calling(p) /\ ~proc[p].listening
      /\ UNCHANGED <<pm, table, waiting, backlog>>
  <2>1. /\ HasAnswer(p) /\ proc[p].phase = "told" /\ proc[p].op \in ServerOps
        /\ UNCHANGED <<pm, table, waiting, backlog>>
    BY DEF Sopen_server, lastAnswer, ServerOps
  <2> QED BY <2>1, ListensFacts DEF Calling, ServerOps
<1>2. PICK k : k = proc[p].conn
  OBVIOUS
<1>3. InDialogue /\ pm.conn = k => /\ pm.at = "final" /\ conn[k].toPm = <<>>
                                   /\ Answer(p) = Ok /\ conn[k].pm
  <2> SUFFICES ASSUME InDialogue, pm.conn = k
               PROVE  /\ pm.at = "final" /\ conn[k].toPm = <<>> /\ Answer(p) = Ok
                      /\ conn[k].pm
    OBVIOUS
  <2>1. pm.at = "final" /\ conn[k].toPm = <<>> /\ conn[k].pm
    BY <1>1, <1>2, AnswerFacts
  <2>2. conn[k].toCl = One(Ok)
    BY <1>1, <1>2, <2>1 DEF Inv, DialogueInv, Talks, Asked, Told
  <2>3. Answer(p) = Ok
    BY <1>2, <2>2, OkSaid DEF Answer
  <2> QED BY <2>1, <2>3
<1>4. ~(InDialogue /\ pm.conn = k) => Answer(p) # Ok
  <2> SUFFICES ASSUME ~(InDialogue /\ pm.conn = k)
               PROVE  Answer(p) # Ok
    OBVIOUS
  <2>1. conn[k].toCl = One(Sorry)
    BY <1>1, <1>2, AnsweredServer DEF LastAnswered
  <2>2. Answer(p) = Sorry
    BY <1>2, <2>1, OkSaid DEF Answer
  <2> QED BY <2>2, MessageFacts
<1>5. CASE InDialogue /\ pm.conn = k
  <2>1. PICK r, d : /\ r = [proc[p] EXCEPT !.op = "none", !.phase = "idle", !.conn = None,
                                           !.listening = TRUE]
                    /\ d = clCloses(Replying(p, <<Ok>>), k)
    OBVIOUS
  <2>2. /\ conn' = clCloses(Replying(p, <<Ok>>), k)
        /\ proc' = [proc EXCEPT ![p].op = "none", ![p].phase = "idle",
                                ![p].conn = None, ![p].listening = TRUE]
    BY <1>2, <1>3, <1>5 DEF Sopen_server
  <2>3. proc[p] \in ProcRec /\ proc \in [Proc -> ProcRec]
    BY TypesFields DEF Inv, Types
  <2>4. /\ r.conn = None /\ r.port = proc[p].port /\ r.phase = "idle" /\ r.listening
        /\ r.op = "none" /\ r.name = proc[p].name
    BY <2>1, <2>3 DEF ProcRec
  <2>5. proc' = [proc EXCEPT ![p] = r] /\ proc'[p] = r
    BY <2>1, <2>2, <2>3
  <2>6. <<Ok>> \in Seq(Message) /\ <<>> \o <<Ok>> = One(Ok)
    BY WrittenFacts, MessageFacts
  <2>7. OnlyOne(conn, d, k) /\ (conn[k].pm => d[k].toPm = conn[k].toPm \o <<Ok>>)
    <3>1. \A j, e : j = proc[p].conn /\ e = clCloses(Replying(p, <<Ok>>), j) =>
            /\ OnlyOne(conn, e, j) /\ e[j].pm = conn[j].pm
            /\ conn[j].pm => e[j].toPm = conn[j].toPm \o <<Ok>>
      BY <1>1, <2>6, LastReplyFacts, Zenon
    <3> QED BY <1>2, <2>1, <3>1
  <2>8. conn' = d
    BY <2>1, <2>2
  <2>9. conn'[k].toPm = One(Ok)
    BY <1>3, <1>5, <2>6, <2>7, <2>8
  <2>10. OnlyOne(conn, conn', k)
    BY <2>7, <2>8
  <2>11. \A i \in DOMAIN backlog : backlog[i] # k
    BY <1>1, <1>2, AnswerFacts
  <2>12. OnTable(p)' = OnTable(p) /\ EntryOf(p)' = EntryOf(p)
    <3>1. OnTable(p)
      BY <1>2, <1>3, <1>5 DEF OnTable
    <3>2. OnTable(p)'
      BY <2>4, <2>5 DEF OnTable
    <3> QED BY <2>4, <2>5, <3>1, <3>2 DEF EntryOf, shares, OnTable
  <2>13. ~Needs(pm.at, conn'[k].toPm)
    BY <1>3, <1>5, <2>9, OkSaid DEF Needs
  <2>14. proc' = [proc EXCEPT ![p] = r]
    BY <2>5
  <2> QED BY <1>1, <1>2, <2>4, <2>10, <2>11, <2>12, <2>13, <2>14, OwnTruth
<1>6. CASE ~(InDialogue /\ pm.conn = k)
  <2>1. /\ conn' = clCloses(Replying(p, <<>>), proc[p].conn)
        /\ proc' = [proc EXCEPT ![p] = Failed(proc[p])]
    BY <1>4, <1>6 DEF Sopen_server, Fails
  <2>2. <<>> \in Seq(Message)
    BY WrittenFacts, MessageFacts
  <2>3. Gone(Failed(proc[p]))
    BY GoneFacts
  <2>4. ~OnTable(p)
    BY <1>1, <1>2, <1>6 DEF OnTable, InDialogue
  <2> QED BY <1>1, <1>2, <1>6, <2>1, <2>2, <2>3, <2>4, LastReplyTruth
<1> QED BY <1>5, <1>6

\* Who finds its connection closed, with no answer, has no entry in the table.
LEMMA LosesTouchTruth ==
  ASSUME Inv, Truth, NEW p \in Proc, LosesTouch(p), ~goesWrong
  PROVE  Truth'
<1>1. PICK k : k = proc[p].conn
  OBVIOUS
<1>2. /\ Calling(p) /\ conn[k].toCl = <<>> /\ ~conn[k].pm
      /\ UNCHANGED <<pm, table, waiting, backlog>>
  BY <1>1 DEF LosesTouch, HasAnswer
<1>3. k \in Conn /\ k # None /\ conn \in Conns
  BY <1>1, <1>2, CallConn DEF Inv, Types, Calling
<1>4. /\ \A i \in DOMAIN backlog : backlog[i] # k
      /\ ~(InDialogue /\ pm.conn = k)
  BY <1>2 DEF Inv, ListInv, InDialogue, Busy
<1>5. proc[p].op \notin ServerOps \cup {"close"}
  BY <1>1, <1>2, <1>4 DEF Truth, Attended, LastAnswered, InBacklog
<1>6. ~OnTable(p) /\ ~proc[p].listening
  <2>1. ~proc[p].listening
    BY <1>2, <1>5, ListensFacts
  <2> QED BY <1>1, <1>4, <2>1 DEF OnTable, InDialogue
<1>7. CASE ~(proc[p].op \in {"remove", "purge"} /\ proc[p].phase = "told")
  <2>1. proc' = [proc EXCEPT ![p] = Failed(proc[p])] /\ conn' = clCloses(conn, k)
    BY <1>1, <1>5, <1>7 DEF LosesTouch, Fails
  <2>2. OnlyOne(conn, conn', k)
    <3>1. PICK d : d = clCloses(conn, k)
      OBVIOUS
    <3>2. OnlyOne(conn, d, k) /\ conn' = d
      BY <1>3, <2>1, <3>1, ClClosesFacts
    <3> QED BY <3>2
  <2>3. Gone(Failed(proc[p]))
    BY GoneFacts
  <2> QED BY <1>1, <1>2, <1>4, <1>6, <2>1, <2>2, <2>3, LeavesTruth
<1>8. CASE proc[p].op \in {"remove", "purge"} /\ proc[p].phase = "told"
  <2>1. PICK r : r = [proc[p] EXCEPT !.phase = "spin"]
    OBVIOUS
  <2>2. proc' = [proc EXCEPT ![p].phase = "spin"] /\ UNCHANGED conn
    BY <1>8 DEF LosesTouch
  <2>3. proc[p] \in ProcRec /\ proc \in [Proc -> ProcRec]
    BY TypesFields DEF Inv, Types
  <2>4. r.conn = k /\ r.phase = "spin" /\ ~r.listening
    BY <1>1, <1>6, <2>1, <2>3 DEF ProcRec
  <2>5. proc' = [proc EXCEPT ![p] = r] /\ proc'[p] = r
    BY <2>1, <2>2, <2>3
  <2>6. OnlyOne(conn, conn', k)
    BY <2>2, SameConns
  <2>7. OnTable(p)' = OnTable(p)
    BY <1>2, <1>4, <1>6, <2>4, <2>5 DEF OnTable, InDialogue
  <2>8. proc' = [proc EXCEPT ![p] = r]
    BY <2>5
  <2> QED BY <1>1, <1>2, <1>4, <1>6, <2>4, <2>6, <2>7, <2>8, OwnTruth
<1> QED BY <1>7, <1>8

\* A process connects: its connection is the last of the backlog.
LEMMA ConnectTruth ==
  ASSUME Inv, Truth, NEW p \in Proc, NEW k \in Conn, conn[k] = Free,
         backlog' = Append(backlog, k), NEW new \in ConnRec, conn' = [conn EXCEPT ![k] = new],
         UNCHANGED <<pm, table, waiting>>, proc[p].phase \in {"idle", "next"},
         \/ UNCHANGED proc /\ new.toPm = <<>>
         \/ \E r \in ProcRec :
              /\ proc' = [proc EXCEPT ![p] = r] /\ r.conn = k /\ r.phase = "asked"
              /\ r.listening = proc[p].listening
              /\ r.listening => r.name = proc[p].name /\ r.port = proc[p].port
  PROVE  Truth'
<1>1. conn \in Conns /\ proc \in [Proc -> ProcRec] /\ backlog \in Seq(Conn)
  BY DEF Inv, Types
<1>2. conn'[k] = new /\ \A j \in Conn \ {k} : conn'[j] = conn[j]
  BY <1>1 DEF Conns
<1>3. /\ \A i \in DOMAIN backlog : backlog[i] # k /\ backlog[i] \in Conn
      /\ Busy => pm.conn # k
      /\ \A q \in Proc : proc[q].conn # k
      /\ k # None /\ proc[p].conn = None
  BY FreeUnused, TypesFields, PortMasterAssumption DEF Inv, ProcOK
<1>4. \/ UNCHANGED proc /\ new.toPm = <<>>
      \/ /\ proc'[p].conn = k /\ proc'[p].phase = "asked"
         /\ proc'[p].listening = proc[p].listening
         /\ proc[p].listening => EntryOf(p)' = EntryOf(p)
  BY <1>1 DEF EntryOf, shares
<1>5. \A q \in Proc \ {p} : proc'[q] = proc[q]
  BY <1>1
<1>6. /\ DOMAIN backlog = 1..Len(backlog) /\ Len(backlog) \in Nat
      /\ DOMAIN backlog' = 1..(Len(backlog) + 1)
      /\ \A i \in 1..Len(backlog) : backlog'[i] = backlog[i]
      /\ backlog'[Len(backlog) + 1] = k
  <2>1. PICK b : b = Append(backlog, k)
    OBVIOUS
  <2>2. /\ b \in Seq(Conn) /\ Len(b) = Len(backlog) + 1
        /\ \A i \in 1..Len(backlog) : b[i] = backlog[i]
        /\ b[Len(backlog) + 1] = k
    BY <1>1, <2>1, Appended
  <2>3. /\ DOMAIN backlog = 1..Len(backlog) /\ Len(backlog) \in Nat
        /\ DOMAIN b = 1..(Len(backlog) + 1)
    BY <1>1, <2>2, LenProperties
  <2>4. backlog' = b
    BY <2>1, Zenon
  <2> QED BY <2>2, <2>3, <2>4, Zenon
<1>7. \A c : InBacklog(c) => InBacklog(c)'
  BY <1>6 DEF InBacklog
<1>8. InBacklog(k)'
  BY <1>6 DEF InBacklog
<1>9. \A q \in Proc : OnTable(q)' = OnTable(q) /\ (OnTable(q) => EntryOf(q)' = EntryOf(q))
  <2> SUFFICES ASSUME NEW q \in Proc
               PROVE  OnTable(q)' = OnTable(q) /\ (OnTable(q) => EntryOf(q)' = EntryOf(q))
    OBVIOUS
  <2>1. CASE proc'[q] = proc[q]
    <3>1. proc[q].phase = "told" => conn'[proc[q].conn] = conn[proc[q].conn]
      BY <1>2, <1>3, CallConn
    <3> QED BY <2>1, <3>1, SameOnTable
  <2>2. CASE proc'[q] # proc[q]
    <3>1. /\ q = p /\ proc'[p].conn = k /\ proc'[p].phase = "asked"
          /\ proc'[p].listening = proc[p].listening
          /\ proc[p].listening => EntryOf(p)' = EntryOf(p)
      BY <1>4, <1>5, <2>2
    <3>2. pm.at = "final" => pm.conn # None /\ pm.conn # k
      BY <1>3, PortMasterAssumption DEF Inv, ListInv, Busy
    <3>3. OnTable(p)' <=> proc[p].listening
      BY <3>1, <3>2 DEF OnTable
    <3>4. OnTable(p) <=> proc[p].listening
      BY <1>3, <3>2 DEF OnTable
    <3> QED BY <3>1, <3>3, <3>4 DEF OnTable
  <2> QED BY <2>1, <2>2
<1>10. PortsApart' /\ Entered' /\ Owned'
  BY <1>9, SameTable
<1>11. HeadInv' /\ TellInv'
  BY SameWaiting
<1>12. Attended'
  <2> SUFFICES ASSUME NEW q \in Proc, Calling(q)', proc'[q].op \in ServerOps \cup {"close"}
               PROVE  \/ (\E i \in DOMAIN backlog' : backlog'[i] = proc'[q].conn)
                      \/ InDialogue /\ pm.conn = proc'[q].conn
                      \/ LastAnswered(q)'
    BY DEF Attended, InBacklog, InDialogue
  <2>1. CASE proc'[q] = proc[q]
    <3>1. Calling(q)
      BY <2>1 DEF Calling
    <3>2. \/ InBacklog(proc[q].conn)
          \/ InDialogue /\ pm.conn = proc[q].conn
          \/ LastAnswered(q)
      BY <2>1, <3>1 DEF Truth, Attended
    <3>3. conn'[proc[q].conn] = conn[proc[q].conn]
      BY <1>2, <1>3, <3>1, CallConn DEF Calling
    <3>4. InBacklog(proc[q].conn) => (\E i \in DOMAIN backlog' : backlog'[i] = proc'[q].conn)
      BY <1>7, <2>1 DEF InBacklog
    <3> QED BY <2>1, <3>2, <3>3, <3>4 DEF LastAnswered
  <2>2. CASE proc'[q] # proc[q]
    <3>1. proc'[q].conn = k
      BY <1>4, <1>5, <2>2
    <3> QED BY <1>8, <3>1 DEF InBacklog
  <2> QED BY <2>1, <2>2
<1>13. NoStrays'
  <2>1. \A c \in Conn : (\E q \in Proc : proc[q].conn = c) => \E q \in Proc : proc'[q].conn = c
    <3> SUFFICES ASSUME NEW c \in Conn, NEW q \in Proc, proc[q].conn = c
                 PROVE  \E s \in Proc : proc'[s].conn = c
      OBVIOUS
    <3>1. q # p
      BY <1>3, PortMasterAssumption
    <3> QED BY <1>5, <3>1
  <2>2. ASSUME NEW i \in DOMAIN backlog', conn'[backlog'[i]].toPm # <<>>
        PROVE  \E q \in Proc : proc'[q].conn = backlog'[i]
    <3>1. CASE i = Len(backlog) + 1
      <4>1. backlog'[i] = k
        BY <1>6, <3>1
      <4> QED BY <1>2, <1>4, <2>2, <4>1
    <3>2. CASE i # Len(backlog) + 1
      <4>1. i \in DOMAIN backlog /\ backlog'[i] = backlog[i]
        BY <1>6, <3>2
      <4>2. conn'[backlog[i]] = conn[backlog[i]] /\ backlog[i] \in Conn
        BY <1>2, <1>3, <4>1
      <4> QED BY <2>1, <2>2, <4>1, <4>2 DEF Truth, NoStrays
    <3> QED BY <3>1, <3>2
  <2>3. InDialogue => pm.conn \in Conn /\ conn'[pm.conn] = conn[pm.conn]
    BY <1>2, <1>3 DEF Inv, ListInv, InDialogue, Busy
  <2>4. InDialogue /\ Needs(pm.at, conn'[pm.conn].toPm) => \E q \in Proc : proc'[q].conn = pm.conn
    BY <2>1, <2>3 DEF Truth, NoStrays
  <2> QED BY <2>2, <2>4 DEF NoStrays, InDialogue
<1> QED BY <1>10, <1>11, <1>12, <1>13 DEF Truth

LEMMA NewCallTruth ==
  ASSUME Inv, Truth, NEW p \in Proc, proc[p].phase \in {"idle", "next"}, NEW rec \in ProcRec,
         NEW op \in Op, Connect(p, rec, op), UNCHANGED <<pm, table, waiting>>,
         rec.listening = proc[p].listening,
         rec.listening => rec.name = proc[p].name /\ rec.port = proc[p].port
  PROVE  Truth'
<1>1. PICK k \in Conn :
        /\ Sopen_clientport(k, [connected(p) EXCEPT !.toPm = << <<EventOf(p, op)>> >>])
        /\ proc' = [proc EXCEPT ![p] = [rec EXCEPT !.op = op, !.phase = "asked", !.conn = k]]
  BY DEF Connect
<1>2. PICK r, new, m : /\ r = [rec EXCEPT !.op = op, !.phase = "asked", !.conn = k]
                       /\ m = << <<EventOf(p, op)>> >>
                       /\ new = [connected(p) EXCEPT !.toPm = m]
  OBVIOUS
<1>3. /\ r \in ProcRec /\ r.phase = "asked" /\ r.conn = k
      /\ r.name = rec.name /\ r.port = rec.port /\ r.listening = rec.listening
  BY <1>2 DEF ProcRec
<1>4. m \in Seq(Message)
  <2>1. EventMsg(EventOf(p, op)) \in Message
    BY MessageFacts DEF EventOf, Events
  <2> QED BY <1>2, <2>1, OneFacts DEF EventMsg
<1>5. new \in ConnRec
  BY <1>2, <1>4, ConnectedFacts
<1>6. proc' = [proc EXCEPT ![p] = r]
  BY <1>1, <1>2
<1>7. conn[k] = Free /\ backlog' = Append(backlog, k) /\ conn' = [conn EXCEPT ![k] = new]
  BY <1>1, <1>2 DEF Sopen_clientport, FreeConn
<1>8. \E s \in ProcRec :
        /\ proc' = [proc EXCEPT ![p] = s] /\ s.conn = k /\ s.phase = "asked"
        /\ s.listening = proc[p].listening
        /\ s.listening => s.name = proc[p].name /\ s.port = proc[p].port
  BY <1>3, <1>6
<1>9. backlog' = Append(backlog, k)
  BY <1>7
<1>10. conn[k] = Free /\ conn' = [conn EXCEPT ![k] = new]
  BY <1>7
<1> QED BY <1>5, <1>8, <1>9, <1>10, ConnectTruth

LEMMA ServerCallTruth ==
  ASSUME Inv, Truth, NEW p \in Proc, proc[p].phase \in {"idle", "next"}, NEW op \in ServerOps,
         NEW n \in Name, ConnectServer(p, op, n), UNCHANGED <<pm, table, waiting>>,
         ~proc[p].listening
  PROVE  Truth'
<1>1. PICK q \in FreePort(p) : Connect(p, [Idle EXCEPT !.name = n, !.port = q], op)
  BY DEF ConnectServer
<1>2. PICK rec : rec = [Idle EXCEPT !.name = n, !.port = q]
  OBVIOUS
<1>3. rec \in ProcRec /\ rec.listening = FALSE
  BY <1>1, <1>2 DEF Idle, ProcRec, FreePort
<1>4. Connect(p, rec, op) /\ op \in Op
  BY <1>1, <1>2 DEF ServerOps, Op
<1>5. rec.listening = proc[p].listening
  BY <1>3, TypesFields DEF Inv, ProcRec
<1> QED BY <1>3, <1>4, <1>5, NewCallTruth

LEMMA CallTruth ==
  ASSUME Inv, Truth, NEW p \in Proc, Call(p)
  PROVE  Truth'
<1>1. /\ proc[p].phase = "idle" /\ proc[p].listening = FALSE
      /\ UNCHANGED <<pm, table, waiting>>
  BY DEF Call, Idle
<1>2. PICK c \in Calls[p] :
        LET op == c[1]
            n == c[2]
        IN  CASE op \in {"server", "Server"} -> ConnectServer(p, op, n)
              [] op \notin {"server", "Server", "close", "purge", "check"} ->
                    Connect(p, [Idle EXCEPT !.name = n], op)
              [] OTHER -> FALSE
  BY DEF Call
<1>3. /\ c[1] \in Op /\ c[2] \in Name \cup {None}
      /\ c[1] \in NamedOps => c[2] \in Name
  BY PortMasterAssumption
<1>4. CASE c[1] \in ServerOps
  <2>1. ConnectServer(p, c[1], c[2]) /\ c[2] \in Name
    BY <1>2, <1>3, <1>4 DEF ServerOps, NamedOps
  <2> QED BY <1>1, <1>4, <2>1, ServerCallTruth
<1>5. CASE c[1] \notin ServerOps
  <2>1. PICK rec : rec = [Idle EXCEPT !.name = c[2]]
    OBVIOUS
  <2>2. Connect(p, rec, c[1])
    BY <1>2, <1>5, <2>1 DEF ServerOps
  <2>3. rec \in ProcRec /\ rec.listening = FALSE
    BY <1>3, <2>1 DEF Idle, ProcRec
  <2> QED BY <1>1, <1>3, <2>2, <2>3, NewCallTruth
<1> QED BY <1>4, <1>5

LEMMA CheckTruth ==
  ASSUME Inv, Truth, NEW p \in Proc, spmchk(p)
  PROVE  Truth'
<1>1. PICK k \in Conn : Sopen_clientport(k, [connected(p) EXCEPT !.cl = FALSE])
  BY DEF spmchk
<1>2. PICK new : new = [connected(p) EXCEPT !.cl = FALSE]
  OBVIOUS
<1>3. new \in ConnRec /\ new.toPm = <<>>
  BY <1>2, ConnectedFacts
<1>4. conn[k] = Free /\ conn' = [conn EXCEPT ![k] = new]
  BY <1>1, <1>2 DEF Sopen_clientport, FreeConn
<1>5. backlog' = Append(backlog, k)
  BY <1>1 DEF Sopen_clientport
<1>6. UNCHANGED <<pm, table, waiting, proc>> /\ proc[p].phase = "idle"
  BY DEF spmchk, Idle
<1> QED BY <1>3, <1>4, <1>5, <1>6, ConnectTruth

LEMMA SclosesTruth ==
  ASSUME Inv, Truth, NEW p \in Proc, Sclose(p)
  PROVE  Truth'
<1>1. /\ proc[p].phase = "idle" /\ proc[p] \in ProcRec /\ UNCHANGED <<pm, table, waiting>>
      /\ Connect(p, proc[p], "close")
  BY TypesFields DEF Sclose, Truth, Inv
<1>2. "close" \in Op
  BY DEF Op
<1> QED BY <1>1, <1>2, NewCallTruth

LEMMA CallNextTruth ==
  ASSUME Inv, Truth, NEW p \in Proc, CallNext(p)
  PROVE  Truth'
<1>1. /\ proc[p].phase = "next" /\ proc[p] \in ProcRec /\ pm.at # "dead"
      /\ UNCHANGED <<pm, table, waiting>>
  BY TypesFields DEF CallNext, Truth, Inv
<1>2. proc[p].op \in {"server", "purge"} /\ proc[p].name \in Name /\ ~proc[p].listening
  BY <1>1 DEF Inv, ProcOK
<1>3. CASE proc[p].op = "server"
  <2>1. ConnectServer(p, "server", proc[p].name)
    BY <1>1, <1>3 DEF CallNext
  <2> QED BY <1>1, <1>2, <2>1, ServerCallTruth DEF ServerOps
<1>4. CASE proc[p].op = "purge"
  <2>1. Connect(p, proc[p], "purge") /\ "purge" \in Op
    BY <1>1, <1>4 DEF CallNext, Op
  <2> QED BY <1>1, <2>1, NewCallTruth
<1> QED BY <1>2, <1>3, <1>4

\* What goes wrong is counted.
LEMMA CountedWrong ==
  ASSUME [Next]_vars
  PROVE  goesWrong \/ UNCHANGED mishap
<1>1. CASE PmStep \/ PmKilled \/ Sopen_prtmstr
  <2>1. CASE Accept \/ BeginDialogue \/ pm_table \/ pm_fwinit \/ Unknown
    BY <2>1 DEF Accept, BeginDialogue, pm_table, pm_fwinit, Unknown
  <2>2. CASE ReadHost \/ ReadName \/ ReadPort \/ ReadFinalOk \/ TellWaiting \/ EndTelling
    BY <2>2 DEF ReadHost, ReadName, ReadPort, ReadFinalOk, TellWaiting, EndTelling
  <2>3. CASE pm_client \/ pm_close \/ pm_rmserver \/ pm_quit \/ longjmp
    BY <2>3 DEF pm_client, pm_close, pm_rmserver, pm_quit, longjmp, pmEnds
  <2>5. CASE CutName \/ Spins
    BY <2>5 DEF CutName, Spins
  <2>4. CASE PmKilled \/ Sopen_prtmstr
    BY <2>4 DEF PmKilled, Sopen_prtmstr, pmEnds
  <2> QED BY <1>1, <2>1, <2>2, <2>3, <2>4, <2>5 DEF PmStep
<1>2. ASSUME NEW p \in Proc,
             Call(p) \/ spmchk(p) \/ Sclose(p) \/ CallNext(p) \/ Refused(p) \/ Resend(p)
               \/ TellRest(p) \/ SendRest(p) \/ Tfwinit(p) \/ Tshut(p)
      PROVE  UNCHANGED mishap
  BY <1>2 DEF Call, spmchk, Sclose, CallNext, Refused, Resend, TellRest, SendRest, Tfwinit,
              Tshut, doneAtOnce
<1>3. ASSUME NEW p \in Proc,
             Sopen_server(p) \/ Sopen_client(p) \/ Srmsrvr(p) \/ SclosePM(p)
               \/ printPMtable(p) \/ LosesTouch(p) \/ Kill(p)
      PROVE  goesWrong \/ UNCHANGED mishap
  BY <1>3 DEF Sopen_server, Sopen_client, Srmsrvr, SclosePM, printPMtable, endsWith,
              LosesTouch, Kill
<1>4. CASE UNCHANGED vars
  BY <1>4 DEF vars
<1> QED BY <1>1, <1>2, <1>3, <1>4 DEF Next

LEMMA InitTruth ==
  ASSUME Init
  PROVE  TruthInv
<1>1. DOMAIN table = {} /\ DOMAIN backlog = {} /\ waiting = <<>> /\ pm.at = "accept"
  BY AcceptingRec DEF Init
<1>2. \A p \in Proc : proc[p].phase = "idle" /\ ~proc[p].listening
  BY DEF Init, Idle
<1>3. PortsApart /\ Owned
  BY <1>1 DEF PortsApart, Owned
<1>4. Entered
  BY <1>1, <1>2 DEF Entered, OnTable
<1>5. Attended
  BY <1>2 DEF Attended, Calling
<1>6. NoStrays
  BY <1>1 DEF NoStrays, InDialogue
<1>7. HeadInv /\ TellInv
  BY <1>1 DEF HeadInv, TellInv
<1> QED BY <1>1, <1>3, <1>4, <1>5, <1>6, <1>7 DEF TruthInv, Truth

LEMMA SameTruth ==
  ASSUME Truth, UNCHANGED vars
  PROVE  Truth'
<1>1. UNCHANGED <<pm, table, waiting, backlog, conn, proc>>
  BY DEF vars
<1>2. \A p \in Proc : OnTable(p)' = OnTable(p) /\ EntryOf(p)' = EntryOf(p)
  BY <1>1 DEF OnTable, EntryOf, shares
<1>3. PortsApart' /\ Entered' /\ Owned'
  BY <1>1, <1>2, SameTable
<1>4. HeadInv' /\ TellInv'
  BY <1>1, SameWaiting
<1>5. Attended' /\ NoStrays'
  BY <1>1 DEF Truth, Attended, NoStrays, Calling, InBacklog, InDialogue, LastAnswered
<1> QED BY <1>1, <1>3, <1>4, <1>5 DEF Truth

\* Each step keeps the table true, as long as nothing goes wrong.
LEMMA NextTruth ==
  ASSUME Inv, TruthInv, [Next]_vars
  PROVE  TruthInv'
<1> SUFFICES ASSUME mishap' = 0
             PROVE  Truth'
  BY DEF TruthInv
<1>1. ~goesWrong /\ Truth
  BY GoesWrong, CountedWrong DEF Inv, TruthInv
<1>2. CASE PmStep \/ PmKilled \/ Sopen_prtmstr
  <2>1. CASE Accept \/ BeginDialogue \/ pm_table \/ pm_fwinit \/ Unknown
    BY <1>1, <2>1, AcceptTruth, EventStepTruth
  <2>2. CASE ReadHost \/ ReadName \/ ReadPort \/ ReadFinalOk \/ TellWaiting \/ EndTelling
    BY <1>1, <2>2, ReadStepTruth, PortTruth, FinalOkTruth, TellTruth, GoneTruth
  <2>3. CASE pm_client \/ pm_close \/ pm_quit \/ longjmp \/ CutName \/ Spins
    BY <1>1, <2>3, ClientTruth, CloseTruth, QuitTruth, GoneTruth
  <2>4. ~(pm_rmserver \/ PmKilled \/ Sopen_prtmstr)
    BY <1>1 DEF pm_rmserver, PmKilled, Sopen_prtmstr, pmEnds, Truth
  <2> QED BY <1>2, <2>1, <2>2, <2>3, <2>4 DEF PmStep
<1>3. ASSUME NEW p \in Proc,
             Call(p) \/ spmchk(p) \/ Sclose(p) \/ CallNext(p) \/ Refused(p) \/ Resend(p)
               \/ TellRest(p) \/ SendRest(p) \/ Tfwinit(p) \/ Tshut(p)
      PROVE  Truth'
  BY <1>1, <1>3, CallTruth, CheckTruth, SclosesTruth, CallNextTruth, RefusedTruth, ResendTruth,
     TellRestTruth, SendRestTruth, ClosesAtOnceTruth
<1>4. ASSUME NEW p \in Proc,
             Sopen_server(p) \/ Sopen_client(p) \/ Srmsrvr(p) \/ SclosePM(p)
               \/ printPMtable(p) \/ LosesTouch(p) \/ Kill(p)
      PROVE  Truth'
  <2>1. ~Kill(p)
    BY <1>1 DEF Kill
  <2> QED BY <1>1, <1>4, <2>1, SopenServerTruth, EndsWithTruth, LosesTouchTruth
<1>5. CASE UNCHANGED vars
  BY <1>1, <1>5, SameTruth
<1> QED BY <1>2, <1>3, <1>4, <1>5 DEF Next

\* What the last three theorems follow from: the dialogues go as they should, whoever gives
\* up (Inv), and as long as nobody does the table is true (TruthInv).
THEOREM TruthAlways == Spec => [](Inv /\ TruthInv)
<1>1. Init => Inv /\ TruthInv
  BY InitInv, InitTruth
<1>2. Inv /\ TruthInv /\ [Next]_vars => Inv' /\ TruthInv'
  BY NextInv, NextTruth
<1> QED BY <1>1, <1>2, PTL DEF Spec

\* A server that listens, and does not close, is in the table.
LEMMA ListenerEntered ==
  ASSUME Truth, NEW p \in Proc, proc[p].listening, proc[p].op = "none"
  PROVE  \E i \in DOMAIN table : table[i] = EntryOf(p)
BY DEF Truth, Entered, OnTable

\* Until a process is killed, a wait times out, an entry is removed by name or two servers
\* have one port: every server that listens is in the table, and every entry is that of a
\* process (pm_server, pm_close, Sopen_server, SclosePM).
THEOREM TableIsTrueAlways == Spec => []TableIsTrue
<1>1. Inv /\ TruthInv => TableIsTrue
  <2> SUFFICES ASSUME Truth
               PROVE  /\ \A p \in Proc : proc[p].listening /\ proc[p].op = "none" =>
                           \E i \in DOMAIN table : table[i] = EntryOf(p)
                      /\ \A i \in DOMAIN table : \E p \in Proc : table[i] = EntryOf(p)
    BY DEF TableIsTrue, TruthInv
  <2> QED BY ListenerEntered DEF Truth, Owned
<1> QED BY <1>1, TruthAlways, PTL

\* Under the same condition the client that waits first is not waiting for a server that
\* listens, when the PortMaster is ready for the next connection (pm_server's last loop).
THEOREM HeadNotForgottenAlways == Spec => []HeadNotForgotten
<1>1. Inv /\ TruthInv => HeadNotForgotten
  <2> SUFFICES ASSUME Truth, pm.at = "accept", waiting # <<>>, NEW p \in Proc,
                      proc[p].listening, proc[p].op = "none",
                      proc[p].name = Head(waiting).name
               PROVE  FALSE
    BY DEF HeadNotForgotten, TruthInv
  <2>1. Entries(Head(waiting).name) = {}
    BY DEF Truth, HeadInv
  <2>2. PICK i \in DOMAIN table : table[i] = EntryOf(p)
    BY ListenerEntered
  <2>3. table[i].name = Head(waiting).name
    BY <2>2 DEF EntryOf
  <2> QED BY <2>1, <2>3 DEF Entries
<1> QED BY <1>1, TruthAlways, PTL

\* Under the same condition a client is told of a server only when it listens: the list
\* grows shorter only in pm_server's last loop, after the last PM_OK of the server.
THEOREM ToldWhenListeningAlways == Spec => ToldWhenListening
<1>1. Inv /\ TruthInv /\ [Next]_vars =>
        [Len(waiting') < Len(waiting) /\ mishap' = 0 =>
           \E p \in Proc : proc[p].listening /\ proc[p].name = Head(waiting).name]_vars
  <2> SUFFICES ASSUME Inv, TruthInv, [Next]_vars, Len(waiting') < Len(waiting), mishap' = 0
               PROVE  \E p \in Proc : proc[p].listening /\ proc[p].name = Head(waiting).name
    OBVIOUS
  <2>1. ~goesWrong /\ Truth
    BY GoesWrong, CountedWrong DEF Inv, TruthInv
  <2>2. waiting' # waiting
    <3>1. Len(waiting) \in Nat
      BY LenProperties DEF Inv, Types
    <3> QED BY <3>1
  <2>3. TellWaiting
    <3>1. ~pm_client
      <4> SUFFICES ASSUME pm_client
                   PROVE  FALSE
        OBVIOUS
      <4>1. PICK w : waiting' = Append(waiting, w)
        BY <2>2 DEF pm_client
      <4>2. Len(waiting) \in Nat /\ Len(Append(waiting, w)) = Len(waiting) + 1
        BY DEF Inv, Types
      <4> QED BY <4>1, <4>2
    <3>2. CASE PmStep \/ PmKilled \/ Sopen_prtmstr
      <4>1. ~(Accept \/ BeginDialogue \/ pm_table \/ pm_fwinit \/ Unknown \/ ReadHost
                \/ ReadName \/ ReadPort \/ ReadFinalOk)
        BY <2>2 DEF Accept, BeginDialogue, pm_table, pm_fwinit, Unknown, ReadHost, ReadName,
                    ReadPort, ReadFinalOk
      <4>2. ~(EndTelling \/ pm_close \/ pm_rmserver \/ pm_quit \/ longjmp \/ PmKilled
                \/ Sopen_prtmstr \/ CutName \/ Spins)
        BY <2>1, <2>2 DEF EndTelling, CutName, Spins, pm_close, pm_rmserver, pm_quit, longjmp, PmKilled,
                          Sopen_prtmstr, pmEnds
      <4> QED BY <3>1, <3>2, <4>1, <4>2 DEF PmStep
    <3>3. ASSUME NEW p \in Proc,
                 Call(p) \/ spmchk(p) \/ Sclose(p) \/ CallNext(p) \/ Refused(p) \/ Resend(p)
                   \/ TellRest(p) \/ SendRest(p) \/ Tfwinit(p) \/ Tshut(p)
          PROVE  FALSE
      BY <2>2, <3>3 DEF Call, spmchk, Sclose, CallNext, Refused, Resend, TellRest, SendRest,
                        Tfwinit, Tshut, doneAtOnce
    <3>4. ASSUME NEW p \in Proc,
                 Sopen_server(p) \/ Sopen_client(p) \/ Srmsrvr(p) \/ SclosePM(p)
                   \/ printPMtable(p) \/ LosesTouch(p) \/ Kill(p)
          PROVE  FALSE
      BY <2>2, <3>4 DEF Sopen_server, Sopen_client, Srmsrvr, SclosePM, printPMtable, endsWith,
                        LosesTouch, Kill
    <3>5. ~UNCHANGED vars
      BY <2>2 DEF vars
    <3> QED BY <3>2, <3>3, <3>4, <3>5 DEF Next
  <2>4. pm.at \in {"tell", "tellMore"} /\ Head(waiting).name = pm.name
    BY <2>3 DEF TellWaiting
  <2>5. PICK i \in DOMAIN table :
          table[i] = [name |-> pm.name, share |-> pm.share, port |-> pm.port]
    BY <2>1, <2>4 DEF Truth, TellInv
  <2>6. PICK p \in Proc : OnTable(p) /\ table[i] = EntryOf(p)
    BY <2>1 DEF Truth, Owned
  <2>7. proc[p].listening
    BY <2>4, <2>6 DEF OnTable
  <2>8. proc[p].name = pm.name
    BY <2>5, <2>6 DEF EntryOf
  <2> QED BY <2>4, <2>7, <2>8
<1> QED BY <1>1, TruthAlways, PTL DEF Spec, ToldWhenListening

================================================================================
