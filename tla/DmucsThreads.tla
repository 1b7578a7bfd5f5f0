----------------------------- MODULE DmucsThreads -----------------------------
(***************************************************************************)
(* The three threads of the server and the mutex of DmucsDb.  The server   *)
(* thread handles one message at a time, the silent thread searches for    *)
(* quiet hosts, the statistics thread collects the counters.               *)
(*                                                                         *)
(* DmucsDb has a whole handler as one step.  Here it is a sequence of      *)
(* steps, todo[t]: one for each call that takes the mutex and one for each *)
(* access to a field of a host that another thread may access, which the   *)
(* code does without the mutex.  The silent thread holds the (recursive)   *)
(* mutex for its whole search; it can be interleaved with steps that do    *)
(* not take the mutex, and may begin between any two steps of the server.  *)
(***************************************************************************)
EXTENDS DmucsDb, Sequences, SequencesExt

CONSTANTS
  Searching,  \* whether the silent thread runs
  MaxCpus     \* bound: no search begins while a tier has more cpus of a host

ASSUME ThreadsAssumption == Searching \in BOOLEAN /\ MaxCpus \in Nat

VARIABLES
  todo,       \* per thread, the steps left of what it is doing
  owner       \* the thread that holds mutex_ between two steps, or None

Thread == {"server", "silent"}

ASSUME ThreadAssumption == None \notin Thread

tvars == <<vars, todo, owner>>

\* The data of assignments and clients, which most steps leave alone.
clientVars == <<assignedCpus, sock2Dprop, served, maxAssigned, conn>>

-----------------------------------------------------------------------------
(* Steps *)

Step(op, h, x) == [op |-> op, host |-> h, arg |-> x]

At(t, op) == todo[t] # <<>> /\ Head(todo[t]).op = op

\* The first step of thread t is done; it puts these in its place.
Do(t, steps) == todo' = [todo EXCEPT ![t] = steps \o Tail(@)]

Idle(t) == todo[t] = <<>>

Begin(t, steps) == Idle(t) /\ todo' = [todo EXCEPT ![t] = steps]

\* The mutex is recursive: the thread that holds it may lock it again.
MayLock(t) == owner \in {None, t}

\* The state in which the state object s leaves host h on event e.
reaction(h, s, e) ==
  CASE e = "avail" /\ s = "unavailable" ->
         IF getTier(h, View(h)) = 0 THEN "overloaded" ELSE "available"
    [] e = "avail" /\ s \in {"silent", "overloaded"}     -> "available"
    [] e = "unavail"                                     -> "unavailable"
    [] e = "silent" /\ s \in {"available", "overloaded"} -> "silent"
    [] e = "overloaded" /\ s = "available"               -> "overloaded"
    [] OTHER                                             -> s

\* Mutant: the host is added to its sub-set before its state is assigned.
stateSteps_AddFirst(h, old, new) ==
  (IF old = "available" THEN <<Step("delCpus", h, None)>> ELSE <<>>)
    \o <<Step("removeFromDb", h, old), Step("addToDb", h, None), Step("setState", h, new)>>

\* What the state object old does to bring host h to state new.
stateSteps(h, old, new) ==
  (IF old = "available" THEN <<Step("delCpus", h, None)>> ELSE <<>>)
    \o <<Step("removeFromDb", h, old), Step("setState", h, new), Step("addToDb", h, None)>>

\* host->avail(), unavail(), silent() or overloaded(): state_ is read to find the
\* method, without the mutex.
Event(t) ==
  /\ At(t, "event")
  /\ LET h == Head(todo[t]).host
         s == host[h].state
         new == reaction(h, s, Head(todo[t]).arg)
     IN  Do(t, IF new = s THEN <<>> ELSE stateSteps(h, s, new))
  /\ UNCHANGED <<vars, owner>>

DelCpus(t) ==
  /\ At(t, "delCpus") /\ MayLock(t)
  /\ LET h == Head(todo[t]).host
     IN  SetView(h, delCpusFromTier(View(h), getTier(h, View(h))))
  /\ Do(t, <<>>)
  /\ UNCHANGED <<clientVars, owner>>

RemoveFromDb(t) ==
  /\ At(t, "removeFromDb") /\ MayLock(t)
  /\ LET h == Head(todo[t]).host
         s == Head(todo[t]).arg
     IN  SetView(h, IF s = "available" THEN delFromAvailDb(h, View(h))
                                       ELSE delFromHostSet(View(h), s))
  /\ Do(t, <<>>)
  /\ UNCHANGED <<clientVars, owner>>

\* state_ = state, without the mutex.
SetState(t) ==
  /\ At(t, "setState")
  /\ host' = [host EXCEPT ![Head(todo[t]).host].state = Head(todo[t]).arg]
  /\ Do(t, <<>>)
  /\ UNCHANGED <<tierKeys, clientVars, owner>>

\* state_->addToDb(this) reads state_ again, without the mutex.
ReadState(t) ==
  /\ At(t, "addToDb")
  /\ LET h == Head(todo[t]).host IN Do(t, <<Step("addTo", h, host[h].state)>>)
  /\ UNCHANGED <<vars, owner>>

AddToDb(t) ==
  /\ At(t, "addTo") /\ MayLock(t)
  /\ LET h == Head(todo[t]).host
         s == Head(todo[t]).arg
     IN  SetView(h, IF s = "available" THEN addToAvailDb(h, View(h))
                                       ELSE addToHostSet(View(h), s))
  /\ Do(t, <<>>)
  /\ UNCHANGED <<clientVars, owner>>

-----------------------------------------------------------------------------
(* Load average and status messages *)

\* Mutant: the load averages are stored before the cpus are moved.
updateTierSteps_StoreFirst(h, ld) ==
  LET old == getTier(h, View(h))
      new == calcTier(ld, PIndex[h])
  IN  <<Step("storeLd", h, ld), Step("setLd", h, ld)>>
        \o (CASE new = old            -> <<>>
              [] new # old /\ new = 0 -> <<Step("event", h, "overloaded")>>
              [] new # old /\ new # 0 -> <<Step("moveCpus", h, ld)>>)
        \o <<Step("stamp", h, None)>>

\* DmucsHost::updateTier.  Only the server thread writes load averages, so it can
\* compare the tiers at once.
updateTierSteps(h, ld) ==
  LET old == getTier(h, View(h))
      new == calcTier(ld, PIndex[h])
  IN  (CASE new = old            -> <<>>
         [] new # old /\ new = 0 -> <<Step("event", h, "overloaded")>>
         [] new # old /\ new # 0 -> <<Step("moveCpus", h, ld)>>)
      \o <<Step("storeLd", h, ld), Step("setLd", h, ld), Step("stamp", h, None)>>

LdAvgMsg(h, ld) ==
  /\ h \in allHosts /\ MayLock("server")
  /\ Begin("server", updateTierSteps(h, ld) \o <<Step("ifSilent", h, None)>>)
  /\ UNCHANGED <<vars, owner>>

MoveCpus ==
  /\ At("server", "moveCpus") /\ MayLock("server")
  /\ LET h == Head(todo["server"]).host
     IN  SetView(h, moveCpus(View(h), getTier(h, View(h)),
                             calcTier(Head(todo["server"]).arg, PIndex[h])))
  /\ Do("server", <<>>)
  /\ UNCHANGED <<clientVars, owner>>

\* ldavg1_, ldavg5_ and ldavg10_ are stored one after the other: between the
\* stores, what was a light load can look like any other.
StoreLd ==
  /\ At("server", "storeLd")
  /\ LET h == Head(todo["server"]).host
     IN  \E ld \in IF host[h].ld = "light" THEN Load ELSE {host[h].ld} :
           host' = [host EXCEPT ![h].ld = ld]
  /\ Do("server", <<>>)
  /\ UNCHANGED <<tierKeys, clientVars, owner>>

SetLd ==
  /\ At("server", "setLd")
  /\ host' = [host EXCEPT ![Head(todo["server"]).host].ld = Head(todo["server"]).arg]
  /\ Do("server", <<>>)
  /\ UNCHANGED <<tierKeys, clientVars, owner>>

\* lastUpdate_ = time(0)
Stamp ==
  /\ At("server", "stamp")
  /\ host' = [host EXCEPT ![Head(todo["server"]).host].heard = TRUE,
                          ![Head(todo["server"]).host].quiet = FALSE]
  /\ Do("server", <<>>)
  /\ UNCHANGED <<tierKeys, clientVars, owner>>

\* isSilent() || (isOverloaded() && getTier() != 0): two reads of state_.
IfSilent ==
  /\ At("server", "ifSilent")
  /\ LET h == Head(todo["server"]).host
     IN  Do("server", IF host[h].state = "silent" THEN <<Step("event", h, "avail")>>
                                                  ELSE <<Step("ifOverloaded", h, None)>>)
  /\ UNCHANGED <<vars, owner>>

IfOverloaded ==
  /\ At("server", "ifOverloaded")
  /\ LET h == Head(todo["server"]).host
     IN  Do("server", IF host[h].state = "overloaded" /\ getTier(h, View(h)) # 0
                      THEN <<Step("event", h, "avail")>> ELSE <<>>)
  /\ UNCHANGED <<vars, owner>>

StatusMsg(h, up) ==
  /\ h \in allHosts /\ MayLock("server")
  /\ Begin("server", <<Step("event", h, IF up THEN "avail" ELSE "unavail")>>)
  /\ UNCHANGED <<vars, owner>>

\* A load average or status up message of a new host: DmucsDb::addNewHost.
NewHostMsg(h) ==
  /\ MayLock("server") /\ Idle("server")
  /\ LdAvgNew(h)
  /\ UNCHANGED <<todo, owner>>

-----------------------------------------------------------------------------
(* gethost clients *)

\* DmucsDb::getBestAvailCpu; the cpu is then neither in the pool nor assigned.
GetBestAvailCpu(s, d) ==
  /\ MayAsk(s) /\ MayLock("server")
  /\ served[d] < MaxServed
  /\ \E c \in BestCpus(d) :
       /\ host' = [host EXCEPT ![c[1]].cpus[c[2]] = @ - 1]
       /\ Begin("server", <<Step("assign", c[1], s)>>)
  /\ UNCHANGED <<tierKeys, clientVars, owner>>

NoCpu(s, d) ==
  /\ MayLock("server") /\ Idle("server")
  /\ HostReqRefused(s, d)
  /\ UNCHANGED <<todo, owner>>

AssignCpuToClient ==
  /\ At("server", "assign") /\ MayLock("server")
  /\ LET h == Head(todo["server"]).host
         s == Head(todo["server"]).arg
         d == DpropOf[h]
     IN  /\ assignedCpus' = [assignedCpus EXCEPT ![d] = insert(@, s, h)]
         /\ sock2Dprop' = insert(sock2Dprop, s, d)
         /\ served' = [served EXCEPT ![d] = @ + 1]
         /\ LET n == Cardinality({x \in Sock : assignedCpus'[d][x] # None})
            IN  maxAssigned' = [maxAssigned EXCEPT ![d] = IF n > @ THEN n ELSE @]
         /\ conn' = [conn EXCEPT ![s] = "serving"]
  /\ Do("server", <<>>)
  /\ UNCHANGED <<host, tierKeys, owner>>

\* DmucsDb::releaseCpu does not take the mutex, so it can run during a search.
ReleaseCpu(s) ==
  LET d == sock2Dprop[s]
      lent == d # None /\ assignedCpus[d][s] # None
  IN  /\ conn[s] # "closed"
      /\ sock2Dprop' = [sock2Dprop EXCEPT ![s] = None]
      /\ assignedCpus' = IF lent THEN [assignedCpus EXCEPT ![d][s] = None] ELSE assignedCpus
      /\ Begin("server", IF lent THEN <<Step("giveBack", assignedCpus[d][s], None)>> ELSE <<>>)
      /\ conn' = [conn EXCEPT ![s] = "closed"]
      /\ UNCHANGED <<host, tierKeys, served, maxAssigned, owner>>

GiveBack ==
  /\ At("server", "giveBack")
  /\ LET h == Head(todo["server"]).host
     IN  Do("server", IF host[h].state = "available" THEN <<Step("addCpu", h, None)>>
                                                     ELSE <<>>)
  /\ UNCHANGED <<vars, owner>>

\* The silent thread may be in the same list or map.
InPool(t) ==
  \/ At(t, "delCpus")
  \/ At(t, "removeFromDb") /\ Head(todo[t]).arg = "available"
  \/ At(t, "addTo") /\ Head(todo[t]).arg = "available"

\* The list of cpus is changed without the mutex; when the silent thread changes
\* it at the same time the insertion can be lost.  (It can also crash the server.)
AddCpu ==
  /\ At("server", "addCpu")
  /\ LET h == Head(todo["server"]).host
     IN  \/ SetView(h, addCpusToTier(View(h), getTier(h, View(h)), 1))
         \/ InPool("silent") /\ UNCHANGED <<host, tierKeys>>
  /\ Do("server", <<>>)
  /\ UNCHANGED <<clientVars, owner>>

-----------------------------------------------------------------------------
(* The other two threads *)

\* The silent thread takes the mutex and looks at all hosts, in their order.
HandleSilentHosts ==
  /\ Searching /\ owner = None
  /\ \A h \in Host, t \in Tier : host[h].cpus[t] <= MaxCpus
  /\ Begin("silent", LET hs == SetToSeq(allHosts)
                     IN  [i \in DOMAIN hs |-> Step("seemsDown", hs[i], None)]
                           \o <<Step("unlock", None, None)>>)
  /\ owner' = "silent"
  /\ UNCHANGED vars

\* Mutant: the search looks at a host again after it moved it.
SeemsDown_Again ==
  /\ At("silent", "seemsDown")
  /\ LET h == Head(todo["silent"]).host
     IN  Do("silent", IF seemsDown(h)
                      THEN <<Step("event", h, "silent"), Step("seemsDown", h, None)>> ELSE <<>>)
  /\ UNCHANGED <<vars, owner>>

SeemsDown ==
  /\ At("silent", "seemsDown")
  /\ LET h == Head(todo["silent"]).host
     IN  Do("silent", IF seemsDown(h) THEN <<Step("event", h, "silent")>> ELSE <<>>)
  /\ UNCHANGED <<vars, owner>>

Unlock ==
  /\ At("silent", "unlock")
  /\ owner' = None
  /\ Do("silent", <<>>)
  /\ UNCHANGED vars

\* The statistics thread takes the mutex once.
GetStatsFromDb ==
  /\ owner = None
  /\ getStatsFromDb
  /\ UNCHANGED <<todo, owner>>

TimePasses(h) == Elapse(h) /\ UNCHANGED <<todo, owner>>

-----------------------------------------------------------------------------

TInit == Init /\ todo = [t \in Thread |-> <<>>] /\ owner = None

\* A step of a host's method, on either thread.
MethodStep(t) ==
  Event(t) \/ DelCpus(t) \/ RemoveFromDb(t) \/ SetState(t) \/ ReadState(t) \/ AddToDb(t)

ServerStep ==
  \/ MethodStep("server")
  \/ MoveCpus \/ StoreLd \/ SetLd \/ Stamp \/ IfSilent \/ IfOverloaded
  \/ AssignCpuToClient \/ GiveBack \/ AddCpu

SilentStep == MethodStep("silent") \/ SeemsDown \/ Unlock

Receive ==
  \/ \E h \in Host, ld \in Load : LdAvgMsg(h, ld)
  \/ \E h \in Host : NewHostMsg(h) \/ \E up \in BOOLEAN : StatusMsg(h, up)
  \/ \E s \in Sock, d \in Dprop : GetBestAvailCpu(s, d) \/ NoCpu(s, d)
  \/ \E s \in Sock : ReleaseCpu(s)

TNext ==
  \/ Receive \/ ServerStep
  \/ HandleSilentHosts \/ SilentStep
  \/ GetStatsFromDb
  \/ \E h \in Host : TimePasses(h)

TSpec == TInit /\ [][TNext]_tvars

\* The threads run.  A waiting server thread gets the mutex in the end: the silent
\* thread sleeps 60 seconds after each search.
TFairSpec == TSpec /\ WF_tvars(SilentStep) /\ SF_tvars(ServerStep)

-----------------------------------------------------------------------------
(* Properties *)

Ops == {"event", "delCpus", "removeFromDb", "setState", "addToDb", "addTo", "moveCpus",
        "storeLd", "setLd", "stamp", "ifSilent", "ifOverloaded", "assign", "giveBack",
        "addCpu", "seemsDown", "unlock"}
Events == {"avail", "unavail", "silent", "overloaded"}
StepRec == [op : Ops, host : Host \cup {None}, arg : State \cup Events \cup Load \cup Sock \cup {None}]

\* The variables hold values of their types; only the silent thread keeps the mutex
\* between steps, and exactly while it searches.
ThreadsTypeOK ==
  /\ TypeOK
  /\ todo \in [Thread -> Seq(StepRec)]
  /\ owner = IF Idle("silent") THEN None ELSE "silent"

Quiescent == \A t \in Thread : Idle(t)

\* Whatever way a handler and the search are interleaved in the methods of one host,
\* the host ends in the sub-set of its state, maybe also in others.
FoundInItsSet ==
  Quiescent => \A h \in allHosts : host[h].state \in host[h].sets

\* Without the search, the steps of a handler amount to what DmucsDb has as one
\* step: once a handler is done the sub-sets and the pool are right again.
HandlersKeepDb ==
  ~Searching /\ Quiescent => SetsMatchState /\ PoolMatchesState /\ CpusNeverLost

\* A handler or a search that began is finished: no thread waits for the mutex for
\* ever, although a search calls methods that lock it again and again.
ThreadsFinish ==
  /\ todo["server"] # <<>> ~> Idle("server")
  /\ owner = "silent" ~> owner = None

\* A claim of the repository's comments that the code does not keep.

\* dmucs_host_state.h:36-38: a host after a status down message "has been made
\* administratively unavailable"; only the thread that handles messages may end that.
OnlyServerEndsUnavailable ==
  [][\A h \in Host : host[h].state = "unavailable" /\ host'[h].state # "unavailable"
       => todo'["server"] # todo["server"]]_tvars

=============================================================================
