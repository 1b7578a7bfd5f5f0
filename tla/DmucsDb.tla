------------------------------- MODULE DmucsDb -------------------------------
(***************************************************************************)
(* The database of the dmucs server: the hosts, the sub-set each host is   *)
(* in, the tiers of cpus that can be given out, and the cpus assigned to   *)
(* the gethost clients.                                                    *)
(*                                                                         *)
(* Each message handler, the sweep of the silent thread and the collection *)
(* of the statistics thread is one atomic action here, as if one lock was  *)
(* held from the first line of a handler to the last.  The code takes the  *)
(* lock once per database call; module DmucsThreads has those smaller      *)
(* steps.                                                                  *)
(***************************************************************************)
EXTENDS Integers, FiniteSets

CONSTANTS
  Host,       \* the DmucsHost identities: an IP address together with a dprop
  Dprop,      \* the distinguishing properties
  Sock,       \* the Socket objects of gethost clients
  None,       \* "no entry" in a map
  DpropOf,    \* the dprop of each host
  NCpus,      \* the number of cpus of each host, from the hosts-info file
  PIndex,     \* the power index of each host, from the hosts-info file
  Listed,     \* the hosts which the hosts-info file has a line for
  BadMsgs,    \* whether a client may send a line that no message matches
  MaxServed   \* bound on the cpus served in one statistics period

ASSUME HostAssumption ==
  /\ DpropOf \in [Host -> Dprop]
  /\ NCpus \in [Host -> Nat \ {0}]
  /\ PIndex \in [Host -> Int]
  /\ Listed \subseteq Host

ASSUME NoneAssumption == None \notin Host \cup Dprop

ASSUME SockAssumption == IsFiniteSet(Sock)

ASSUME BoundAssumption == BadMsgs \in BOOLEAN /\ MaxServed \in Nat

VARIABLES
  host,           \* the DmucsHost objects, with their place in the database
  tierKeys,       \* per dprop, the tiers that are keys of availCpus_
  assignedCpus,   \* per dprop, socket -> the host whose cpu it was given
  sock2Dprop,     \* socket -> the dprop it was given a cpu of
  served,         \* numAssignedCpus_ per dprop
  maxAssigned,    \* numConcurrentAssigned_ per dprop
  conn            \* the gethost connections: closed, refused or serving

vars == <<host, tierKeys, assignedCpus, sock2Dprop, served, maxAssigned, conn>>

-----------------------------------------------------------------------------
(* Data *)

\* The four DmucsHostState objects.
State == {"available", "unavailable", "overloaded", "silent"}

\* The three outcomes the load averages of a host can have in calcTier:
\* light: ldavg1 < 0.9 or ldavg5 < 0.7; medium: neither, but ldavg10 < 0.8;
\* heavy: none of these.
Load == {"light", "medium", "heavy"}

calcTier(ld, pindex) ==
  CASE ld = "light"  -> pindex
    [] ld = "medium" -> pindex - 1
    [] ld = "heavy"  -> 0

Tier == {calcTier(ld, PIndex[h]) : ld \in Load, h \in Host}

\* sets: the sub-sets (availHosts_, unavailHosts_, ...) that hold the host;
\* cpus: how often the host's address is in each tier of availCpus_;
\* heard: lastUpdate_ is set; quiet: 60 seconds passed since the last load
\* average message of the host.
HostRec == [state : State \cup {"none"}, sets : SUBSET State,
            cpus : [Tier -> Nat], ld : Load, heard : BOOLEAN, quiet : BOOLEAN]

NoHost == [state |-> "none", sets |-> {}, cpus |-> [t \in Tier |-> 0],
           ld |-> "light", heard |-> FALSE, quiet |-> FALSE]

allHosts == {h \in Host : host[h].state # "none"}

-----------------------------------------------------------------------------
(* The methods of DmucsDpropDb and DmucsHost.  They map a view v of one    *)
(* host to the next view: its record r and the tier keys of its dprop.     *)

View(h) == [r |-> host[h], keys |-> tierKeys[DpropOf[h]]]

SetView(h, v) ==
  /\ host' = [host EXCEPT ![h] = v.r]
  /\ tierKeys' = [tierKeys EXCEPT ![DpropOf[h]] = v.keys]

getTier(h, v) == calcTier(v.r.ld, PIndex[h])

\* Mutant: nothing to add, so no tier is created.
addCpusToTier_SkipZero(v, t, n) ==
  IF n = 0 THEN v ELSE [r |-> [v.r EXCEPT !.cpus[t] = @ + n], keys |-> v.keys \cup {t}]

addCpusToTier(v, t, n) ==
  [r |-> [v.r EXCEPT !.cpus[t] = @ + n], keys |-> v.keys \cup {t}]

delCpusFromTier(v, t) == [v EXCEPT !.r.cpus[t] = 0]

\* Mutant: one cpu is moved, however many were taken out.
moveCpus_One(v, old, new) == addCpusToTier(delCpusFromTier(v, old), new, 1)

moveCpus(v, old, new) == addCpusToTier(delCpusFromTier(v, old), new, v.r.cpus[old])

addToHostSet(v, s) == [v EXCEPT !.r.sets = @ \cup {s}]

delFromHostSet(v, s) == [v EXCEPT !.r.sets = @ \ {s}]

addToAvailDb(h, v) ==
  addCpusToTier(addToHostSet(v, "available"), getTier(h, v), NCpus[h])

\* A tier that is not a key makes the method return before it removes the host.
delFromAvailDb(h, v) ==
  IF getTier(h, v) \in v.keys
  THEN delFromHostSet(delCpusFromTier(v, getTier(h, v)), "available")
  ELSE v

\* The state object's removeFromDb; Avail's callers take the cpus out first.
removeFromDb(h, v) ==
  IF v.r.state = "available"
  THEN delFromAvailDb(h, delCpusFromTier(v, getTier(h, v)))
  ELSE delFromHostSet(v, v.r.state)

addToDb(h, v) ==
  IF v.r.state = "available" THEN addToAvailDb(h, v)
                             ELSE addToHostSet(v, v.r.state)

\* Mutant: the host is added to its new sub-set and stays in the old one.
changeState_NoRemove(h, v, s) == addToDb(h, [v EXCEPT !.r.state = s])

changeState(h, v, s) == addToDb(h, [removeFromDb(h, v) EXCEPT !.r.state = s])

avail(h, v) ==
  CASE v.r.state = "unavailable" ->
         changeState(h, v, IF getTier(h, v) = 0 THEN "overloaded" ELSE "available")
    [] v.r.state \in {"silent", "overloaded"} -> changeState(h, v, "available")
    [] OTHER -> v

unavail(h, v) ==
  IF v.r.state = "unavailable" THEN v ELSE changeState(h, v, "unavailable")

\* Mutant: a host that was taken out of service can go silent.
silent_Unavailable(h, v) ==
  IF v.r.state # "silent" THEN changeState(h, v, "silent") ELSE v

silent(h, v) ==
  IF v.r.state \in {"available", "overloaded"} THEN changeState(h, v, "silent") ELSE v

overloaded(h, v) ==
  IF v.r.state = "available" THEN changeState(h, v, "overloaded") ELSE v

\* Mutant: the load is stored and the cpus stay in the tier they were in.
updateTier_NoMove(h, v, ld) ==
  LET new == calcTier(ld, PIndex[h])
  IN  [IF new = 0 THEN overloaded(h, v) ELSE v
         EXCEPT !.r.ld = ld, !.r.heard = TRUE, !.r.quiet = FALSE]

updateTier(h, v, ld) ==
  LET old == getTier(h, v)
      new == calcTier(ld, PIndex[h])
      moved == CASE new = old -> v
                 [] new # old /\ new = 0 -> overloaded(h, v)
                 [] new # old /\ new # 0 -> moveCpus(v, old, new)
  IN  [moved EXCEPT !.r.ld = ld, !.r.heard = TRUE, !.r.quiet = FALSE]

createHost(h, v) ==
  IF h \in Listed THEN addToAvailDb(h, [v EXCEPT !.r.state = "available"]) ELSE v

\* Mutant: a host that never sent its load is not looked at.
seemsDown_Heard(h) == host[h].heard /\ host[h].quiet

seemsDown(h) == ~host[h].heard \/ host[h].quiet

-----------------------------------------------------------------------------
(* Messages about hosts *)

\* Mutant: a load average puts any host that is not too busy back in the pool.
LdAvgKnown_AnyState(h, ld) ==
  LET v == updateTier(h, View(h), ld)
  IN  /\ h \in allHosts
      /\ SetView(h, IF getTier(h, v) # 0 THEN avail(h, v) ELSE v)
      /\ UNCHANGED <<assignedCpus, sock2Dprop, served, maxAssigned, conn>>

\* A load average message of a known host.
LdAvgKnown(h, ld) ==
  LET v == updateTier(h, View(h), ld)
      back == \/ v.r.state = "silent"
              \/ v.r.state = "overloaded" /\ getTier(h, v) # 0
  IN  /\ h \in allHosts
      /\ SetView(h, IF back THEN avail(h, v) ELSE v)
      /\ UNCHANGED <<assignedCpus, sock2Dprop, served, maxAssigned, conn>>

\* A load average message of a new host: the host is created and, because
\* createHost returns NULL, its load and its time of update are not stored.
LdAvgNew(h) ==
  /\ h \in Listed \ allHosts
  /\ SetView(h, createHost(h, View(h)))
  /\ UNCHANGED <<assignedCpus, sock2Dprop, served, maxAssigned, conn>>

StatusUp(h) ==
  /\ h \in allHosts \/ h \in Listed
  /\ SetView(h, IF h \in allHosts THEN avail(h, View(h)) ELSE createHost(h, View(h)))
  /\ UNCHANGED <<assignedCpus, sock2Dprop, served, maxAssigned, conn>>

StatusDown(h) ==
  /\ h \in allHosts
  /\ SetView(h, unavail(h, View(h)))
  /\ UNCHANGED <<assignedCpus, sock2Dprop, served, maxAssigned, conn>>

\* More than DMUCS_HOST_SILENT_TIME passes since the last load average message.
Elapse(h) ==
  /\ h \in allHosts /\ ~host[h].quiet
  /\ host' = [host EXCEPT ![h].quiet = TRUE]
  /\ UNCHANGED <<tierKeys, assignedCpus, sock2Dprop, served, maxAssigned, conn>>

\* The silent thread, which holds the lock for the whole search.
handleSilentHosts ==
  /\ host' = [h \in Host |-> IF h \in allHosts /\ seemsDown(h)
                             THEN silent(h, View(h)).r ELSE host[h]]
  /\ UNCHANGED <<tierKeys, assignedCpus, sock2Dprop, served, maxAssigned, conn>>

-----------------------------------------------------------------------------
(* gethost clients *)

\* Mutant: an empty tier is not skipped.
BestCpus_Empty(d) ==
  LET keys == {c \in Host \X Tier : DpropOf[c[1]] = d /\ c[2] \in tierKeys[d]}
  IN  {c \in keys : \A o \in keys : o[2] <= c[2]}

\* Mutant: the tiers are searched from the lowest.
BestCpus_Lowest(d) ==
  LET free == {c \in Host \X Tier : DpropOf[c[1]] = d /\ host[c[1]].cpus[c[2]] > 0}
  IN  {c \in free : \A o \in free : o[2] >= c[2]}

\* The (host, tier) pairs getBestAvailCpu picks from: the cpus of the highest
\* tier of the dprop that is not empty.
BestCpus(d) ==
  LET free == {c \in Host \X Tier : DpropOf[c[1]] = d /\ host[c[1]].cpus[c[2]] > 0}
  IN  {c \in free : \A o \in free : o[2] <= c[2]}

Assigned(d) == {s \in Sock : assignedCpus[d][s] # None}

\* A gethost asks on a new connection, or again after it was refused.
MayAsk(s) == conn[s] \in {"closed", "refused"}

\* map::insert leaves an entry that is already there as it is.
insert(m, k, e) == IF m[k] = None THEN [m EXCEPT ![k] = e] ELSE m

HostReqGranted(s, d) ==
  /\ MayAsk(s)
  /\ served[d] < MaxServed
  /\ \E c \in BestCpus(d) :
       /\ host' = [host EXCEPT ![c[1]].cpus[c[2]] = @ - 1]
       /\ assignedCpus' = [assignedCpus EXCEPT ![d] = insert(@, s, c[1])]
  /\ sock2Dprop' = insert(sock2Dprop, s, d)
  /\ served' = [served EXCEPT ![d] = @ + 1]
  /\ LET n == Cardinality(Assigned(d)')
     IN  maxAssigned' = [maxAssigned EXCEPT ![d] = IF n > @ THEN n ELSE @]
  /\ conn' = [conn EXCEPT ![s] = "serving"]
  /\ UNCHANGED tierKeys

\* The reply is 0.0.0.0; the client stays connected and runs its command locally
\* or asks again.
HostReqRefused(s, d) ==
  /\ MayAsk(s)
  /\ BestCpus(d) = {}
  /\ conn' = [conn EXCEPT ![s] = "refused"]
  /\ UNCHANGED <<host, tierKeys, assignedCpus, sock2Dprop, served, maxAssigned>>

\* DmucsDpropDb::releaseCpu: the cpu goes back only to an available host.
giveBack(h) ==
  IF host[h].state = "available"
  THEN SetView(h, addCpusToTier(View(h), getTier(h, View(h)), 1))
  ELSE UNCHANGED <<host, tierKeys>>

\* Mutant: the entries of the socket stay in the maps.
releaseCpu_NoErase(s) ==
  LET d == sock2Dprop[s]
  IN  /\ IF d # None /\ assignedCpus[d][s] # None
         THEN giveBack(assignedCpus[d][s])
         ELSE UNCHANGED <<host, tierKeys>>
      /\ conn' = [conn EXCEPT ![s] = "closed"]
      /\ UNCHANGED <<assignedCpus, sock2Dprop, served, maxAssigned>>

\* Mutant: the entry of the socket in sock2DpropDb_ stays.
releaseCpu_KeepDprop(s) ==
  LET d == sock2Dprop[s]
  IN  /\ IF d # None /\ assignedCpus[d][s] # None
         THEN /\ giveBack(assignedCpus[d][s])
              /\ assignedCpus' = [assignedCpus EXCEPT ![d][s] = None]
         ELSE UNCHANGED <<host, tierKeys, assignedCpus>>
      /\ conn' = [conn EXCEPT ![s] = "closed"]
      /\ UNCHANGED <<sock2Dprop, served, maxAssigned>>

\* The client closed its socket: Sgets returns NULL, handleReq releases the
\* cpu and removes the socket.  A client may also close without having asked:
\* it releases what a line that did not parse has left at its Socket's address.
releaseCpu(s) ==
  LET d == sock2Dprop[s]
  IN  /\ sock2Dprop' = [sock2Dprop EXCEPT ![s] = None]
      /\ IF d # None /\ assignedCpus[d][s] # None
         THEN /\ giveBack(assignedCpus[d][s])
              /\ assignedCpus' = [assignedCpus EXCEPT ![d][s] = None]
         ELSE UNCHANGED <<host, tierKeys, assignedCpus>>
      /\ conn' = [conn EXCEPT ![s] = "closed"]
      /\ UNCHANGED <<served, maxAssigned>>

\* A line that parseMsg rejects: handleReq removes the socket, and no cpu is
\* released.
BadMsg(s) ==
  /\ BadMsgs
  /\ conn[s] # "closed"
  /\ conn' = [conn EXCEPT ![s] = "closed"]
  /\ UNCHANGED <<host, tierKeys, assignedCpus, sock2Dprop, served, maxAssigned>>

\* Mutant: the count of served cpus is not cleared.
getStatsFromDb_KeepServed ==
  /\ maxAssigned' = [d \in Dprop |-> 0]
  /\ UNCHANGED <<host, tierKeys, assignedCpus, sock2Dprop, served, conn>>

\* The statistics thread reports and clears both counters of every dprop.
getStatsFromDb ==
  /\ served' = [d \in Dprop |-> 0]
  /\ maxAssigned' = [d \in Dprop |-> 0]
  /\ UNCHANGED <<host, tierKeys, assignedCpus, sock2Dprop, conn>>

-----------------------------------------------------------------------------

Init ==
  /\ host = [h \in Host |-> NoHost]
  /\ tierKeys = [d \in Dprop |-> {}]
  /\ assignedCpus = [d \in Dprop |-> [s \in Sock |-> None]]
  /\ sock2Dprop = [s \in Sock |-> None]
  /\ served = [d \in Dprop |-> 0]
  /\ maxAssigned = [d \in Dprop |-> 0]
  /\ conn = [s \in Sock |-> "closed"]

Next ==
  \/ \E h \in Host, ld \in Load : LdAvgKnown(h, ld)
  \/ \E h \in Host : LdAvgNew(h) \/ StatusUp(h) \/ StatusDown(h) \/ Elapse(h)
  \/ handleSilentHosts
  \/ \E s \in Sock, d \in Dprop : HostReqGranted(s, d) \/ HostReqRefused(s, d)
  \/ \E s \in Sock : releaseCpu(s) \/ BadMsg(s)
  \/ getStatsFromDb

Spec == Init /\ [][Next]_vars

\* The silent thread wakes up every 60 seconds for ever.
FairSpec == Spec /\ WF_vars(handleSilentHosts)

-----------------------------------------------------------------------------
(* Properties *)

\* The variables hold values of the program's types.
TypeOK ==
  /\ host \in [Host -> HostRec]
  /\ tierKeys \in [Dprop -> SUBSET Tier]
  /\ assignedCpus \in [Dprop -> [Sock -> Host \cup {None}]]
  /\ sock2Dprop \in [Sock -> Dprop \cup {None}]
  /\ served \in [Dprop -> Nat]
  /\ maxAssigned \in [Dprop -> Nat]
  /\ conn \in [Sock -> {"closed", "refused", "serving"}]

\* Every known host is in the one sub-set of its state, and a host that is not
\* known is in none (addToDb and removeFromDb of the state objects agree).
SetsMatchState ==
  \A h \in Host : host[h].sets = {host[h].state} \ {"none"}

\* A cpu that can be given out is one of an available host, and it is in the
\* tier which that host's load gives it now, however the load changed since
\* the cpu was put there (updateTier, the state changes and releaseCpu).
PoolMatchesState ==
  \A h \in Host, t \in Tier :
    host[h].cpus[t] > 0 => host[h].state = "available" /\ t = getTier(h, View(h))

\* delFromAvailDb never takes its early return, which would leave the host in
\* availHosts_: the tier of an available host is a key of availCpus_.
AvailTierIsKey ==
  \A h \in allHosts : host[h].state = "available" =>
    getTier(h, View(h)) \in tierKeys[DpropOf[h]]

\* The two maps from sockets agree with each other and with the connections: a
\* client being served is in sock2DpropDb_ and in the assignedCpus_ of that
\* dprop and of no other, and only such a client is.
AssignmentsTracked ==
  \A s \in Sock :
    /\ sock2Dprop[s] # None <=> conn[s] = "serving"
    /\ \A d \in Dprop :
         /\ assignedCpus[d][s] # None <=> sock2Dprop[s] = d
         /\ assignedCpus[d][s] # None => /\ assignedCpus[d][s] \in allHosts
                                         /\ DpropOf[assignedCpus[d][s]] = d

\* Also when lines that do not parse leave entries of dropped clients behind, an
\* entry of sock2DpropDb_ has its cpu in the assignedCpus_ of that dprop: the
\* close of the next client whose Socket has that address gives a cpu back.
EntryReleasable ==
  \A s \in Sock : sock2Dprop[s] # None => assignedCpus[sock2Dprop[s]][s] # None

freeCpus(h) == host[h].cpus[getTier(h, View(h))]
lentCpus(h) == Cardinality({s \in Sock : assignedCpus[DpropOf[h]][s] = h})

\* No cpu of an available host is lost: each is in the pool or with a client,
\* through every order of state changes, requests and releases.
CpusNeverLost ==
  \A h \in Host : host[h].state = "available" => freeCpus(h) + lentCpus(h) >= NCpus[h]

\* Coming back while cpus are lent puts all the cpus of a host in the pool again;
\* what is given out twice is bounded by the number of sockets, whether or not
\* clients are dropped for a bad line.
OvercommitBounded ==
  \A h \in Host : freeCpus(h) + lentCpus(h) <= NCpus[h] + Cardinality(Sock)

\* Every step is one that HostPool allows, for the hosts' states, the cpus in the
\* pool and the clients that hold a cpu.
Pool == INSTANCE HostPool WITH
  status <- [h \in Host |-> host[h].state],
  free <- [h \in Host |-> freeCpus(h)],
  lent <- [h \in Host |-> lentCpus(h)],
  MaxLent <- Cardinality(Sock)
ImplementsHostPool == Pool!Spec

\* Only a status "up" message ends the state that a status "down" message
\* set; load averages, releases and the silent search do not.
DownSticks ==
  [][\A h \in Host : host[h].state = "unavailable" /\ host'[h].state # "unavailable"
       => StatusUp(h)]_vars

\* A client is given a cpu of an available host whose load puts it in a tier no
\* lower than that of any other available host of the dprop with a free cpu.
BestTierGiven ==
  [][\A d \in Dprop, s \in Sock :
       assignedCpus[d][s] = None /\ assignedCpus'[d][s] # None =>
         LET g == assignedCpus'[d][s]
         IN  /\ host[g].state = "available"
             /\ \A h \in allHosts : DpropOf[h] = d /\ freeCpus(h) > 0 =>
                  getTier(h, View(h)) <= getTier(g, View(g))]_vars

\* The statistics' maximum starts each period at 0 with cpus assigned; from the first
\* cpu served in the period on it covers all that are assigned.
MaxCoversOnceServed ==
  \A d \in Dprop : served[d] > 0 => maxAssigned[d] >= Cardinality(Assigned(d))

notHeard(h) == h \in allHosts /\ (~host[h].heard \/ host[h].quiet)

\* The cpus of a host from which no load average comes leave the pool, however
\* the host became known, unless a load average arrives after all.
QuietHostWithdrawn ==
  \A h \in Host : notHeard(h) ~> ~notHeard(h) \/ \A t \in Tier : host[h].cpus[t] = 0

\* A claim of the repository's comments that the code does not keep.

\* dmucs_host.h:44-47: a host is silent "if we don't hear from a host for 60
\* seconds".
SilentOnlyIfQuiet ==
  [][\A h \in Host : host'[h].state = "silent" /\ host[h].state # "silent"
       => host[h].quiet]_vars

=============================================================================
