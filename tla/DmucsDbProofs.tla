---------------------------- MODULE DmucsDbProofs ----------------------------
(***************************************************************************)
(* Proofs about DmucsDb, for every set of hosts, dprops and clients.       *)
(***************************************************************************)
EXTENDS DmucsDb, FiniteSetTheorems, TLAPS

ViewSet == [r : HostRec, keys : SUBSET Tier]

\* The part of the invariant that is about one host, as its view shows it.
Good(h, v) ==
  /\ v \in ViewSet
  /\ v.r.sets = {v.r.state} \ {"none"}
  /\ \A t \in Tier : v.r.cpus[t] > 0 => v.r.state = "available" /\ t = getTier(h, v)
  /\ v.r.state = "available" => getTier(h, v) \in v.keys

-----------------------------------------------------------------------------
(* What each primitive does to the fields of a view *)

\* The tier of a host, whatever its load (calcTier), is a tier.
LEMMA TierType ==
  ASSUME NEW h \in Host, NEW ld \in Load
  PROVE  calcTier(ld, PIndex[h]) \in Tier
BY DEF Tier

\* The tier of a host is a tier.
LEMMA ViewTier ==
  ASSUME NEW h \in Host, NEW v \in ViewSet
  PROVE  getTier(h, v) \in Tier
BY TierType DEF getTier, ViewSet, HostRec

\* delCpusFromTier changes the count of one tier only.
LEMMA DelCpusEffect ==
  ASSUME NEW v \in ViewSet, NEW t \in Tier, NEW u, u = delCpusFromTier(v, t)
  PROVE  /\ u \in ViewSet
         /\ u.keys = v.keys /\ u.r.state = v.r.state /\ u.r.ld = v.r.ld
         /\ u.r.sets = v.r.sets
         /\ \A x \in Tier : u.r.cpus[x] = IF x = t THEN 0 ELSE v.r.cpus[x]
BY DEF delCpusFromTier, ViewSet, HostRec

\* addCpusToTier changes the count of one tier, which it makes a key.
LEMMA AddCpus ==
  ASSUME NEW v \in ViewSet, NEW t \in Tier, NEW n \in Nat,
         NEW u, u = addCpusToTier(v, t, n)
  PROVE  /\ u \in ViewSet
         /\ u.keys = v.keys \cup {t} /\ u.r.state = v.r.state /\ u.r.ld = v.r.ld
         /\ u.r.sets = v.r.sets
         /\ \A x \in Tier : u.r.cpus[x] = IF x = t THEN v.r.cpus[x] + n ELSE v.r.cpus[x]
BY DEF addCpusToTier, ViewSet, HostRec

-----------------------------------------------------------------------------
(* What each change of state does to a good view *)

\* A host that leaves its state (removeFromDb) keeps no cpu in the pool and is in
\* no sub-set.
LEMMA RemoveFromDbEffect ==
  ASSUME NEW h \in Host, NEW v, Good(h, v), v.r.state # "none",
         NEW u, u = removeFromDb(h, v)
  PROVE  /\ u \in ViewSet
         /\ u.keys = v.keys /\ u.r.state = v.r.state /\ u.r.ld = v.r.ld
         /\ u.r.sets = {}
         /\ \A t \in Tier : u.r.cpus[t] = 0
<1> DEFINE a == delCpusFromTier(v, getTier(h, v))
           b == delCpusFromTier(a, getTier(h, a))
<1>1. v \in ViewSet /\ v.r.state \in State /\ \A t \in Tier : v.r.cpus[t] \in Nat
  BY DEF Good, ViewSet, HostRec
<1>2. getTier(h, v) \in Tier
  BY <1>1, ViewTier
<1>3. /\ a \in ViewSet
      /\ a.keys = v.keys /\ a.r.state = v.r.state /\ a.r.ld = v.r.ld
      /\ a.r.sets = v.r.sets
      /\ \A x \in Tier : a.r.cpus[x] = IF x = getTier(h, v) THEN 0 ELSE v.r.cpus[x]
  BY <1>1, <1>2, DelCpusEffect
<1>4. CASE v.r.state = "available"
  <2>1. getTier(h, a) = getTier(h, v)
    BY <1>3 DEF getTier
  <2>2. /\ b \in ViewSet
        /\ b.keys = v.keys /\ b.r.state = v.r.state /\ b.r.ld = v.r.ld
        /\ b.r.sets = v.r.sets
        /\ \A x \in Tier : b.r.cpus[x] = IF x = getTier(h, v) THEN 0 ELSE a.r.cpus[x]
    BY <1>2, <1>3, <2>1, DelCpusEffect
  <2>3. u = delFromHostSet(b, "available")
    BY <1>3, <1>4, <2>1 DEF removeFromDb, delFromAvailDb, Good
  <2>4. "available" \in State
    BY DEF State
  <2>5. /\ u \in ViewSet
        /\ u.keys = b.keys /\ u.r.state = b.r.state /\ u.r.ld = b.r.ld
        /\ u.r.cpus = b.r.cpus
        /\ u.r.sets = b.r.sets \ {"available"}
    BY <2>2, <2>3, <2>4 DEF delFromHostSet, ViewSet, HostRec
  <2>6. b.r.sets = {"available"}
    BY <1>4, <2>2 DEF Good
  <2>7. \A t \in Tier : u.r.cpus[t] = 0
    BY <1>1, <1>3, <2>2, <2>5 DEF Good
  <2> QED BY <2>2, <2>5, <2>6, <2>7
<1>5. CASE v.r.state # "available"
  <2>1. u = delFromHostSet(v, v.r.state)
    BY <1>5 DEF removeFromDb
  <2>2. /\ u \in ViewSet
        /\ u.keys = v.keys /\ u.r.state = v.r.state /\ u.r.ld = v.r.ld
        /\ u.r.cpus = v.r.cpus
        /\ u.r.sets = v.r.sets \ {v.r.state}
    BY <1>1, <2>1 DEF delFromHostSet, ViewSet, HostRec
  <2>3. u.r.sets = {} /\ \A t \in Tier : u.r.cpus[t] = 0
    BY <1>1, <1>5, <2>2 DEF Good
  <2> QED BY <2>2, <2>3
<1> QED BY <1>4, <1>5

\* An available host is good once all its cpus are in the tier of its load.
LEMMA AddToAvailDb ==
  ASSUME NEW h \in Host, NEW v \in ViewSet, v.r.state = "available", v.r.sets = {},
         \A t \in Tier : v.r.cpus[t] = 0,
         NEW u, u = addToAvailDb(h, v)
  PROVE  /\ Good(h, u)
         /\ u.r.state = "available" /\ u.r.ld = v.r.ld
         /\ u.keys = v.keys \cup {getTier(h, v)}
         /\ u.r.cpus[getTier(h, v)] = NCpus[h]
<1> DEFINE a == addToHostSet(v, "available")
<1>1. NCpus[h] \in Nat /\ "available" \in State
  BY HostAssumption DEF State
<1>2. /\ a \in ViewSet
      /\ a.keys = v.keys /\ a.r.state = v.r.state /\ a.r.ld = v.r.ld
      /\ a.r.cpus = v.r.cpus /\ a.r.sets = {"available"}
  BY <1>1 DEF addToHostSet, ViewSet, HostRec
<1>3. getTier(h, v) \in Tier
  BY ViewTier
<1>4. /\ u \in ViewSet
      /\ u.keys = v.keys \cup {getTier(h, v)} /\ u.r.state = "available"
      /\ u.r.ld = v.r.ld /\ u.r.sets = {"available"}
      /\ \A x \in Tier :
           u.r.cpus[x] = IF x = getTier(h, v) THEN a.r.cpus[x] + NCpus[h] ELSE a.r.cpus[x]
  <2>1. u = addCpusToTier(a, getTier(h, v), NCpus[h])
    BY DEF addToAvailDb
  <2> HIDE DEF a
  <2>2. /\ u \in ViewSet
        /\ u.keys = a.keys \cup {getTier(h, v)} /\ u.r.state = a.r.state
        /\ u.r.ld = a.r.ld /\ u.r.sets = a.r.sets
        /\ \A x \in Tier :
             u.r.cpus[x] = IF x = getTier(h, v) THEN a.r.cpus[x] + NCpus[h] ELSE a.r.cpus[x]
    BY <1>1, <1>2, <1>3, <2>1 DEF addCpusToTier, ViewSet, HostRec
  <2> QED BY <1>2, <2>2
<1>5. getTier(h, u) = getTier(h, v)
  BY <1>4 DEF getTier
<1>6. \A x \in Tier : u.r.cpus[x] = IF x = getTier(h, v) THEN NCpus[h] ELSE 0
  BY <1>1, <1>2, <1>4
<1> QED BY <1>3, <1>4, <1>5, <1>6 DEF Good

\* changeState takes a good view of a known host to a good view in the new state.
LEMMA ChangeState ==
  ASSUME NEW h \in Host, NEW v, Good(h, v), v.r.state # "none",
         NEW s \in State, NEW u, u = changeState(h, v, s)
  PROVE  /\ Good(h, u)
         /\ u.r.state = s /\ u.r.ld = v.r.ld
         /\ v.keys \subseteq u.keys
         /\ s # "available" => u.keys = v.keys /\ \A t \in Tier : u.r.cpus[t] = 0
         /\ s = "available" => u.r.cpus[getTier(h, v)] = NCpus[h]
<1> DEFINE a == removeFromDb(h, v)
           b == [a EXCEPT !.r.state = s]
<1>1. /\ a \in ViewSet
      /\ a.keys = v.keys /\ a.r.state = v.r.state /\ a.r.ld = v.r.ld
      /\ a.r.sets = {}
      /\ \A t \in Tier : a.r.cpus[t] = 0
  BY RemoveFromDbEffect
<1>2. /\ b \in ViewSet
      /\ b.keys = v.keys /\ b.r.state = s /\ b.r.ld = v.r.ld
      /\ b.r.sets = {}
      /\ \A t \in Tier : b.r.cpus[t] = 0
  <2> HIDE DEF a
  <2> QED BY <1>1 DEF ViewSet, HostRec
<1>3. u = addToDb(h, b)
  BY DEF changeState
<1>4. getTier(h, b) = getTier(h, v)
  BY <1>2 DEF getTier
<1> HIDE DEF b
<1>5. CASE s = "available"
  <2>1. u = addToAvailDb(h, b)
    BY <1>2, <1>3, <1>5 DEF addToDb
  <2> QED BY <1>2, <1>4, <1>5, <2>1, AddToAvailDb
<1>6. CASE s # "available"
  <2>1. u = addToHostSet(b, s)
    BY <1>2, <1>3, <1>6 DEF addToDb
  <2>2. /\ u \in ViewSet
        /\ u.keys = v.keys /\ u.r.state = s /\ u.r.ld = v.r.ld
        /\ u.r.cpus = b.r.cpus /\ u.r.sets = {s}
    BY <1>2, <2>1 DEF addToHostSet, ViewSet, HostRec
  <2> QED BY <1>2, <1>6, <2>2 DEF Good, State
<1> QED BY <1>5, <1>6

-----------------------------------------------------------------------------
(* What the events of a host do to a good view *)

\* avail, unavail, silent and overloaded keep the view of a known host good; none
\* of them changes the load, and all but avail leave the tier keys alone.
LEMMA Avail ==
  ASSUME NEW h \in Host, NEW v, Good(h, v), v.r.state # "none", NEW u, u = avail(h, v)
  PROVE  Good(h, u) /\ u.r.state # "none" /\ v.keys \subseteq u.keys
<1>1. CASE v.r.state \in {"unavailable", "silent", "overloaded"}
  <2>1. \E s \in {"overloaded", "available"} : u = changeState(h, v, s)
    BY <1>1 DEF avail
  <2> QED BY <2>1, ChangeState DEF State
<1>2. CASE v.r.state \notin {"unavailable", "silent", "overloaded"}
  BY <1>2 DEF avail
<1> QED BY <1>1, <1>2

\* The methods of the state objects, on a good view.
LEMMA Unavail ==
  ASSUME NEW h \in Host, NEW v, Good(h, v), v.r.state # "none", NEW u, u = unavail(h, v)
  PROVE  Good(h, u) /\ u.r.state = "unavailable" /\ u.keys = v.keys
BY ChangeState DEF unavail, State

\* A silent host is good.
LEMMA Silent ==
  ASSUME NEW h \in Host, NEW v, Good(h, v), v.r.state # "none", NEW u, u = silent(h, v)
  PROVE  /\ Good(h, u) /\ u.keys = v.keys
         /\ u.r.state = IF v.r.state = "unavailable" THEN "unavailable" ELSE "silent"
<1>1. v.r.state \in State
  BY DEF Good, ViewSet, HostRec
<1> QED BY <1>1, ChangeState DEF silent, State

\* An overloaded host is good.
LEMMA Overloaded ==
  ASSUME NEW h \in Host, NEW v, Good(h, v), v.r.state # "none", NEW u, u = overloaded(h, v)
  PROVE  /\ Good(h, u) /\ u.keys = v.keys /\ u.r.ld = v.r.ld
         /\ u.r.state = IF v.r.state = "available" THEN "overloaded" ELSE v.r.state
         /\ \A t \in Tier : u.r.cpus[t] = 0
<1>1. v.r.state \in State /\ \A t \in Tier : v.r.cpus[t] \in Nat
  BY DEF Good, ViewSet, HostRec
<1>2. CASE v.r.state = "available"
  BY <1>2, ChangeState DEF overloaded, State
<1>3. CASE v.r.state # "available"
  BY <1>1, <1>3 DEF overloaded, Good
<1> QED BY <1>2, <1>3

\* moveCpus takes the cpus of a tier to another one, whichever tiers those are.
LEMMA MoveCpusEffect ==
  ASSUME NEW v \in ViewSet, NEW old \in Tier, NEW new \in Tier, old # new,
         NEW u, u = moveCpus(v, old, new)
  PROVE  /\ u \in ViewSet
         /\ u.keys = v.keys \cup {new} /\ u.r.state = v.r.state /\ u.r.ld = v.r.ld
         /\ u.r.sets = v.r.sets
         /\ \A x \in Tier : u.r.cpus[x] = IF x = old THEN 0
                                       ELSE IF x = new THEN v.r.cpus[new] + v.r.cpus[old]
                                       ELSE v.r.cpus[x]
<1> DEFINE a == delCpusFromTier(v, old)
<1>1. /\ a \in ViewSet
      /\ a.keys = v.keys /\ a.r.state = v.r.state /\ a.r.ld = v.r.ld
      /\ a.r.sets = v.r.sets
      /\ \A x \in Tier : a.r.cpus[x] = IF x = old THEN 0 ELSE v.r.cpus[x]
  BY DelCpusEffect
<1>2. \A x \in Tier : v.r.cpus[x] \in Nat
  BY DEF ViewSet, HostRec
<1>3. u = addCpusToTier(a, new, v.r.cpus[old])
  BY DEF moveCpus
<1> HIDE DEF a
<1>4. /\ u \in ViewSet
      /\ u.keys = a.keys \cup {new} /\ u.r.state = a.r.state /\ u.r.ld = a.r.ld
      /\ u.r.sets = a.r.sets
      /\ \A x \in Tier :
           u.r.cpus[x] = IF x = new THEN a.r.cpus[x] + v.r.cpus[old] ELSE a.r.cpus[x]
  BY <1>1, <1>2, <1>3 DEF addCpusToTier, ViewSet, HostRec
<1> QED BY <1>1, <1>2, <1>4

\* A load average leaves a good view good: the cpus follow the load to its tier,
\* or leave the pool when there is none.
LEMMA UpdateTier ==
  ASSUME NEW h \in Host, NEW v, Good(h, v), v.r.state # "none",
         NEW ld \in Load, NEW u, u = updateTier(h, v, ld)
  PROVE  /\ Good(h, u) /\ v.keys \subseteq u.keys /\ u.r.ld = ld
         /\ u.r.state = IF v.r.state = "available" /\ getTier(h, v) # getTier(h, u)
                           /\ getTier(h, u) = 0
                        THEN "overloaded" ELSE v.r.state
<1> DEFINE old == getTier(h, v)
           new == calcTier(ld, PIndex[h])
           moved == CASE new = old -> v
                      [] new # old /\ new = 0 -> overloaded(h, v)
                      [] new # old /\ new # 0 -> moveCpus(v, old, new)
<1>1. v \in ViewSet /\ old \in Tier /\ new \in Tier /\ \A t \in Tier : v.r.cpus[t] \in Nat
  BY TierType, ViewTier DEF Good, ViewSet, HostRec
<1>2. u = [moved EXCEPT !.r.ld = ld, !.r.heard = TRUE, !.r.quiet = FALSE]
  BY DEF updateTier
<1>3. /\ moved \in ViewSet /\ v.keys \subseteq moved.keys
      /\ moved.r.sets = {moved.r.state} \ {"none"}
      /\ \A t \in Tier : moved.r.cpus[t] > 0 => moved.r.state = "available" /\ t = new
      /\ moved.r.state = "available" => new \in moved.keys
      /\ moved.r.state = IF v.r.state = "available" /\ new # old /\ new = 0
                         THEN "overloaded" ELSE v.r.state
  <2>1. CASE new = old
    BY <1>1, <2>1 DEF Good
  <2>2. CASE new # old /\ new = 0
    <3>1. moved = overloaded(h, v)
      BY <2>2
    <3> HIDE DEF moved
    <3>2. /\ Good(h, moved) /\ moved.keys = v.keys /\ moved.r.ld = v.r.ld
          /\ moved.r.state = IF v.r.state = "available" THEN "overloaded" ELSE v.r.state
          /\ \A t \in Tier : moved.r.cpus[t] = 0
      BY <3>1, Overloaded
    <3> QED BY <2>2, <3>2 DEF Good
  <2>3. CASE new # old /\ new # 0
    <3>1. moved = moveCpus(v, old, new)
      BY <2>3
    <3> HIDE DEF moved
    <3>2. /\ moved \in ViewSet
          /\ moved.keys = v.keys \cup {new} /\ moved.r.state = v.r.state
          /\ moved.r.sets = v.r.sets
          /\ \A x \in Tier : moved.r.cpus[x] = IF x = old THEN 0
                                            ELSE IF x = new THEN v.r.cpus[new] + v.r.cpus[old]
                                            ELSE v.r.cpus[x]
      BY <1>1, <2>3, <3>1, MoveCpusEffect
    <3>3. ASSUME NEW t \in Tier, moved.r.cpus[t] > 0
          PROVE  moved.r.state = "available" /\ t = new
      <4>1. v.r.cpus[t] > 0 => v.r.state = "available" /\ t = old
        BY DEF Good
      <4>2. v.r.cpus[old] > 0 => v.r.state = "available"
        BY <1>1 DEF Good
      <4>3. v.r.cpus[new] > 0 => FALSE
        BY <1>1, <2>3 DEF Good
      <4>4. t # old
        BY <1>1, <3>2, <3>3
      <4>5. CASE t = new
        <5>1. moved.r.cpus[t] = v.r.cpus[new] + v.r.cpus[old]
          BY <1>1, <3>2, <4>4, <4>5
        <5> QED BY <1>1, <3>2, <3>3, <4>2, <4>3, <4>5, <5>1
      <4>6. CASE t # new
        BY <3>2, <3>3, <4>1, <4>4, <4>6
      <4> QED BY <4>5, <4>6
    <3> QED BY <1>1, <2>3, <3>2, <3>3 DEF Good
  <2> QED BY <2>1, <2>2, <2>3
<1>4. /\ u \in ViewSet
      /\ u.keys = moved.keys /\ u.r.state = moved.r.state /\ u.r.ld = ld
      /\ u.r.sets = moved.r.sets /\ u.r.cpus = moved.r.cpus
  <2> HIDE DEF moved
  <2>1. moved \in ViewSet
    BY <1>3
  <2>2. u.keys = moved.keys /\ u.r = [moved.r EXCEPT !.ld = ld, !.heard = TRUE, !.quiet = FALSE]
    BY <1>2, <2>1 DEF ViewSet
  <2>3. u \in ViewSet
    BY <1>2, <2>1, <2>2 DEF ViewSet, HostRec
  <2> QED BY <2>1, <2>2, <2>3 DEF ViewSet, HostRec
<1>5. getTier(h, u) = new
  BY <1>4 DEF getTier
<1> QED BY <1>3, <1>4, <1>5 DEF Good

\* A new host is good: all its cpus are in the tier of its power index.
LEMMA CreateHost ==
  ASSUME NEW h \in Host, NEW v, Good(h, v), v.r.state = "none", NEW u, u = createHost(h, v)
  PROVE  Good(h, u) /\ v.keys \subseteq u.keys
<1> DEFINE a == [v EXCEPT !.r.state = "available"]
<1>1. v \in ViewSet /\ v.r.sets = {} /\ \A t \in Tier : v.r.cpus[t] = 0
  BY DEF Good, ViewSet, HostRec
<1>2. /\ a \in ViewSet /\ a.r.state = "available" /\ a.keys = v.keys
      /\ a.r.sets = {} /\ \A t \in Tier : a.r.cpus[t] = 0
  BY <1>1 DEF ViewSet, HostRec, State
<1>3. CASE h \in Listed
  <2>1. u = addToAvailDb(h, a)
    BY <1>3 DEF createHost
  <2> HIDE DEF a
  <2> QED BY <1>2, <2>1, AddToAvailDb
<1>4. CASE h \notin Listed
  BY <1>4 DEF createHost
<1> QED BY <1>3, <1>4

-----------------------------------------------------------------------------
(* The inductive invariant *)

\* PoolMatchesState alone is not inductive: that a host's cpus are all taken out
\* when it leaves the available state rests on its tier being a key of
\* availCpus_ (delFromAvailDb), and that it is in one sub-set rests on its being
\* in the one of its state before.
HostInv == TypeOK /\ \A h \in Host : Good(h, View(h))

\* The view of a host has its type.
LEMMA ViewType ==
  ASSUME TypeOK, NEW h \in Host
  PROVE  View(h) \in ViewSet /\ DpropOf[h] \in Dprop
BY HostAssumption DEF TypeOK, View, ViewSet

\* HostInv is the conjunction of the invariants that TLC checks.
LEMMA HostInvParts ==
  HostInv <=> TypeOK /\ SetsMatchState /\ PoolMatchesState /\ AvailTierIsKey
<1>1. ASSUME TypeOK, NEW h \in Host
      PROVE  Good(h, View(h)) <=>
               /\ host[h].sets = {host[h].state} \ {"none"}
               /\ \A t \in Tier : host[h].cpus[t] > 0 =>
                    host[h].state = "available" /\ t = getTier(h, View(h))
               /\ host[h].state = "available" =>
                    getTier(h, View(h)) \in tierKeys[DpropOf[h]]
  BY <1>1, ViewType DEF Good, View
<1>2. AvailTierIsKey <=>
        \A h \in Host : host[h].state = "available" =>
          getTier(h, View(h)) \in tierKeys[DpropOf[h]]
  BY DEF AvailTierIsKey, allHosts
<1> QED BY <1>1, <1>2 DEF HostInv, SetsMatchState, PoolMatchesState

\* Replacing the view of one host by a good one that has no fewer tier keys
\* leaves the views of all hosts good.
LEMMA SetViewGood ==
  ASSUME HostInv, NEW h \in Host, NEW v, Good(h, v), View(h).keys \subseteq v.keys,
         SetView(h, v)
  PROVE  /\ host' \in [Host -> HostRec] /\ tierKeys' \in [Dprop -> SUBSET Tier]
         /\ \A k \in Host : Good(k, View(k)')
<1>1. v.r \in HostRec /\ v.keys \in SUBSET Tier /\ v = [r |-> v.r, keys |-> v.keys]
  BY DEF Good, ViewSet
<1>2. host \in [Host -> HostRec] /\ tierKeys \in [Dprop -> SUBSET Tier]
  BY DEF HostInv, TypeOK
<1>3. DpropOf[h] \in Dprop /\ tierKeys[DpropOf[h]] \subseteq v.keys
  BY HostAssumption DEF View
<1>4. host' \in [Host -> HostRec] /\ tierKeys' \in [Dprop -> SUBSET Tier]
  BY <1>1, <1>2, <1>3 DEF SetView
<1>5. ASSUME NEW k \in Host
      PROVE  Good(k, View(k)')
  <2>1. DpropOf[k] \in Dprop /\ Good(k, View(k))
    BY HostAssumption DEF HostInv
  <2>2. CASE k = h
    <3>1. host'[k] = v.r /\ tierKeys'[DpropOf[k]] = v.keys
      BY <1>2, <1>3, <2>2 DEF SetView
    <3>2. View(k)' = v
      BY <1>1, <3>1 DEF View
    <3> QED BY <2>2, <3>2
  <2>3. CASE k # h
    <3>1. host'[k] = host[k]
      BY <1>2, <2>3 DEF SetView
    <3>2. tierKeys[DpropOf[k]] \subseteq tierKeys'[DpropOf[k]]
      BY <1>2, <1>3, <2>1 DEF SetView
    <3>3. View(k)' \in ViewSet
      BY <1>4, <2>1 DEF View, ViewSet
    <3> QED BY <2>1, <3>1, <3>2, <3>3 DEF Good, View, getTier
  <2> QED BY <2>2, <2>3
<1> QED BY <1>4, <1>5

\* No host is known in the initial state.
LEMMA HostInvInit == Init => HostInv
<1> SUFFICES ASSUME Init
             PROVE  HostInv
  OBVIOUS
<1>1. NoHost \in HostRec
  BY DEF NoHost, HostRec, State, Load
<1>2. TypeOK
  BY <1>1 DEF Init, TypeOK
<1>3. ASSUME NEW h \in Host
      PROVE  Good(h, View(h))
  <2>1. View(h).r = NoHost /\ View(h) \in ViewSet
    BY <1>2, ViewType DEF View, Init
  <2> QED BY <2>1 DEF Good, NoHost
<1> QED BY <1>2, <1>3 DEF HostInv

\* The number that assignCpuToClient compares with the maximum is a number.
LEMMA AssignedCount ==
  ASSUME NEW d
  PROVE  Cardinality(Assigned(d)') \in Nat
<1>1. Assigned(d)' \subseteq Sock
  BY DEF Assigned
<1> QED BY <1>1, SockAssumption, FS_Subset, FS_CardinalityType

\* Every step of the database keeps HostInv.
LEMMA HostInvNext == HostInv /\ [Next]_vars => HostInv'
<1> SUFFICES ASSUME HostInv, [Next]_vars
             PROVE  HostInv'
  OBVIOUS
<1> USE DEF HostInv
<1>1. ASSUME NEW h \in Host
      PROVE  /\ View(h) \in ViewSet /\ DpropOf[h] \in Dprop
             /\ Good(h, View(h)) /\ View(h).r = host[h]
             /\ h \in allHosts <=> View(h).r.state # "none"
  BY <1>1, ViewType DEF View, allHosts
<1>2. ASSUME NEW h \in Host, NEW ld \in Load, LdAvgKnown(h, ld)
      PROVE  HostInv'
  <2> DEFINE v == updateTier(h, View(h), ld)
             w == avail(h, v)
  <2>1. /\ Good(h, v) /\ View(h).keys \subseteq v.keys
        /\ v.r.state # "none"
    BY <1>1, <1>2, UpdateTier DEF LdAvgKnown
  <2> HIDE DEF v
  <2>2. Good(h, w) /\ v.keys \subseteq w.keys
    BY <2>1, Avail
  <2>3. SetView(h, v) \/ SetView(h, w)
    BY <1>2 DEF LdAvgKnown, v
  <2> HIDE DEF w
  <2>4. /\ host' \in [Host -> HostRec] /\ tierKeys' \in [Dprop -> SUBSET Tier]
        /\ \A k \in Host : Good(k, View(k)')
    BY <2>1, <2>2, <2>3, SetViewGood
  <2> QED BY <1>2, <2>4 DEF LdAvgKnown, TypeOK
<1>3. ASSUME NEW h \in Host, LdAvgNew(h) \/ StatusUp(h)
      PROVE  HostInv'
  <2> DEFINE a == avail(h, View(h))
             c == createHost(h, View(h))
  <2>1. CASE h \in allHosts
    <3>1. Good(h, a) /\ View(h).keys \subseteq a.keys
      BY <1>1, <2>1, Avail
    <3>2. SetView(h, a)
      BY <1>3, <2>1 DEF LdAvgNew, StatusUp
    <3> HIDE DEF a
    <3>3. /\ host' \in [Host -> HostRec] /\ tierKeys' \in [Dprop -> SUBSET Tier]
          /\ \A k \in Host : Good(k, View(k)')
      BY <3>1, <3>2, SetViewGood
    <3> QED BY <1>3, <3>3 DEF LdAvgNew, StatusUp, TypeOK
  <2>2. CASE h \notin allHosts
    <3>1. Good(h, c) /\ View(h).keys \subseteq c.keys
      BY <1>1, <2>2, CreateHost
    <3>2. SetView(h, c)
      BY <1>3, <2>2 DEF LdAvgNew, StatusUp
    <3> HIDE DEF c
    <3>3. /\ host' \in [Host -> HostRec] /\ tierKeys' \in [Dprop -> SUBSET Tier]
          /\ \A k \in Host : Good(k, View(k)')
      BY <3>1, <3>2, SetViewGood
    <3> QED BY <1>3, <3>3 DEF LdAvgNew, StatusUp, TypeOK
  <2> QED BY <2>1, <2>2
<1>4. ASSUME NEW h \in Host, StatusDown(h)
      PROVE  HostInv'
  <2> DEFINE u == unavail(h, View(h))
  <2>1. Good(h, u) /\ View(h).keys \subseteq u.keys
    BY <1>1, <1>4, Unavail DEF StatusDown
  <2>2. SetView(h, u)
    BY <1>4 DEF StatusDown
  <2> HIDE DEF u
  <2>3. /\ host' \in [Host -> HostRec] /\ tierKeys' \in [Dprop -> SUBSET Tier]
        /\ \A k \in Host : Good(k, View(k)')
    BY <2>1, <2>2, SetViewGood
  <2> QED BY <1>4, <2>3 DEF StatusDown, TypeOK
<1>5. ASSUME NEW h \in Host, Elapse(h)
      PROVE  HostInv'
  <2>0. host' = [host EXCEPT ![h].quiet = TRUE] /\ host \in [Host -> HostRec]
    BY <1>5 DEF Elapse, TypeOK
  <2>1. host' \in [Host -> HostRec]
    <3>1. [host[h] EXCEPT !.quiet = TRUE] \in HostRec
      BY <2>0 DEF HostRec
    <3> QED BY <2>0, <3>1
  <2>2. ASSUME NEW k \in Host
        PROVE  /\ host'[k].state = host[k].state /\ host'[k].sets = host[k].sets
               /\ host'[k].cpus = host[k].cpus /\ host'[k].ld = host[k].ld
    BY <1>5 DEF Elapse, TypeOK, HostRec
  <2>3. TypeOK'
    BY <1>5, <2>1 DEF Elapse, TypeOK
  <2>4. ASSUME NEW k \in Host
        PROVE  Good(k, View(k)')
    <3>1. View(k)' \in ViewSet
      BY <2>3, HostAssumption DEF TypeOK, View, ViewSet
    <3>2. Good(k, View(k)) /\ View(k)'.keys = View(k).keys
      BY <1>5 DEF Elapse, View
    <3> QED BY <2>2, <3>1, <3>2 DEF Good, View, getTier
  <2> QED BY <2>3, <2>4
<1>6. ASSUME handleSilentHosts
      PROVE  HostInv'
  <2>1. ASSUME NEW k \in Host
        PROVE  /\ host'[k] \in HostRec
               /\ Good(k, [r |-> host'[k], keys |-> tierKeys[DpropOf[k]]])
    <3> DEFINE u == silent(k, View(k))
    <3>1. CASE k \in allHosts /\ seemsDown(k)
      <4>1. Good(k, u) /\ u.keys = View(k).keys
        BY <1>1, <3>1, Silent
      <4>2. host'[k] = u.r
        BY <1>6, <3>1 DEF handleSilentHosts
      <4> HIDE DEF u
      <4>3. u = [r |-> host'[k], keys |-> tierKeys[DpropOf[k]]] /\ u.r \in HostRec
        BY <4>1, <4>2 DEF Good, ViewSet, View
      <4> QED BY <4>1, <4>2, <4>3
    <3>2. CASE ~(k \in allHosts /\ seemsDown(k))
      <4>1. host'[k] = host[k]
        BY <1>6, <3>2 DEF handleSilentHosts
      <4> QED BY <1>1, <4>1 DEF View, TypeOK
    <3> QED BY <3>1, <3>2
  <2>2. TypeOK'
    BY <1>6, <2>1 DEF handleSilentHosts, TypeOK
  <2> QED BY <1>6, <2>1, <2>2 DEF handleSilentHosts, View
<1>7. ASSUME NEW s \in Sock, NEW d \in Dprop, HostReqGranted(s, d)
      PROVE  HostInv'
  <2>1. PICK c \in BestCpus(d) :
          /\ host' = [host EXCEPT ![c[1]].cpus[c[2]] = @ - 1]
          /\ assignedCpus' = [assignedCpus EXCEPT ![d] = insert(@, s, c[1])]
    BY <1>7 DEF HostReqGranted
  <2>2. c[1] \in Host /\ c[2] \in Tier /\ host[c[1]].cpus[c[2]] > 0
    BY DEF BestCpus
  <2> DEFINE g == c[1]
             n == host[g].cpus[c[2]] - 1
             r == [host[g] EXCEPT !.cpus[c[2]] = n]
  <2>3. n \in Nat /\ host[g] \in HostRec
    BY <2>2 DEF TypeOK, HostRec
  <2>4. /\ r \in HostRec
        /\ r.state = host[g].state /\ r.sets = host[g].sets /\ r.ld = host[g].ld
        /\ \A t \in Tier : r.cpus[t] > 0 => host[g].cpus[t] > 0
    <3>1. host[g].cpus[c[2]] > 0
      BY <2>2
    <3> HIDE DEF n, g
    <3>2. r \in HostRec
      BY <2>2, <2>3 DEF HostRec
    <3>3. \A t \in Tier : r.cpus[t] = IF t = c[2] THEN n ELSE host[g].cpus[t]
      BY <2>2, <2>3 DEF HostRec
    <3>4. r.state = host[g].state /\ r.sets = host[g].sets /\ r.ld = host[g].ld
      BY <2>3 DEF HostRec
    <3> HIDE DEF r
    <3> QED BY <3>1, <3>2, <3>3, <3>4
  <2>5. host' = [host EXCEPT ![g] = r]
    BY <2>1
  <2> HIDE DEF r, n
  <2>6. host' \in [Host -> HostRec]
    BY <2>2, <2>4, <2>5 DEF TypeOK
  <2>7. ASSUME NEW k \in Host
        PROVE  /\ host'[k].state = host[k].state /\ host'[k].sets = host[k].sets
               /\ host'[k].ld = host[k].ld
               /\ \A t \in Tier : host'[k].cpus[t] > 0 => host[k].cpus[t] > 0
    BY <2>4, <2>5 DEF TypeOK
  <2>8. assignedCpus' \in [Dprop -> [Sock -> Host \cup {None}]]
    BY <2>1, <2>2 DEF TypeOK, insert
  <2>9. sock2Dprop' \in [Sock -> Dprop \cup {None}]
    BY <1>7 DEF HostReqGranted, TypeOK, insert
  <2>10. served' \in [Dprop -> Nat] /\ maxAssigned' \in [Dprop -> Nat]
    BY <1>7, AssignedCount DEF HostReqGranted, TypeOK
  <2>11. conn' \in [Sock -> {"closed", "refused", "serving"}] /\ tierKeys' = tierKeys
    BY <1>7 DEF HostReqGranted, TypeOK
  <2>12. TypeOK'
    BY <2>6, <2>8, <2>9, <2>10, <2>11 DEF TypeOK
  <2>13. ASSUME NEW k \in Host
         PROVE  Good(k, View(k)')
    <3>1. View(k)' \in ViewSet
      BY <2>12, HostAssumption DEF TypeOK, View, ViewSet
    <3>2. Good(k, View(k)) /\ View(k)'.keys = View(k).keys
      BY <2>11 DEF View
    <3>3. getTier(k, View(k)') = getTier(k, View(k))
      BY <2>7 DEF View, getTier
    <3> QED BY <2>7, <3>1, <3>2, <3>3 DEF Good, View
  <2> QED BY <2>12, <2>13
<1>8. ASSUME NEW s \in Sock, NEW d \in Dprop, HostReqRefused(s, d)
      PROVE  HostInv'
  BY <1>8 DEF HostReqRefused, TypeOK, View
<1>9. ASSUME NEW s \in Sock, releaseCpu(s)
      PROVE  HostInv'
  <2>1. /\ assignedCpus' \in [Dprop -> [Sock -> Host \cup {None}]]
        /\ sock2Dprop' \in [Sock -> Dprop \cup {None}]
        /\ conn' \in [Sock -> {"closed", "refused", "serving"}]
        /\ served' = served /\ maxAssigned' = maxAssigned
    <3>1. assignedCpus' \in [Dprop -> [Sock -> Host \cup {None}]]
      <4>1. CASE assignedCpus' = assignedCpus
        BY <4>1 DEF TypeOK
      <4>2. CASE assignedCpus' # assignedCpus
        <5>1. assignedCpus' = [assignedCpus EXCEPT ![sock2Dprop[s]][s] = None]
          BY <1>9, <4>2 DEF releaseCpu
        <5> QED BY <5>1 DEF TypeOK
      <4> QED BY <4>1, <4>2
    <3> QED BY <1>9, <3>1 DEF releaseCpu, TypeOK
  <2>2. CASE UNCHANGED <<host, tierKeys>>
    BY <2>1, <2>2 DEF TypeOK, View
  <2>3. ASSUME NEW h \in Host, host[h].state = "available",
               SetView(h, addCpusToTier(View(h), getTier(h, View(h)), 1))
        PROVE  HostInv'
    <3> DEFINE u == addCpusToTier(View(h), getTier(h, View(h)), 1)
    <3>1. getTier(h, View(h)) \in Tier
      BY <1>1, ViewTier
    <3>2. /\ u \in ViewSet
          /\ u.keys = View(h).keys \cup {getTier(h, View(h))}
          /\ u.r.state = View(h).r.state /\ u.r.ld = View(h).r.ld
          /\ u.r.sets = View(h).r.sets
          /\ \A x \in Tier : u.r.cpus[x] = IF x = getTier(h, View(h))
                                           THEN View(h).r.cpus[x] + 1 ELSE View(h).r.cpus[x]
      BY <1>1, <3>1, AddCpus
    <3>3. Good(h, u) /\ View(h).keys \subseteq u.keys
      BY <1>1, <2>3, <3>2 DEF Good, getTier
    <3> HIDE DEF u
    <3>4. /\ host' \in [Host -> HostRec] /\ tierKeys' \in [Dprop -> SUBSET Tier]
          /\ \A k \in Host : Good(k, View(k)')
      BY <2>3, <3>3, SetViewGood DEF u
    <3> QED BY <2>1, <3>4 DEF TypeOK
  <2>4. CASE ~UNCHANGED <<host, tierKeys>>
    <3>1. PICK d \in Dprop : assignedCpus[d][s] # None /\ giveBack(assignedCpus[d][s])
      BY <1>9, <2>4 DEF releaseCpu, TypeOK
    <3>2. assignedCpus[d][s] \in Host
      BY <3>1 DEF TypeOK
    <3> QED BY <2>3, <2>4, <3>1, <3>2 DEF giveBack
  <2> QED BY <2>2, <2>4
<1>10. ASSUME NEW s \in Sock, BadMsg(s)
       PROVE  HostInv'
  BY <1>10 DEF BadMsg, TypeOK, View
<1>11. ASSUME getStatsFromDb
       PROVE  HostInv'
  BY <1>11 DEF getStatsFromDb, TypeOK, View
<1>12. CASE UNCHANGED vars
  BY <1>12 DEF vars, TypeOK, View
<1> QED
  BY <1>2, <1>3, <1>4, <1>5, <1>6, <1>7, <1>8, <1>9, <1>10, <1>11, <1>12 DEF Next

-----------------------------------------------------------------------------

\* TypeOK, SetsMatchState, PoolMatchesState and AvailTierIsKey hold in every
\* reachable state.
THEOREM HostInvariant == Spec => []HostInv
<1>1. Init => HostInv
  BY HostInvInit
<1>2. HostInv /\ [Next]_vars => HostInv'
  BY HostInvNext
<1> QED BY <1>1, <1>2, PTL DEF Spec

\* The types of the variables, as a theorem of the specification.
THEOREM TypeCorrect == Spec => []TypeOK
<1>1. HostInv => TypeOK
  BY DEF HostInv
<1> QED BY <1>1, HostInvariant, PTL

\* A host is in the sub-set of its state and in no other one, whatever messages,
\* searches and releases came before.
THEOREM SetsCorrect == Spec => []SetsMatchState
<1>1. HostInv => SetsMatchState
  BY HostInvParts
<1> QED BY <1>1, HostInvariant, PTL

\* The pool holds cpus of available hosts only, each in the tier that the last
\* load average of its host gives it.
THEOREM PoolCorrect == Spec => []PoolMatchesState
<1>1. HostInv => PoolMatchesState
  BY HostInvParts
<1> QED BY <1>1, HostInvariant, PTL

\* delFromAvailDb never returns before it removes the host.
THEOREM TierKeysCorrect == Spec => []AvailTierIsKey
<1>1. HostInv => AvailTierIsKey
  BY HostInvParts
<1> QED BY <1>1, HostInvariant, PTL

-----------------------------------------------------------------------------
(* Administrative unavailability *)

\* A host that a status "down" message took out of service leaves that state in
\* no step but a status "up" message for it.
THEOREM DownStays == Spec => DownSticks
<1> DEFINE Step == \A h \in Host : host[h].state = "unavailable"
                     /\ host'[h].state # "unavailable" => StatusUp(h)
<1>1. ASSUME HostInv, [Next]_vars
      PROVE  Step
  <2> SUFFICES ASSUME NEW h \in Host, host[h].state = "unavailable", ~StatusUp(h)
               PROVE  host'[h].state = "unavailable"
    OBVIOUS
  <2>1. \A k \in Host : Good(k, View(k)) /\ View(k).r = host[k]
    BY <1>1 DEF HostInv, View
  <2>2. /\ host \in [Host -> HostRec]
        /\ \A k \in Host : \A v : k # h /\ SetView(k, v) => host'[h] = host[h]
    BY <1>1 DEF HostInv, TypeOK, SetView
  <2>3. \A v : SetView(h, v) => host'[h] = v.r
    BY <2>2 DEF SetView
  <2>4. ASSUME NEW k \in Host, NEW ld \in Load, LdAvgKnown(k, ld)
        PROVE  host'[h].state = "unavailable"
    <3> DEFINE v == updateTier(h, View(h), ld)
    <3>1. CASE k = h
      <4>1. v.r.state = "unavailable"
        BY <2>1, UpdateTier
      <4>2. SetView(h, v)
        BY <2>4, <3>1, <4>1 DEF LdAvgKnown
      <4> QED BY <2>3, <4>1, <4>2
    <3>2. CASE k # h
      BY <2>2, <2>4, <3>2 DEF LdAvgKnown
    <3> QED BY <3>1, <3>2
  <2>5. ASSUME NEW k \in Host, LdAvgNew(k) \/ StatusUp(k)
        PROVE  host'[h].state = "unavailable"
    BY <2>2, <2>5 DEF LdAvgNew, StatusUp, allHosts
  <2>6. ASSUME NEW k \in Host, StatusDown(k)
        PROVE  host'[h].state = "unavailable"
    BY <2>2, <2>3, <2>6, <2>1 DEF StatusDown, unavail
  <2>7. ASSUME NEW k \in Host, Elapse(k)
        PROVE  host'[h].state = "unavailable"
    BY <2>2, <2>7 DEF Elapse, HostRec
  <2>8. ASSUME handleSilentHosts
        PROVE  host'[h].state = "unavailable"
    BY <2>1, <2>8 DEF handleSilentHosts, silent
  <2>9. ASSUME NEW s \in Sock, NEW d \in Dprop, HostReqGranted(s, d)
        PROVE  host'[h].state = "unavailable"
    <3>1. PICK c \in BestCpus(d) : host' = [host EXCEPT ![c[1]].cpus[c[2]] = @ - 1]
      BY <2>9 DEF HostReqGranted
    <3> QED BY <2>2, <3>1 DEF HostRec
  <2>10. ASSUME NEW s \in Sock, releaseCpu(s)
         PROVE  host'[h].state = "unavailable"
    <3>1. CASE host' = host
      BY <3>1
    <3>2. CASE host' # host
      <4>1. PICK d \in Dprop : assignedCpus[d][s] # None /\ giveBack(assignedCpus[d][s])
        BY <1>1, <2>10, <3>2 DEF releaseCpu, HostInv, TypeOK
      <4>2. assignedCpus[d][s] \in Host
        BY <1>1, <4>1 DEF HostInv, TypeOK
      <4> QED BY <2>2, <3>2, <4>1, <4>2 DEF giveBack
    <3> QED BY <3>1, <3>2
  <2>11. ASSUME \/ \E s \in Sock, d \in Dprop : HostReqRefused(s, d)
                \/ \E s \in Sock : BadMsg(s)
                \/ getStatsFromDb
                \/ UNCHANGED vars
         PROVE  host'[h].state = "unavailable"
    BY <2>11 DEF HostReqRefused, BadMsg, getStatsFromDb, vars
  <2> QED
    BY <1>1, <2>4, <2>5, <2>6, <2>7, <2>8, <2>9, <2>10, <2>11 DEF Next
<1>2. HostInv /\ [Next]_vars => [Step]_vars
  BY <1>1
<1> QED BY <1>2, HostInvariant, PTL DEF Spec, DownSticks

-----------------------------------------------------------------------------
(* The assignments of cpus to clients *)

\* A host that is known stays known: nothing removes a host from allHosts_.
LEMMA KnownStays == HostInv /\ [Next]_vars => \A h \in allHosts : host'[h].state # "none"
<1> SUFFICES ASSUME HostInv, [Next]_vars, NEW h \in Host, host[h].state # "none"
             PROVE  host'[h].state # "none"
  BY DEF allHosts
<1>1. \A k \in Host : Good(k, View(k)) /\ View(k).r = host[k]
  BY DEF HostInv, View
<1>2. /\ host \in [Host -> HostRec]
      /\ \A k \in Host : \A v : k # h /\ SetView(k, v) => host'[h] = host[h]
      /\ \A v : SetView(h, v) => host'[h] = v.r
  BY DEF HostInv, TypeOK, SetView
<1>3. ASSUME NEW k \in Host, NEW ld \in Load, LdAvgKnown(k, ld)
      PROVE  host'[h].state # "none"
  <2> DEFINE v == updateTier(h, View(h), ld)
             w == avail(h, v)
  <2>1. CASE k = h
    <3>1. Good(h, v) /\ v.r.state # "none"
      BY <1>1, UpdateTier
    <3> HIDE DEF v
    <3>2. w.r.state # "none"
      BY <3>1, Avail
    <3>3. SetView(h, v) \/ SetView(h, w)
      BY <1>3, <2>1 DEF LdAvgKnown, v
    <3> HIDE DEF w
    <3> QED BY <1>2, <3>1, <3>2, <3>3
  <2>2. CASE k # h
    BY <1>2, <1>3, <2>2 DEF LdAvgKnown
  <2> QED BY <2>1, <2>2
<1>4. ASSUME NEW k \in Host, LdAvgNew(k) \/ StatusUp(k)
      PROVE  host'[h].state # "none"
  <2>1. CASE k = h
    <3>1. SetView(h, avail(h, View(h)))
      BY <1>4, <2>1 DEF LdAvgNew, StatusUp, allHosts
    <3>2. avail(h, View(h)).r.state # "none"
      BY <1>1, Avail
    <3> QED BY <1>2, <3>1, <3>2
  <2>2. CASE k # h
    BY <1>2, <1>4, <2>2 DEF LdAvgNew, StatusUp
  <2> QED BY <2>1, <2>2
<1>5. ASSUME NEW k \in Host, StatusDown(k)
      PROVE  host'[h].state # "none"
  <2>1. unavail(h, View(h)).r.state # "none"
    BY <1>1, Unavail
  <2> QED BY <1>2, <1>5, <2>1 DEF StatusDown
<1>6. ASSUME NEW k \in Host, Elapse(k)
      PROVE  host'[h].state # "none"
  BY <1>2, <1>6 DEF Elapse, HostRec
<1>7. ASSUME handleSilentHosts
      PROVE  host'[h].state # "none"
  <2>1. silent(h, View(h)).r.state # "none"
    BY <1>1, Silent
  <2> QED BY <1>7, <2>1 DEF handleSilentHosts
<1>8. ASSUME NEW s \in Sock, NEW d \in Dprop, HostReqGranted(s, d)
      PROVE  host'[h].state # "none"
  <2>1. PICK c \in BestCpus(d) : host' = [host EXCEPT ![c[1]].cpus[c[2]] = @ - 1]
    BY <1>8 DEF HostReqGranted
  <2> QED BY <1>2, <2>1 DEF HostRec
<1>9. ASSUME NEW s \in Sock, releaseCpu(s)
      PROVE  host'[h].state # "none"
  <2>1. CASE host' = host
    BY <2>1
  <2>2. CASE host' # host
    <3>1. PICK d \in Dprop : assignedCpus[d][s] # None /\ giveBack(assignedCpus[d][s])
      BY <1>9, <2>2 DEF releaseCpu, HostInv, TypeOK
    <3>2. PICK k \in Host :
            SetView(k, addCpusToTier(View(k), getTier(k, View(k)), 1))
      BY <2>2, <3>1 DEF giveBack, HostInv, TypeOK
    <3>3. addCpusToTier(View(h), getTier(h, View(h)), 1).r.state = host[h].state
      BY <1>1, <1>2 DEF addCpusToTier, HostRec
    <3> QED BY <1>2, <3>2, <3>3
  <2> QED BY <2>1, <2>2
<1>10. ASSUME \/ \E s \in Sock, d \in Dprop : HostReqRefused(s, d)
              \/ \E s \in Sock : BadMsg(s)
              \/ getStatsFromDb
              \/ UNCHANGED vars
       PROVE  host'[h].state # "none"
  BY <1>10 DEF HostReqRefused, BadMsg, getStatsFromDb, vars
<1> QED BY <1>3, <1>4, <1>5, <1>6, <1>7, <1>8, <1>9, <1>10 DEF Next

\* As long as every client sends messages that parse, the two maps from sockets
\* agree with each other and with the connections.
THEOREM AssignmentsCorrect == ASSUME BadMsgs = FALSE PROVE Spec => []AssignmentsTracked
<1> DEFINE Inv == HostInv /\ AssignmentsTracked
<1>1. Init => AssignmentsTracked
  BY NoneAssumption DEF Init, AssignmentsTracked
<1>2. ASSUME Inv, [Next]_vars
      PROVE  AssignmentsTracked'
  <2> USE <1>2 DEF HostInv
  <2>1. \A h \in Host : h \in allHosts => h \in allHosts'
    BY KnownStays DEF allHosts
  <2>2. None \notin Host /\ None \notin Dprop
    BY NoneAssumption
  <2>3. CASE UNCHANGED <<assignedCpus, sock2Dprop, conn>>
    BY <2>1, <2>3 DEF AssignmentsTracked, TypeOK
  <2>4. ASSUME NEW s \in Sock, NEW d \in Dprop, HostReqGranted(s, d)
        PROVE  AssignmentsTracked'
    <3>1. PICK c \in BestCpus(d) : assignedCpus' = [assignedCpus EXCEPT ![d] = insert(@, s, c[1])]
      BY <2>4 DEF HostReqGranted
    <3>2. c[1] \in Host /\ DpropOf[c[1]] = d /\ host[c[1]].cpus[c[2]] > 0 /\ c[2] \in Tier
      BY DEF BestCpus
    <3>3. c[1] \in allHosts
      BY <3>2 DEF Good, View, allHosts
    <3>4. conn[s] # "serving" /\ sock2Dprop[s] = None
      BY <2>4 DEF HostReqGranted, MayAsk, AssignmentsTracked
    <3>5. \A e \in Dprop : assignedCpus[e][s] = None
      BY <2>2, <3>4 DEF AssignmentsTracked
    <3>6. assignedCpus' = [assignedCpus EXCEPT ![d] = [@ EXCEPT ![s] = c[1]]]
      BY <3>1, <3>5 DEF insert
    <3>7. sock2Dprop' = [sock2Dprop EXCEPT ![s] = d] /\ conn' = [conn EXCEPT ![s] = "serving"]
      BY <2>4, <3>4 DEF HostReqGranted, insert
    <3>8. ASSUME NEW x \in Sock
          PROVE  /\ sock2Dprop'[x] = IF x = s THEN d ELSE sock2Dprop[x]
                 /\ conn'[x] = IF x = s THEN "serving" ELSE conn[x]
                 /\ \A e \in Dprop : assignedCpus'[e][x] =
                      IF x = s /\ e = d THEN c[1] ELSE assignedCpus[e][x]
      BY <3>6, <3>7 DEF TypeOK
    <3>9. ASSUME NEW x \in Sock
          PROVE  /\ sock2Dprop'[x] # None <=> conn'[x] = "serving"
                 /\ \A e \in Dprop :
                      /\ assignedCpus'[e][x] # None <=> sock2Dprop'[x] = e
                      /\ assignedCpus'[e][x] # None =>
                           assignedCpus'[e][x] \in allHosts' /\ DpropOf[assignedCpus'[e][x]] = e
      <4>1. CASE x = s
        <5>1. sock2Dprop'[x] = d /\ conn'[x] = "serving" /\ d # None
          BY <2>2, <3>8, <4>1
        <5>2. \A e \in Dprop : assignedCpus'[e][x] = IF e = d THEN c[1] ELSE None
          BY <3>5, <3>8, <4>1
        <5> QED BY <2>1, <2>2, <3>2, <3>3, <5>1, <5>2
      <4>2. CASE x # s
        <5>1. sock2Dprop'[x] = sock2Dprop[x] /\ conn'[x] = conn[x]
          BY <3>8, <4>2
        <5>2. \A e \in Dprop : assignedCpus'[e][x] = assignedCpus[e][x]
          BY <3>8, <4>2
        <5> QED BY <2>1, <5>1, <5>2 DEF AssignmentsTracked, TypeOK
      <4> QED BY <4>1, <4>2
    <3> QED BY <3>9 DEF AssignmentsTracked
  <2>5. ASSUME NEW s \in Sock, NEW d \in Dprop, HostReqRefused(s, d)
        PROVE  AssignmentsTracked'
    <3>1. conn[s] # "serving" /\ conn' = [conn EXCEPT ![s] = "refused"]
      BY <2>5 DEF HostReqRefused, MayAsk
    <3>2. UNCHANGED <<assignedCpus, sock2Dprop>>
      BY <2>5 DEF HostReqRefused
    <3>3. \A x \in Sock : conn'[x] = "serving" <=> conn[x] = "serving"
      BY <3>1 DEF TypeOK
    <3> QED BY <2>1, <3>2, <3>3 DEF AssignmentsTracked, TypeOK
  <2>6. ASSUME NEW s \in Sock, releaseCpu(s)
        PROVE  AssignmentsTracked'
    <3>1. ASSUME NEW x \in Sock
          PROVE  /\ sock2Dprop'[x] = IF x = s THEN None ELSE sock2Dprop[x]
                 /\ conn'[x] = IF x = s THEN "closed" ELSE conn[x]
      BY <2>6 DEF releaseCpu, TypeOK
    <3>2. ASSUME NEW x \in Sock, NEW e \in Dprop
          PROVE  assignedCpus'[e][x] = IF x = s THEN None ELSE assignedCpus[e][x]
      <4>1. CASE sock2Dprop[s] # None
        <5>1. sock2Dprop[s] \in Dprop
          BY <4>1 DEF TypeOK
        <5>2. assignedCpus[sock2Dprop[s]][s] # None
          BY <5>1 DEF AssignmentsTracked
        <5>3. assignedCpus' = [assignedCpus EXCEPT ![sock2Dprop[s]][s] = None]
          BY <2>6, <4>1, <5>2 DEF releaseCpu
        <5>4. e # sock2Dprop[s] => assignedCpus[e][s] = None
          BY DEF AssignmentsTracked
        <5> QED BY <5>1, <5>3, <5>4 DEF TypeOK
      <4>2. CASE sock2Dprop[s] = None
        <5>1. assignedCpus' = assignedCpus
          BY <2>6, <4>2 DEF releaseCpu
        <5>2. assignedCpus[e][s] = None
          BY <2>2, <4>2 DEF AssignmentsTracked
        <5> QED BY <5>1, <5>2
      <4> QED BY <4>1, <4>2
    <3>3. ASSUME NEW x \in Sock
          PROVE  /\ sock2Dprop'[x] # None <=> conn'[x] = "serving"
                 /\ \A e \in Dprop :
                      /\ assignedCpus'[e][x] # None <=> sock2Dprop'[x] = e
                      /\ assignedCpus'[e][x] # None =>
                           assignedCpus'[e][x] \in allHosts' /\ DpropOf[assignedCpus'[e][x]] = e
      <4>1. CASE x = s
        BY <2>2, <3>1, <3>2, <4>1
      <4>2. CASE x # s
        <5>1. sock2Dprop'[x] = sock2Dprop[x] /\ conn'[x] = conn[x]
          BY <3>1, <4>2
        <5>2. \A e \in Dprop : assignedCpus'[e][x] = assignedCpus[e][x]
          BY <3>2, <4>2
        <5> QED BY <2>1, <5>1, <5>2 DEF AssignmentsTracked, TypeOK
      <4> QED BY <4>1, <4>2
    <3> QED BY <3>3 DEF AssignmentsTracked
  <2>7. ASSUME NEW s \in Sock, BadMsg(s)
        PROVE  AssignmentsTracked'
    BY <2>7 DEF BadMsg
  <2>8. ASSUME NEW h \in Host,
               \/ \E ld \in Load : LdAvgKnown(h, ld)
               \/ LdAvgNew(h) \/ StatusUp(h) \/ StatusDown(h) \/ Elapse(h)
        PROVE  UNCHANGED <<assignedCpus, sock2Dprop, conn>>
    BY <2>8 DEF LdAvgKnown, LdAvgNew, StatusUp, StatusDown, Elapse
  <2>9. handleSilentHosts \/ getStatsFromDb \/ UNCHANGED vars =>
          UNCHANGED <<assignedCpus, sock2Dprop, conn>>
    BY DEF handleSilentHosts, getStatsFromDb, vars
  <2> QED BY <2>3, <2>4, <2>5, <2>6, <2>7, <2>8, <2>9 DEF Next
<1>3. Inv /\ [Next]_vars => Inv'
  BY <1>2, HostInvNext
<1>4. Init => Inv
  BY <1>1, HostInvInit
<1>5. Inv => AssignmentsTracked
  OBVIOUS
<1> HIDE DEF Inv
<1> QED BY <1>3, <1>4, <1>5, PTL DEF Spec

-----------------------------------------------------------------------------
(***************************************************************************)
(* The cpus in the pool and with clients: that DmucsDb implements          *)
(* HostPool, that no cpu is lost, how many can be given out twice, which   *)
(* cpu a client is given and what the maps and the statistics say of it.   *)
(***************************************************************************)

-----------------------------------------------------------------------------
(* What a request and a release do to the two maps from sockets *)

\* assignCpuToClient: a client without an entry gets one for the cpu it was given,
\* and no other entry changes.
EntriesAdded(h, s, d) ==
  /\ \A e \in Dprop, x \in Sock : assignedCpus'[e][x] =
       IF e = d /\ x = s /\ assignedCpus[d][s] = None THEN h ELSE assignedCpus[e][x]
  /\ \A x \in Sock : sock2Dprop'[x] =
       IF x = s /\ sock2Dprop[s] = None THEN d ELSE sock2Dprop[x]

\* getBestAvailCpu: the cpu comes from the tier of an available host's load, and
\* the pool changes in nothing else.
CpuTaken(h) ==
  /\ host[h].state = "available" /\ freeCpus(h) > 0
  /\ \A k \in Host : /\ host'[k].state = host[k].state
                     /\ freeCpus(k)' = IF k = h THEN freeCpus(k) - 1 ELSE freeCpus(k)

BestHost(h, d) ==
  \A k \in allHosts : DpropOf[k] = d /\ freeCpus(k) > 0 =>
    getTier(k, View(k)) <= getTier(h, View(h))

\* freeCpus looks at the record of its host only.
LEMMA FreeCpus ==
  ASSUME NEW h \in Host
  PROVE  /\ freeCpus(h) = host[h].cpus[calcTier(host[h].ld, PIndex[h])]
         /\ freeCpus(h)' = host'[h].cpus[calcTier(host'[h].ld, PIndex[h])]
         /\ HostInv => freeCpus(h) \in Nat
<1>1. /\ getTier(h, View(h)) = calcTier(host[h].ld, PIndex[h])
      /\ getTier(h, View(h))' = calcTier(host'[h].ld, PIndex[h])
  BY DEF getTier, View
<1>2. HostInv => View(h) \in ViewSet
  BY DEF HostInv, Good
<1>3. HostInv => getTier(h, View(h)) \in Tier /\ host[h] \in HostRec
  BY <1>2, ViewTier DEF HostInv, TypeOK
<1> QED BY <1>1, <1>3 DEF freeCpus, HostRec

\* A grant takes one cpu of the host from the pool and adds one entry at most.
LEMMA GrantEffect ==
  ASSUME HostInv, NEW s \in Sock, NEW d \in Dprop, HostReqGranted(s, d)
  PROVE  \E h \in Host : /\ h # None /\ DpropOf[h] = d
                         /\ CpuTaken(h) /\ BestHost(h, d) /\ EntriesAdded(h, s, d)
<1>1. PICK c \in BestCpus(d) :
        /\ host' = [host EXCEPT ![c[1]].cpus[c[2]] = @ - 1]
        /\ assignedCpus' = [assignedCpus EXCEPT ![d] = insert(@, s, c[1])]
  BY DEF HostReqGranted
<1>2. c[1] \in Host /\ DpropOf[c[1]] = d /\ c[2] \in Tier /\ host[c[1]].cpus[c[2]] > 0
  BY DEF BestCpus
<1>3. c[1] # None
  BY <1>2, NoneAssumption
<1>4. host[c[1]].state = "available" /\ c[2] = getTier(c[1], View(c[1]))
  BY <1>2 DEF HostInv, Good, View
<1>5. /\ assignedCpus \in [Dprop -> [Sock -> Host \cup {None}]]
      /\ host \in [Host -> HostRec]
  BY DEF HostInv, TypeOK
<1>6. EntriesAdded(c[1], s, d)
  <2>1. ASSUME NEW e \in Dprop, NEW x \in Sock
        PROVE  assignedCpus'[e][x] = IF e = d /\ x = s /\ assignedCpus[d][s] = None
                                     THEN c[1] ELSE assignedCpus[e][x]
    BY <1>1, <1>5 DEF insert
  <2>2. ASSUME NEW x \in Sock
        PROVE  sock2Dprop'[x] = IF x = s /\ sock2Dprop[s] = None THEN d ELSE sock2Dprop[x]
    BY DEF HostReqGranted, insert, HostInv, TypeOK
  <2> QED BY <2>1, <2>2 DEF EntriesAdded
<1>7. CpuTaken(c[1])
  <2> DEFINE n == host[c[1]].cpus[c[2]] - 1
             r == [host[c[1]] EXCEPT !.cpus[c[2]] = n]
  <2>1. r.state = host[c[1]].state /\ r.ld = host[c[1]].ld /\ r.cpus[c[2]] = n
    <3> HIDE DEF n
    <3> QED BY <1>2, <1>5 DEF HostRec
  <2>2. host' = [host EXCEPT ![c[1]] = r]
    BY <1>1
  <2> HIDE DEF r
  <2>3. \A k \in Host : host'[k] = IF k = c[1] THEN r ELSE host[k]
    BY <1>5, <2>2
  <2>4. c[2] = calcTier(host[c[1]].ld, PIndex[c[1]])
    BY <1>4 DEF getTier, View
  <2>5. freeCpus(c[1]) = n + 1
    <3>1. host[c[1]].cpus[c[2]] \in Nat
      BY <1>2, <1>5 DEF HostRec
    <3> QED BY <1>2, <2>4, <3>1, FreeCpus
  <2>6. freeCpus(c[1])' = n
    BY <1>2, <2>1, <2>3, <2>4, FreeCpus
  <2>7. \A k \in Host : k # c[1] => freeCpus(k)' = freeCpus(k)
    BY <2>3, FreeCpus
  <2>8. n \in Int /\ n + 1 > 0
    BY <1>2, <1>5 DEF HostRec
  <2> HIDE DEF n
  <2> QED BY <1>2, <1>4, <2>1, <2>3, <2>5, <2>6, <2>7, <2>8 DEF CpuTaken
<1>8. BestHost(c[1], d)
  <2> SUFFICES ASSUME NEW k \in allHosts, DpropOf[k] = d, freeCpus(k) > 0
               PROVE  getTier(k, View(k)) <= c[2]
    BY <1>4 DEF BestHost
  <2>1. k \in Host /\ getTier(k, View(k)) \in Tier
    BY ViewType, ViewTier DEF HostInv, allHosts
  <2>2. <<k, getTier(k, View(k))>> \in
          {f \in Host \X Tier : DpropOf[f[1]] = d /\ host[f[1]].cpus[f[2]] > 0}
    BY <2>1 DEF freeCpus
  <2> QED BY <2>2 DEF BestCpus
<1> QED BY <1>2, <1>3, <1>6, <1>7, <1>8

\* releaseCpu: a cpu goes back exactly when its entry leaves assignedCpus_, and the
\* socket has no entry in sock2DpropDb_ afterwards.
CpuReturned(h) ==
  \A k \in Host :
    /\ host'[k].state = host[k].state
    /\ freeCpus(k)' = IF k = h /\ host[k].state = "available"
                      THEN freeCpus(k) + 1 ELSE freeCpus(k)

EntryErased(d, s) ==
  \A e \in Dprop, x \in Sock :
    assignedCpus'[e][x] = IF e = d /\ x = s THEN None ELSE assignedCpus[e][x]

\* A cpu that is released goes to the tier of its host's load, if the host is
\* available.
LEMMA GiveBackEffect ==
  ASSUME HostInv, NEW h \in Host, giveBack(h)
  PROVE  CpuReturned(h)
<1> DEFINE t == getTier(h, View(h))
           u == addCpusToTier(View(h), t, 1)
<1>1. View(h) \in ViewSet /\ View(h).r = host[h]
  BY ViewType DEF HostInv, View
<1>2. t \in Tier /\ t = calcTier(host[h].ld, PIndex[h])
  BY <1>1, ViewTier DEF getTier
<1>3. CASE host[h].state = "available"
  <2>1. host' = [host EXCEPT ![h] = u.r]
    BY <1>3 DEF giveBack, SetView
  <2>2. u.r.state = host[h].state /\ u.r.ld = host[h].ld /\ u.r.cpus[t] = host[h].cpus[t] + 1
    BY <1>1, <1>2, AddCpus
  <2> HIDE DEF u
  <2>3. \A k \in Host : host'[k] = IF k = h THEN u.r ELSE host[k]
    BY <2>1 DEF HostInv, TypeOK
  <2>4. freeCpus(h)' = freeCpus(h) + 1
    BY <1>2, <2>2, <2>3, FreeCpus
  <2>5. \A k \in Host : k # h => freeCpus(k)' = freeCpus(k)
    BY <2>3, FreeCpus
  <2> QED BY <1>3, <2>2, <2>3, <2>4, <2>5 DEF CpuReturned
<1>4. CASE host[h].state # "available"
  <2>1. host' = host
    BY <1>4 DEF giveBack
  <2>2. \A k \in Host : freeCpus(k)' = freeCpus(k)
    BY <2>1, FreeCpus
  <2> QED BY <1>4, <2>1, <2>2 DEF CpuReturned
<1> QED BY <1>3, <1>4

\* What the close of a client changes.
LEMMA ReleaseEffect ==
  ASSUME HostInv, NEW s \in Sock, releaseCpu(s)
  PROVE  /\ \A x \in Sock : sock2Dprop'[x] = IF x = s THEN None ELSE sock2Dprop[x]
         /\ \/ UNCHANGED <<host, assignedCpus>>
            \/ \E d \in Dprop : /\ assignedCpus[d][s] \in Host
                                /\ assignedCpus[d][s] # None
                                /\ CpuReturned(assignedCpus[d][s])
                                /\ EntryErased(d, s)
<1>1. ASSUME NEW x \in Sock
      PROVE  sock2Dprop'[x] = IF x = s THEN None ELSE sock2Dprop[x]
  BY DEF releaseCpu, HostInv, TypeOK
<1> DEFINE d == sock2Dprop[s]
<1>2. CASE d # None /\ assignedCpus[d][s] # None
  <2>1. d \in Dprop
    BY <1>2 DEF HostInv, TypeOK
  <2>2. assignedCpus[d][s] \in Host
    BY <1>2, <2>1 DEF HostInv, TypeOK
  <2>3. /\ giveBack(assignedCpus[d][s])
        /\ assignedCpus' = [assignedCpus EXCEPT ![d][s] = None]
    BY <1>2 DEF releaseCpu
  <2>4. EntryErased(d, s)
    BY <2>1, <2>3 DEF EntryErased, HostInv, TypeOK
  <2>5. CpuReturned(assignedCpus[d][s])
    BY <2>2, <2>3, GiveBackEffect
  <2> HIDE DEF d
  <2> QED BY <1>1, <1>2, <2>1, <2>2, <2>4, <2>5
<1>3. CASE ~(d # None /\ assignedCpus[d][s] # None)
  BY <1>1, <1>3 DEF releaseCpu
<1> QED BY <1>2, <1>3

\* The maps change in no other step.
LEMMA MapsChange ==
  ASSUME [Next]_vars
  PROVE  \/ \E s \in Sock, d \in Dprop : HostReqGranted(s, d)
         \/ \E s \in Sock : releaseCpu(s)
         \/ getStatsFromDb
         \/ UNCHANGED <<assignedCpus, sock2Dprop, served, maxAssigned>>
<1>1. ASSUME NEW h \in Host,
             \/ \E ld \in Load : LdAvgKnown(h, ld)
             \/ LdAvgNew(h) \/ StatusUp(h) \/ StatusDown(h) \/ Elapse(h)
      PROVE  UNCHANGED <<assignedCpus, sock2Dprop, served, maxAssigned>>
  BY <1>1 DEF LdAvgKnown, LdAvgNew, StatusUp, StatusDown, Elapse
<1>2. ASSUME \/ \E s \in Sock, d \in Dprop : HostReqRefused(s, d)
             \/ \E s \in Sock : BadMsg(s)
             \/ handleSilentHosts \/ UNCHANGED vars
      PROVE  UNCHANGED <<assignedCpus, sock2Dprop, served, maxAssigned>>
  BY <1>2 DEF HostReqRefused, BadMsg, handleSilentHosts, vars
<1> QED BY <1>1, <1>2 DEF Next

\* An entry of assignedCpus_ names a host of its dprop.
EntriesOfDprop ==
  \A d \in Dprop, s \in Sock :
    assignedCpus[d][s] # None => DpropOf[assignedCpus[d][s]] = d

\* What the maps say of a socket, whatever lines its clients send.
MapsInv == HostInv /\ EntriesOfDprop /\ EntryReleasable

\* Every step keeps MapsInv.
LEMMA MapsNext == MapsInv /\ [Next]_vars => MapsInv'
<1> SUFFICES ASSUME MapsInv, [Next]_vars
             PROVE  EntriesOfDprop' /\ EntryReleasable'
  BY HostInvNext DEF MapsInv
<1> USE DEF MapsInv
<1>1. sock2Dprop \in [Sock -> Dprop \cup {None}]
  BY DEF HostInv, TypeOK
<1>2. ASSUME NEW s \in Sock, NEW d \in Dprop, HostReqGranted(s, d)
      PROVE  EntriesOfDprop' /\ EntryReleasable'
  <2>1. PICK h : h # None /\ DpropOf[h] = d /\ EntriesAdded(h, s, d)
    BY <1>2, GrantEffect
  <2>2. EntriesOfDprop'
    BY <2>1 DEF EntriesOfDprop, EntriesAdded
  <2>3. ASSUME NEW x \in Sock, sock2Dprop'[x] # None
        PROVE  assignedCpus'[sock2Dprop'[x]][x] # None
    <3>1. CASE x = s /\ sock2Dprop[s] = None
      BY <2>1, <3>1 DEF EntriesAdded
    <3>2. CASE ~(x = s /\ sock2Dprop[s] = None)
      <4>1. sock2Dprop'[x] = sock2Dprop[x] /\ sock2Dprop[x] \in Dprop
        BY <1>1, <2>1, <2>3, <3>2 DEF EntriesAdded
      <4>2. assignedCpus[sock2Dprop[x]][x] # None
        BY <2>3, <4>1 DEF EntryReleasable
      <4> QED BY <2>1, <4>1, <4>2 DEF EntriesAdded
    <3> QED BY <3>1, <3>2
  <2> QED BY <2>2, <2>3 DEF EntryReleasable
<1>3. ASSUME NEW s \in Sock, releaseCpu(s)
      PROVE  EntriesOfDprop' /\ EntryReleasable'
  <2>1. ASSUME NEW x \in Sock
        PROVE  sock2Dprop'[x] = IF x = s THEN None ELSE sock2Dprop[x]
    BY <1>3, ReleaseEffect
  <2>2. ASSUME NEW e \in Dprop, NEW x \in Sock
        PROVE  \/ assignedCpus'[e][x] = assignedCpus[e][x]
               \/ x = s /\ assignedCpus'[e][x] = None
    BY <1>3, ReleaseEffect DEF EntryErased
  <2>3. EntriesOfDprop'
    BY <2>2 DEF EntriesOfDprop
  <2>4. ASSUME NEW x \in Sock, sock2Dprop'[x] # None
        PROVE  assignedCpus'[sock2Dprop'[x]][x] # None
    <3>1. x # s /\ sock2Dprop'[x] = sock2Dprop[x] /\ sock2Dprop[x] \in Dprop
      BY <1>1, <2>1, <2>4
    <3> QED BY <2>2, <2>4, <3>1 DEF EntryReleasable
  <2> QED BY <2>3, <2>4 DEF EntryReleasable
<1>4. CASE UNCHANGED <<assignedCpus, sock2Dprop>>
  BY <1>4 DEF EntriesOfDprop, EntryReleasable
<1> QED BY <1>2, <1>3, <1>4, MapsChange DEF getStatsFromDb

\* The maps are related in every state.
LEMMA MapsInvariant == Spec => []MapsInv
<1>1. Init => MapsInv
  BY HostInvInit DEF Init, MapsInv, EntriesOfDprop, EntryReleasable
<1> QED BY <1>1, MapsNext, PTL DEF Spec

\* Whatever lines the clients send, an entry of sock2DpropDb_ has its cpu in the
\* assignedCpus_ of that dprop, so that the close of a client with that Socket
\* gives the cpu back.
THEOREM EntriesReleasable == Spec => []EntryReleasable
<1>1. MapsInv => EntryReleasable
  BY DEF MapsInv
<1> QED BY <1>1, MapsInvariant, PTL

-----------------------------------------------------------------------------
(* The statistics and the choice of a cpu *)

\* The clients with a cpu of a dprop are finitely many.
LEMMA AssignedFinite ==
  ASSUME NEW d
  PROVE  IsFiniteSet(Assigned(d)) /\ Cardinality(Assigned(d)) \in Nat
<1>1. Assigned(d) \subseteq Sock
  BY DEF Assigned
<1> QED BY <1>1, SockAssumption, FS_Subset, FS_CardinalityType

\* From the first cpu served in a period on, the maximum that the statistics
\* report covers all the clients that hold a cpu: only the grant of a cpu adds to
\* them, and it updates the maximum.
THEOREM MaximumCovers == Spec => []MaxCoversOnceServed
<1>1. Init => MaxCoversOnceServed
  BY DEF Init, MaxCoversOnceServed
<1>2. ASSUME HostInv, MaxCoversOnceServed, [Next]_vars
      PROVE  MaxCoversOnceServed'
  <2> SUFFICES ASSUME NEW d \in Dprop, served'[d] > 0
               PROVE  maxAssigned'[d] >= Cardinality(Assigned(d)')
    BY DEF MaxCoversOnceServed
  <2>1. served \in [Dprop -> Nat] /\ maxAssigned \in [Dprop -> Nat]
    BY <1>2 DEF HostInv, TypeOK
  <2>2. Cardinality(Assigned(d)) \in Nat /\ Cardinality(Assigned(d)') \in Nat
    BY AssignedFinite, AssignedCount
  <2>3. served[d] > 0 => maxAssigned[d] >= Cardinality(Assigned(d))
    BY <1>2 DEF MaxCoversOnceServed
  <2>4. ASSUME NEW s \in Sock, NEW e \in Dprop, HostReqGranted(s, e)
        PROVE  maxAssigned'[d] >= Cardinality(Assigned(d)')
    <3>1. CASE e = d
      <4>1. maxAssigned'[d] = IF Cardinality(Assigned(d)') > maxAssigned[d]
                              THEN Cardinality(Assigned(d)') ELSE maxAssigned[d]
        BY <2>1, <2>4, <3>1 DEF HostReqGranted
      <4> QED BY <2>1, <2>2, <4>1
    <3>2. CASE e # d
      <4>1. \A x \in Sock : assignedCpus'[d][x] = assignedCpus[d][x]
        BY <1>2, <2>4, <3>2, GrantEffect DEF EntriesAdded
      <4>2. Assigned(d)' = Assigned(d)
        BY <4>1 DEF Assigned
      <4>3. served'[d] = served[d] /\ maxAssigned'[d] = maxAssigned[d]
        BY <2>1, <2>4, <3>2 DEF HostReqGranted
      <4> QED BY <2>3, <4>2, <4>3
    <3> QED BY <3>1, <3>2
  <2>5. ASSUME NEW s \in Sock, releaseCpu(s)
        PROVE  maxAssigned'[d] >= Cardinality(Assigned(d)')
    <3>1. \A x \in Sock : \/ assignedCpus'[d][x] = assignedCpus[d][x]
                          \/ assignedCpus'[d][x] = None
      BY <1>2, <2>5, ReleaseEffect DEF EntryErased
    <3>2. Assigned(d)' \subseteq Assigned(d)
      BY <3>1 DEF Assigned
    <3>3. Cardinality(Assigned(d)') <= Cardinality(Assigned(d))
      BY <3>2, AssignedFinite, FS_Subset
    <3>4. served' = served /\ maxAssigned' = maxAssigned
      BY <2>5 DEF releaseCpu
    <3> QED BY <2>1, <2>2, <2>3, <3>3, <3>4
  <2>6. ~getStatsFromDb
    BY DEF getStatsFromDb
  <2>7. CASE UNCHANGED <<assignedCpus, sock2Dprop, served, maxAssigned>>
    BY <2>3, <2>7 DEF Assigned
  <2> QED BY <1>2, <2>4, <2>5, <2>6, <2>7, MapsChange
<1>3. HostInv /\ MaxCoversOnceServed /\ [Next]_vars => MaxCoversOnceServed'
  BY <1>2
<1> QED BY <1>1, <1>3, HostInvariant, PTL DEF Spec

\* A client is given a cpu of an available host, and no other available host of
\* the dprop with a free cpu is in a higher tier.
THEOREM BestTierAlways == Spec => BestTierGiven
<1> DEFINE Best(d, s) ==
      LET g == assignedCpus'[d][s]
      IN  /\ host[g].state = "available"
          /\ \A h \in allHosts : DpropOf[h] = d /\ freeCpus(h) > 0 =>
               getTier(h, View(h)) <= getTier(g, View(g))
    Step == \A d \in Dprop, s \in Sock :
              assignedCpus[d][s] = None /\ assignedCpus'[d][s] # None => Best(d, s)
<1>1. ASSUME HostInv, [Next]_vars
      PROVE  Step
  <2> SUFFICES ASSUME NEW d \in Dprop, NEW s \in Sock,
                      assignedCpus[d][s] = None, assignedCpus'[d][s] # None
               PROVE  Best(d, s)
    OBVIOUS
  <2>1. ASSUME NEW x \in Sock, NEW e \in Dprop, HostReqGranted(x, e)
        PROVE  Best(d, s)
    <3>1. PICK h : /\ host[h].state = "available" /\ BestHost(h, e)
                   /\ EntriesAdded(h, x, e)
      BY <1>1, <2>1, GrantEffect DEF CpuTaken
    <3>2. d = e /\ assignedCpus'[d][s] = h
      BY <3>1 DEF EntriesAdded
    <3> QED BY <3>1, <3>2 DEF BestHost
  <2>2. ASSUME NEW x \in Sock, releaseCpu(x)
        PROVE  FALSE
    BY <1>1, <2>2, ReleaseEffect DEF EntryErased
  <2>3. ~getStatsFromDb /\ ~UNCHANGED <<assignedCpus, sock2Dprop, served, maxAssigned>>
    BY DEF getStatsFromDb
  <2> QED BY <1>1, <2>1, <2>2, <2>3, MapsChange
<1>2. HostInv /\ [Next]_vars => [Step]_vars
  BY <1>1
<1> QED BY <1>2, HostInvariant, PTL DEF Spec, BestTierGiven

-----------------------------------------------------------------------------
(* The cpus of a host in its view *)

Pooled(h, v) == v.r.cpus[getTier(h, v)]

\* A host that is not available has no cpu in the pool.
LEMMA PooledGood ==
  ASSUME NEW h \in Host, NEW v, Good(h, v)
  PROVE  Pooled(h, v) \in Nat /\ (v.r.state # "available" => Pooled(h, v) = 0)
<1>1. v \in ViewSet /\ getTier(h, v) \in Tier
  BY ViewTier DEF Good
<1>2. Pooled(h, v) \in Nat
  BY <1>1 DEF Pooled, ViewSet, HostRec
<1> QED BY <1>1, <1>2 DEF Pooled, Good

\* What one event can do to a host, as HostPool sees it.
ViewStep(h, v, u) ==
  \/ u.r.state = v.r.state /\ Pooled(h, u) = Pooled(h, v)
  \/ /\ v.r.state # "available" /\ u.r.state = "available"
     /\ Pooled(h, u) = NCpus[h]
  \/ /\ v.r.state \in {"available", "overloaded", "silent"}
     /\ u.r.state = "unavailable" /\ Pooled(h, u) = 0
  \/ /\ v.r.state \in {"available", "unavailable"}
     /\ u.r.state = "overloaded" /\ Pooled(h, u) = 0

\* changeState to the available state puts all the cpus of the host in its tier, and
\* to any other one leaves none there.
LEMMA ChangeStatePool ==
  ASSUME NEW h \in Host, NEW v, Good(h, v), v.r.state # "none",
         NEW s \in State, NEW u, u = changeState(h, v, s)
  PROVE  /\ u.r.state = s
         /\ Pooled(h, u) = IF s = "available" THEN NCpus[h] ELSE 0
<1>1. Good(h, u) /\ u.r.state = s /\ u.r.ld = v.r.ld
  BY ChangeState
<1>2. s = "available" => u.r.cpus[getTier(h, v)] = NCpus[h]
  BY ChangeState
<1>3. getTier(h, u) = getTier(h, v)
  BY <1>1 DEF getTier
<1> QED BY <1>1, <1>2, <1>3, PooledGood DEF Pooled

\* avail: the host joins the pool, is too busy for it, or was there already.
LEMMA AvailPool ==
  ASSUME NEW h \in Host, NEW v, Good(h, v), v.r.state # "none", NEW u, u = avail(h, v)
  PROVE  /\ ViewStep(h, v, u)
         /\ v.r.state \in {"silent", "overloaded"} =>
              u.r.state = "available" /\ Pooled(h, u) = NCpus[h]
<1>1. CASE v.r.state = "unavailable"
  <2>1. \E s \in {"overloaded", "available"} : u = changeState(h, v, s)
    BY <1>1 DEF avail
  <2> QED BY <1>1, <2>1, ChangeStatePool DEF State, ViewStep
<1>2. CASE v.r.state \in {"silent", "overloaded"}
  <2>1. u = changeState(h, v, "available")
    BY <1>2 DEF avail
  <2>2. u.r.state = "available" /\ Pooled(h, u) = NCpus[h]
    BY <2>1, ChangeStatePool DEF State
  <2> QED BY <1>2, <2>2 DEF ViewStep
<1>3. CASE v.r.state \notin {"unavailable", "silent", "overloaded"}
  BY <1>3 DEF avail, ViewStep
<1> QED BY <1>1, <1>2, <1>3

\* unavail takes the cpus out of the pool.
LEMMA UnavailPool ==
  ASSUME NEW h \in Host, NEW v, Good(h, v), v.r.state # "none", NEW u, u = unavail(h, v)
  PROVE  ViewStep(h, v, u)
<1>1. CASE v.r.state = "unavailable"
  BY <1>1 DEF unavail, ViewStep
<1>2. CASE v.r.state # "unavailable"
  <2>1. v.r.state \in {"available", "overloaded", "silent"}
    BY <1>2 DEF Good, ViewSet, HostRec, State
  <2>2. u.r.state = "unavailable" /\ Pooled(h, u) = 0
    BY <1>2, ChangeStatePool DEF unavail, State
  <2> QED BY <2>1, <2>2 DEF ViewStep
<1> QED BY <1>1, <1>2

\* silent: a host in service leaves it.
LEMMA SilentPool ==
  ASSUME NEW h \in Host, NEW v, Good(h, v), v.r.state # "none", NEW u, u = silent(h, v)
  PROVE  IF v.r.state \in {"available", "overloaded"}
         THEN u.r.state = "silent" /\ Pooled(h, u) = 0
         ELSE u = v
BY ChangeStatePool DEF silent, State

\* createHost: a listed host joins the pool with all its cpus.
LEMMA CreateHostPool ==
  ASSUME NEW h \in Host, NEW v, Good(h, v), v.r.state = "none", NEW u, u = createHost(h, v)
  PROVE  ViewStep(h, v, u)
<1> DEFINE a == [v EXCEPT !.r.state = "available"]
<1>1. v \in ViewSet /\ v.r.sets = {} /\ \A t \in Tier : v.r.cpus[t] = 0
  BY DEF Good, ViewSet, HostRec
<1>2. /\ a \in ViewSet /\ a.r.state = "available"
      /\ a.r.sets = {} /\ \A t \in Tier : a.r.cpus[t] = 0
  BY <1>1 DEF ViewSet, HostRec, State
<1>3. CASE h \in Listed
  <2>1. u = addToAvailDb(h, a)
    BY <1>3 DEF createHost
  <2> HIDE DEF a
  <2>2. u.r.state = "available" /\ u.r.ld = a.r.ld /\ u.r.cpus[getTier(h, a)] = NCpus[h]
    BY <1>2, <2>1, AddToAvailDb
  <2> QED BY <2>2 DEF ViewStep, Pooled, getTier
<1>4. CASE h \notin Listed
  BY <1>4 DEF createHost, ViewStep
<1> QED BY <1>3, <1>4

\* updateTier: the cpus follow the load from tier to tier and none is lost on the
\* way, or all of them leave the pool.
LEMMA UpdateTierPool ==
  ASSUME NEW h \in Host, NEW v, Good(h, v), v.r.state # "none",
         NEW ld \in Load, NEW u, u = updateTier(h, v, ld)
  PROVE  \/ u.r.state = v.r.state /\ Pooled(h, u) = Pooled(h, v)
         \/ v.r.state = "available" /\ u.r.state = "overloaded" /\ getTier(h, u) = 0
<1> DEFINE old == getTier(h, v)
           new == calcTier(ld, PIndex[h])
           moved == CASE new = old -> v
                      [] new # old /\ new = 0 -> overloaded(h, v)
                      [] new # old /\ new # 0 -> moveCpus(v, old, new)
<1>1. v \in ViewSet /\ old \in Tier /\ new \in Tier /\ \A t \in Tier : v.r.cpus[t] \in Nat
  BY TierType, ViewTier DEF Good, ViewSet, HostRec
<1>2. u = [moved EXCEPT !.r.ld = ld, !.r.heard = TRUE, !.r.quiet = FALSE]
  BY DEF updateTier
<1>3. /\ Good(h, u) /\ u.r.ld = ld
      /\ u.r.state = IF v.r.state = "available" /\ old # getTier(h, u) /\ getTier(h, u) = 0
                     THEN "overloaded" ELSE v.r.state
  BY UpdateTier
<1>4. getTier(h, u) = new
  BY <1>3 DEF getTier
<1> HIDE DEF moved
<1>5. moved \in ViewSet => u.r.cpus = moved.r.cpus
  <2> SUFFICES ASSUME moved \in ViewSet
               PROVE  u.r.cpus = moved.r.cpus
    OBVIOUS
  <2>1. u.r = [moved.r EXCEPT !.ld = ld, !.heard = TRUE, !.quiet = FALSE]
    BY <1>2 DEF ViewSet
  <2> QED BY <2>1 DEF ViewSet, HostRec
<1>6. CASE v.r.state # "available"
  BY <1>3, <1>6, PooledGood
<1>7. CASE v.r.state = "available" /\ new = old
  <2>1. moved = v
    BY <1>7 DEF moved
  <2>2. u.r.cpus = v.r.cpus
    BY <1>1, <1>5, <2>1
  <2> QED BY <1>3, <1>4, <1>7, <2>2 DEF Pooled
<1>8. CASE v.r.state = "available" /\ new # old /\ new # 0
  <2>1. moved = moveCpus(v, old, new)
    BY <1>8 DEF moved
  <2>2. /\ moved \in ViewSet
        /\ moved.r.cpus[new] = v.r.cpus[new] + v.r.cpus[old]
    BY <1>1, <1>8, <2>1, MoveCpusEffect
  <2>3. u.r.cpus = moved.r.cpus
    BY <1>5, <2>2
  <2>4. v.r.cpus[new] = 0
    BY <1>1, <1>8 DEF Good
  <2>5. Pooled(h, u) = v.r.cpus[old]
    BY <1>1, <1>4, <2>2, <2>3, <2>4 DEF Pooled
  <2> QED BY <1>3, <1>4, <1>8, <2>5 DEF Pooled
<1>9. CASE v.r.state = "available" /\ new # old /\ new = 0
  BY <1>3, <1>4, <1>9
<1> QED BY <1>6, <1>7, <1>8, <1>9

-----------------------------------------------------------------------------
(* DmucsDb implements HostPool *)

\* One event of a host is a step of HostPool or a stuttering one.
LEMMA ViewStepPool ==
  ASSUME HostInv, NEW h \in Host, NEW u, Good(h, u), ViewStep(h, View(h), u),
         SetView(h, u), UNCHANGED assignedCpus
  PROVE  [Pool!Next]_(Pool!vars)
<1>1. host \in [Host -> HostRec] /\ View(h).r = host[h]
  BY DEF HostInv, TypeOK, View
<1>2. \A k \in Host : host'[k] = IF k = h THEN u.r ELSE host[k]
  BY <1>1 DEF SetView
<1>3. freeCpus(h) = Pooled(h, View(h)) /\ freeCpus(h)' = Pooled(h, u)
  BY <1>1, <1>2, FreeCpus DEF Pooled, getTier
<1>4. \A k \in Host : k # h => freeCpus(k)' = freeCpus(k)
  BY <1>2, FreeCpus
<1>5. \A k \in Host : lentCpus(k)' = lentCpus(k)
  BY DEF lentCpus
<1>6. \A k \in Host : k # h => host'[k].state = host[k].state
  BY <1>2
<1>7. CASE host'[h].state = host[h].state /\ freeCpus(h)' = freeCpus(h)
  BY <1>4, <1>5, <1>6, <1>7 DEF Pool!vars
<1>8. CASE /\ host[h].state # "available" /\ host'[h].state = "available"
           /\ freeCpus(h)' = NCpus[h]
  <2>1. Pool!Join(h)
    BY <1>4, <1>5, <1>6, <1>8 DEF Pool!Join
  <2> QED BY <2>1 DEF Pool!Next
<1>9. CASE /\ host[h].state \in {"available", "overloaded", "silent"}
           /\ host'[h].state = "unavailable" /\ freeCpus(h)' = 0
  <2>1. Pool!Down(h)
    BY <1>4, <1>5, <1>6, <1>9 DEF Pool!Down, Pool!Withdraw
  <2> QED BY <2>1 DEF Pool!Next
<1>10. CASE /\ host[h].state \in {"available", "unavailable"}
            /\ host'[h].state = "overloaded" /\ freeCpus(h)' = 0
  <2>1. Pool!Overload(h)
    BY <1>4, <1>5, <1>6, <1>10 DEF Pool!Overload, Pool!Withdraw
  <2> QED BY <2>1 DEF Pool!Next
<1> QED BY <1>1, <1>2, <1>3, <1>7, <1>8, <1>9, <1>10 DEF ViewStep

Lent(h) == {s \in Sock : assignedCpus[DpropOf[h]][s] = h}

\* The clients that hold a cpu of a host are at most all of them.
LEMMA LentBound ==
  ASSUME NEW h
  PROVE  /\ IsFiniteSet(Lent(h)) /\ lentCpus(h) = Cardinality(Lent(h))
         /\ lentCpus(h) \in Nat /\ Cardinality(Sock) \in Nat
         /\ lentCpus(h) <= Cardinality(Sock)
<1>1. Lent(h) \subseteq Sock /\ lentCpus(h) = Cardinality(Lent(h))
  BY DEF Lent, lentCpus
<1> QED BY <1>1, SockAssumption, FS_Subset, FS_CardinalityType

\* A client with an entry already (which only a line that does not parse leaves
\* behind) is given a cpu that nobody will be found to hold.
Untracked(h) ==
  /\ CpuTaken(h)
  /\ \A k \in Host : lentCpus(k)' = lentCpus(k)

\* A request that is granted lends a cpu, as HostPool does, if its client has no
\* entry.
LEMMA GrantPool ==
  ASSUME HostInv, NEW s \in Sock, NEW d \in Dprop, HostReqGranted(s, d)
  PROVE  IF assignedCpus[d][s] = None
         THEN \E h \in Host : Pool!Lend(h) ELSE \E h \in Host : Untracked(h)
<1>1. PICK h \in Host : /\ h # None /\ DpropOf[h] = d
                        /\ CpuTaken(h) /\ EntriesAdded(h, s, d)
  BY GrantEffect
<1>2. \A k \in Host : DpropOf[k] \in Dprop
  BY HostAssumption
<1>3. CASE assignedCpus[d][s] = None
  <2>1. Lent(h)' = Lent(h) \cup {s} /\ s \notin Lent(h)
    BY <1>1, <1>2, <1>3 DEF Lent, EntriesAdded
  <2>2. \A k \in Host : k # h => Lent(k)' = Lent(k)
    BY <1>1, <1>2, <1>3, NoneAssumption DEF Lent, EntriesAdded
  <2>3. \A k \in Host : lentCpus(k)' = Cardinality(Lent(k)')
    BY DEF Lent, lentCpus
  <2>4. lentCpus(h)' = lentCpus(h) + 1
    <3>1. IsFiniteSet(Lent(h)) /\ lentCpus(h) = Cardinality(Lent(h))
      BY LentBound
    <3>2. Cardinality(Lent(h) \cup {s}) = Cardinality(Lent(h)) + 1
      BY <2>1, <3>1, FS_AddElement
    <3> QED BY <2>1, <2>3, <3>1, <3>2
  <2>5. \A k \in Host : k # h => lentCpus(k)' = lentCpus(k)
    BY <2>2, <2>3, LentBound
  <2>6. lentCpus(h) < Cardinality(Sock)
    <3>1. Lent(h) \cup {s} \subseteq Sock
      BY DEF Lent
    <3>2. Cardinality(Lent(h) \cup {s}) <= Cardinality(Sock)
      BY <3>1, SockAssumption, FS_Subset
    <3> QED BY <2>1, <2>3, <2>4, <3>2, LentBound
  <2>7. Pool!Lend(h)
    BY <1>1, <2>4, <2>5, <2>6 DEF Pool!Lend, CpuTaken
  <2> QED BY <1>3, <2>7
<1>4. CASE assignedCpus[d][s] # None
  <2>1. \A k \in Host : Lent(k)' = Lent(k)
    BY <1>1, <1>2, <1>4 DEF Lent, EntriesAdded
  <2>2. \A k \in Host : lentCpus(k)' = lentCpus(k)
    BY <2>1 DEF Lent, lentCpus
  <2> QED BY <1>1, <1>4, <2>2 DEF Untracked
<1> QED BY <1>3, <1>4

\* A release that finds the entry of its client returns a cpu, as HostPool does.
LEMMA ReleasePool ==
  ASSUME HostInv, EntriesOfDprop, NEW s \in Sock, releaseCpu(s)
  PROVE  [Pool!Next]_(Pool!vars)
<1>1. CASE UNCHANGED <<host, assignedCpus>>
  <2>1. \A k \in Host : /\ host'[k].state = host[k].state
                        /\ freeCpus(k)' = freeCpus(k) /\ lentCpus(k)' = lentCpus(k)
    BY <1>1, FreeCpus DEF lentCpus
  <2> QED BY <2>1 DEF Pool!vars
<1>2. ASSUME NEW d \in Dprop, assignedCpus[d][s] \in Host, assignedCpus[d][s] # None,
             CpuReturned(assignedCpus[d][s]), EntryErased(d, s)
      PROVE  [Pool!Next]_(Pool!vars)
  <2>1. PICK h \in Host : h = assignedCpus[d][s] /\ h # None
    BY <1>2
  <2>2. DpropOf[h] = d /\ \A k \in Host : DpropOf[k] \in Dprop
    BY <2>1, HostAssumption DEF EntriesOfDprop
  <2>3. s \in Lent(h) /\ Lent(h)' = Lent(h) \ {s}
    BY <1>2, <2>1, <2>2 DEF Lent, EntryErased
  <2>4. \A k \in Host : k # h => Lent(k)' = Lent(k)
    BY <1>2, <2>1, <2>2, NoneAssumption DEF Lent, EntryErased
  <2>5. \A k \in Host : lentCpus(k)' = Cardinality(Lent(k)')
    BY DEF Lent, lentCpus
  <2>6. lentCpus(h)' = lentCpus(h) - 1 /\ lentCpus(h) > 0
    <3>1. /\ IsFiniteSet(Lent(h)) /\ lentCpus(h) = Cardinality(Lent(h))
          /\ lentCpus(h) \in Nat
      BY LentBound
    <3>2. Cardinality(Lent(h) \ {s}) = Cardinality(Lent(h)) - 1
      BY <2>3, <3>1, FS_RemoveElement
    <3>3. Cardinality(Lent(h)) # 0
      BY <2>3, <3>1, FS_EmptySet
    <3>4. lentCpus(h)' = Cardinality(Lent(h) \ {s})
      BY <2>3, <2>5
    <3> QED BY <3>1, <3>2, <3>3, <3>4
  <2>7. \A k \in Host : k # h => lentCpus(k)' = lentCpus(k)
    BY <2>4, <2>5, LentBound
  <2>8. Pool!Return(h)
    BY <1>2, <2>1, <2>6, <2>7 DEF Pool!Return, CpuReturned
  <2> QED BY <2>8 DEF Pool!Next
<1> QED BY <1>1, <1>2, ReleaseEffect

\* The search of the silent thread withdraws all the hosts it finds together.
LEMMA SilentHostsPool ==
  ASSUME HostInv, handleSilentHosts
  PROVE  [Pool!Next]_(Pool!vars)
<1> DEFINE S == {h \in Host : /\ host[h].state \in {"available", "overloaded"}
                              /\ seemsDown(h)}
<1>1. ASSUME NEW h \in Host
      PROVE  IF h \in S THEN host'[h].state = "silent" /\ freeCpus(h)' = 0
                        ELSE host'[h].state = host[h].state /\ freeCpus(h)' = freeCpus(h)
  <2> DEFINE u == silent(h, View(h))
  <2>1. Good(h, View(h)) /\ View(h).r = host[h]
    BY DEF HostInv, View
  <2>2. CASE h \in S
    <3>1. Good(h, u) /\ u.r.state = "silent" /\ Pooled(h, u) = 0
      BY <2>1, <2>2, Silent, SilentPool
    <3>2. host'[h] = u.r
      BY <2>2 DEF handleSilentHosts, allHosts
    <3> HIDE DEF u
    <3> QED BY <2>2, <3>1, <3>2, FreeCpus DEF Pooled, getTier
  <2>3. CASE h \notin S
    <3>1. host'[h] = host[h]
      <4>1. CASE h \in allHosts /\ seemsDown(h)
        <5>1. u = View(h)
          BY <2>1, <2>3, <4>1, SilentPool DEF allHosts
        <5> QED BY <2>1, <4>1, <5>1 DEF handleSilentHosts
      <4>2. CASE ~(h \in allHosts /\ seemsDown(h))
        BY <4>2 DEF handleSilentHosts
      <4> QED BY <4>1, <4>2
    <3> QED BY <2>3, <3>1, FreeCpus
  <2> QED BY <2>2, <2>3
<1>2. \A h \in Host : lentCpus(h)' = lentCpus(h)
  BY DEF handleSilentHosts, lentCpus
<1>3. S \in SUBSET {h \in Host : host[h].state \in {"available", "overloaded"}}
  OBVIOUS
<1>4. Pool!Withdraw(S, "silent")
  <2> HIDE DEF S
  <2> QED BY <1>1, <1>2 DEF Pool!Withdraw
<1>5. Pool!Silence
  BY <1>3, <1>4 DEF Pool!Silence
<1> QED BY <1>5 DEF Pool!Next

\* Every step of the database is a step of HostPool or a stuttering one, unless it
\* gives a cpu to a client that has an entry already.
LEMMA PoolStep ==
  ASSUME HostInv, EntriesOfDprop, [Next]_vars
  PROVE  \/ [Pool!Next]_(Pool!vars)
         \/ \E s \in Sock, d \in Dprop : /\ HostReqGranted(s, d)
                                         /\ assignedCpus[d][s] # None
                                         /\ \E h \in Host : Untracked(h)
<1>1. \A h \in Host : Good(h, View(h)) /\ View(h).r = host[h]
  BY DEF HostInv, View
<1>2. ASSUME NEW h \in Host, NEW ld \in Load, LdAvgKnown(h, ld)
      PROVE  [Pool!Next]_(Pool!vars)
  <2> DEFINE v == updateTier(h, View(h), ld)
             w == avail(h, v)
  <2>1. host[h].state # "none" /\ UNCHANGED assignedCpus
    BY <1>2 DEF LdAvgKnown, allHosts
  <2>2. Good(h, v) /\ v.r.state # "none"
    BY <1>1, <2>1, UpdateTier
  <2>3. \/ v.r.state = host[h].state /\ Pooled(h, v) = Pooled(h, View(h))
        \/ host[h].state = "available" /\ v.r.state = "overloaded" /\ getTier(h, v) = 0
    BY <1>1, <2>1, UpdateTierPool
  <2>4. \/ /\ v.r.state \in {"silent", "overloaded"}
           /\ v.r.state = "overloaded" => getTier(h, v) # 0
           /\ SetView(h, w)
        \/ SetView(h, v)
    BY <1>2 DEF LdAvgKnown
  <2> HIDE DEF v
  <2>5. CASE SetView(h, v)
    <3>1. ViewStep(h, View(h), v)
      BY <1>1, <2>2, <2>3, PooledGood DEF ViewStep
    <3> QED BY <2>1, <2>2, <2>5, <3>1, ViewStepPool
  <2>6. CASE /\ v.r.state \in {"silent", "overloaded"}
             /\ v.r.state = "overloaded" => getTier(h, v) # 0
             /\ SetView(h, w)
    <3>1. Good(h, w) /\ w.r.state = "available" /\ Pooled(h, w) = NCpus[h]
      BY <2>2, <2>6, Avail, AvailPool
    <3> HIDE DEF w
    <3>2. ViewStep(h, View(h), w)
      BY <1>1, <2>3, <2>6, <3>1 DEF ViewStep
    <3> QED BY <2>1, <2>6, <3>1, <3>2, ViewStepPool
  <2> QED BY <2>4, <2>5, <2>6
<1>3. ASSUME NEW h \in Host, LdAvgNew(h) \/ StatusUp(h) \/ StatusDown(h)
      PROVE  [Pool!Next]_(Pool!vars)
  <2>1. PICK u : /\ Good(h, u) /\ ViewStep(h, View(h), u)
                 /\ SetView(h, u) /\ UNCHANGED assignedCpus
    <3>1. CASE h \notin allHosts
      BY <1>1, <1>3, <3>1, CreateHost, CreateHostPool
         DEF LdAvgNew, StatusUp, StatusDown, allHosts
    <3>2. CASE h \in allHosts /\ StatusDown(h)
      BY <1>1, <3>2, Unavail, UnavailPool DEF StatusDown, allHosts
    <3>3. CASE h \in allHosts /\ ~StatusDown(h)
      BY <1>1, <1>3, <3>3, Avail, AvailPool DEF LdAvgNew, StatusUp, allHosts
    <3> QED BY <3>1, <3>2, <3>3
  <2> QED BY <2>1, ViewStepPool
<1>4. ASSUME \A h \in Host : /\ host'[h].state = host[h].state
                             /\ host'[h].cpus = host[h].cpus
                             /\ host'[h].ld = host[h].ld,
             UNCHANGED assignedCpus
      PROVE  UNCHANGED Pool!vars
  <2>1. \A h \in Host : freeCpus(h)' = freeCpus(h) /\ lentCpus(h)' = lentCpus(h)
    BY <1>4, FreeCpus DEF lentCpus
  <2> QED BY <1>4, <2>1 DEF Pool!vars
<1>5. ASSUME NEW h \in Host, Elapse(h)
      PROVE  UNCHANGED Pool!vars
  <2>1. /\ \A k \in Host : /\ host'[k].state = host[k].state
                           /\ host'[k].cpus = host[k].cpus
                           /\ host'[k].ld = host[k].ld
        /\ UNCHANGED assignedCpus
    BY <1>5 DEF Elapse, HostInv, TypeOK, HostRec
  <2> QED BY <1>4, <2>1
<1>6. ASSUME \/ \E s \in Sock, d \in Dprop : HostReqRefused(s, d)
             \/ \E s \in Sock : BadMsg(s)
             \/ getStatsFromDb
             \/ UNCHANGED vars
      PROVE  UNCHANGED Pool!vars
  BY <1>4, <1>6 DEF HostReqRefused, BadMsg, getStatsFromDb, vars
<1>7. ASSUME NEW s \in Sock, NEW d \in Dprop, HostReqGranted(s, d)
      PROVE  \/ Pool!Next
             \/ assignedCpus[d][s] # None /\ \E h \in Host : Untracked(h)
  BY <1>7, GrantPool DEF Pool!Next
<1> QED
  BY <1>2, <1>3, <1>5, <1>6, <1>7, ReleasePool, SilentHostsPool DEF Next

\* As long as every client sends messages that parse, every step of the database is
\* one that HostPool allows: a client that asks holds no entry.
LEMMA PoolNext ==
  ASSUME BadMsgs = FALSE, HostInv, EntriesOfDprop, AssignmentsTracked, [Next]_vars
  PROVE  [Pool!Next]_(Pool!vars)
<1>1. ASSUME NEW s \in Sock, NEW d \in Dprop, HostReqGranted(s, d)
      PROVE  assignedCpus[d][s] = None
  <2>1. conn[s] # "serving"
    BY <1>1 DEF HostReqGranted, MayAsk
  <2>2. d # None
    BY NoneAssumption
  <2> QED BY <2>1, <2>2 DEF AssignmentsTracked
<1> QED BY <1>1, PoolStep

\* The initial state is one of HostPool.
LEMMA PoolInit == Init => Pool!Init
<1> SUFFICES ASSUME Init
             PROVE  Pool!Init
  OBVIOUS
<1>1. ASSUME NEW h \in Host
      PROVE  host[h].state = "none" /\ freeCpus(h) = 0 /\ lentCpus(h) = 0
  <2>1. host[h] = NoHost
    BY DEF Init
  <2>2. freeCpus(h) = 0
    <3>1. Good(h, View(h)) /\ View(h).r = host[h]
      BY HostInvInit DEF HostInv, View
    <3> QED BY <2>1, <3>1, PooledGood DEF NoHost, Pooled, freeCpus
  <2>3. Lent(h) = {}
    BY HostAssumption, NoneAssumption DEF Init, Lent
  <2>4. lentCpus(h) = 0
    BY <2>3, LentBound, FS_EmptySet
  <2> QED BY <2>1, <2>2, <2>4 DEF NoHost
<1> QED BY <1>1 DEF Pool!Init

\* DmucsDb implements HostPool, whatever the hosts, the clients and the order of their
\* messages, as long as the messages parse.
THEOREM PoolImplemented == ASSUME BadMsgs = FALSE PROVE Spec => ImplementsHostPool
<1>1. HostInv /\ MapsInv /\ AssignmentsTracked /\ [Next]_vars => [Pool!Next]_(Pool!vars)
  BY PoolNext DEF MapsInv
<1>2. Spec => []AssignmentsTracked
  BY AssignmentsCorrect
<1> QED
  BY <1>1, <1>2, PoolInit, HostInvariant, MapsInvariant, PTL
     DEF Spec, Pool!Spec, ImplementsHostPool

-----------------------------------------------------------------------------
(* What follows from it *)

\* The counts that HostPool is about are numbers.
LEMMA CountsType ==
  ASSUME HostInv, NEW h \in Host
  PROVE  /\ freeCpus(h) \in Nat /\ lentCpus(h) \in Nat /\ NCpus[h] \in Nat
         /\ Cardinality(Sock) \in Nat /\ lentCpus(h) <= Cardinality(Sock)
BY FreeCpus, LentBound, HostAssumption

\* What a step of HostPool does to one host.
LEMMA PoolEffect ==
  ASSUME [Pool!Next]_(Pool!vars), NEW h \in Host
  PROVE  \/ /\ host'[h].state = host[h].state /\ freeCpus(h)' = freeCpus(h)
            /\ lentCpus(h)' = lentCpus(h)
         \/ /\ host'[h].state = "available" /\ freeCpus(h)' = NCpus[h]
            /\ lentCpus(h)' = lentCpus(h)
         \/ /\ host'[h].state # "available" /\ freeCpus(h)' = 0
            /\ lentCpus(h)' = lentCpus(h)
         \/ /\ host'[h].state = host[h].state /\ freeCpus(h)' = freeCpus(h) - 1
            /\ lentCpus(h)' = lentCpus(h) + 1
         \/ /\ host'[h].state = host[h].state /\ lentCpus(h)' = lentCpus(h) - 1
            /\ freeCpus(h)' = IF host[h].state = "available" THEN freeCpus(h) + 1
                              ELSE freeCpus(h)
<1>1. ASSUME NEW k \in Host, Pool!Join(k)
      PROVE  IF h = k THEN /\ host'[h].state = "available" /\ freeCpus(h)' = NCpus[h]
                           /\ lentCpus(h)' = lentCpus(h)
             ELSE /\ host'[h].state = host[h].state /\ freeCpus(h)' = freeCpus(h)
                  /\ lentCpus(h)' = lentCpus(h)
  BY <1>1 DEF Pool!Join
<1>2. ASSUME NEW S, NEW s, s # "available", Pool!Withdraw(S, s)
      PROVE  IF h \in S THEN /\ host'[h].state # "available" /\ freeCpus(h)' = 0
                             /\ lentCpus(h)' = lentCpus(h)
             ELSE /\ host'[h].state = host[h].state /\ freeCpus(h)' = freeCpus(h)
                  /\ lentCpus(h)' = lentCpus(h)
  BY <1>2 DEF Pool!Withdraw
<1>3. ASSUME NEW k \in Host, Pool!Lend(k)
      PROVE  IF h = k THEN /\ host'[h].state = host[h].state
                           /\ freeCpus(h)' = freeCpus(h) - 1
                           /\ lentCpus(h)' = lentCpus(h) + 1
             ELSE /\ host'[h].state = host[h].state /\ freeCpus(h)' = freeCpus(h)
                  /\ lentCpus(h)' = lentCpus(h)
  BY <1>3 DEF Pool!Lend
<1>4. ASSUME NEW k \in Host, Pool!Return(k)
      PROVE  IF h = k THEN /\ host'[h].state = host[h].state
                           /\ lentCpus(h)' = lentCpus(h) - 1
                           /\ freeCpus(h)' = IF host[h].state = "available"
                                             THEN freeCpus(h) + 1 ELSE freeCpus(h)
             ELSE /\ host'[h].state = host[h].state /\ freeCpus(h)' = freeCpus(h)
                  /\ lentCpus(h)' = lentCpus(h)
  BY <1>4 DEF Pool!Return
<1>5. ASSUME UNCHANGED Pool!vars
      PROVE  /\ host'[h].state = host[h].state /\ freeCpus(h)' = freeCpus(h)
             /\ lentCpus(h)' = lentCpus(h)
  BY <1>5 DEF Pool!vars
<1>6. ASSUME \/ \E k \in Host : Pool!Down(k) \/ Pool!Overload(k)
             \/ Pool!Silence
      PROVE  \E S, s : s # "available" /\ Pool!Withdraw(S, s)
  BY <1>6 DEF Pool!Down, Pool!Overload, Pool!Silence
<1>7. CASE \E k \in Host : Pool!Join(k)
  BY <1>1, <1>7
<1>8. CASE \E k \in Host : Pool!Lend(k) \/ Pool!Return(k)
  BY <1>3, <1>4, <1>8
<1>9. CASE \E S, s : s # "available" /\ Pool!Withdraw(S, s)
  BY <1>2, <1>9
<1> QED BY <1>5, <1>6, <1>7, <1>8, <1>9 DEF Pool!Next

\* No cpu of an available host is lost: what is not in the pool is with a client.
\* Only steps of HostPool are taken, and of those only Lend takes a cpu from the
\* pool of a host that stays available.
THEOREM NoCpuLost == ASSUME BadMsgs = FALSE PROVE Spec => []CpusNeverLost
<1>1. Init => CpusNeverLost
  BY DEF Init, CpusNeverLost, NoHost
<1>2. ASSUME MapsInv, MapsInv', AssignmentsTracked, CpusNeverLost, [Next]_vars
      PROVE  CpusNeverLost'
  <2> SUFFICES ASSUME NEW h \in Host, host'[h].state = "available"
               PROVE  freeCpus(h)' + lentCpus(h)' >= NCpus[h]
    BY DEF CpusNeverLost
  <2>1. [Pool!Next]_(Pool!vars)
    BY <1>2, PoolNext DEF MapsInv
  <2>2. /\ freeCpus(h) \in Nat /\ lentCpus(h) \in Nat /\ NCpus[h] \in Nat
    BY <1>2, CountsType DEF MapsInv
  <2>3. host[h].state = "available" => freeCpus(h) + lentCpus(h) >= NCpus[h]
    BY <1>2 DEF CpusNeverLost
  <2> QED BY <2>1, <2>2, <2>3, PoolEffect
<1>3. MapsInv /\ MapsInv' /\ AssignmentsTracked /\ CpusNeverLost /\ [Next]_vars
        => CpusNeverLost'
  BY <1>2
<1>4. Spec => []AssignmentsTracked
  BY AssignmentsCorrect
<1> QED BY <1>1, <1>3, <1>4, MapsInvariant, PTL DEF Spec

\* The cpus of a host that are in the pool or with clients exceed its own by at most
\* the number of clients, whatever lines the clients send.
THEOREM OvercommitIsBounded == Spec => []OvercommitBounded
<1>1. Init => OvercommitBounded
  <2> SUFFICES ASSUME Init, NEW h \in Host
               PROVE  freeCpus(h) + lentCpus(h) <= NCpus[h] + Cardinality(Sock)
    BY DEF OvercommitBounded
  <2>1. freeCpus(h) = 0
    BY PoolInit DEF Pool!Init
  <2> QED BY <2>1, HostInvInit, CountsType
<1>2. ASSUME MapsInv, OvercommitBounded, [Next]_vars
      PROVE  OvercommitBounded'
  <2> SUFFICES ASSUME NEW h \in Host
               PROVE  freeCpus(h)' + lentCpus(h)' <= NCpus[h] + Cardinality(Sock)
    BY DEF OvercommitBounded
  <2>1. /\ freeCpus(h) \in Nat /\ lentCpus(h) \in Nat /\ NCpus[h] \in Nat
        /\ Cardinality(Sock) \in Nat /\ lentCpus(h) <= Cardinality(Sock)
    BY <1>2, CountsType DEF MapsInv
  <2>2. freeCpus(h) + lentCpus(h) <= NCpus[h] + Cardinality(Sock)
    BY <1>2 DEF OvercommitBounded
  <2>3. CASE [Pool!Next]_(Pool!vars)
    BY <2>1, <2>2, <2>3, PoolEffect
  <2>4. CASE \E k \in Host : Untracked(k)
    BY <2>1, <2>2, <2>4 DEF Untracked, CpuTaken
  <2> QED BY <1>2, <2>3, <2>4, PoolStep DEF MapsInv
<1>3. MapsInv /\ OvercommitBounded /\ [Next]_vars => OvercommitBounded'
  BY <1>2
<1> QED BY <1>1, <1>3, MapsInvariant, PTL DEF Spec

=============================================================================
