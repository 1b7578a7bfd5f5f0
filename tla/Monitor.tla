------------------------------- MODULE Monitor -------------------------------
(***************************************************************************)
(* What the monitor client shows: the server writes its database as text   *)
(* (serialize, in dmucs_db.cc) and monitor.cc parses the text and prints   *)
(* it.  A line of the text is a tuple of its kind and its fields, and so   *)
(* is a line of the output.  The text is one that the monitor's buffer of  *)
(* 8196 characters holds.                                                  *)
(***************************************************************************)
EXTENDS DmucsDb, Sequences, SequencesExt

CONSTANT Unset   \* the dprop that is the empty string

\* A database has finitely many hosts and dprops.
ASSUME MonitorAssumption == IsFiniteSet(Host) /\ IsFiniteSet(Dprop)

\* Iteration orders.  Those of std::set<DmucsHost *> and of the addresses are
\* arbitrary; an empty dprop is the first of the keys of dbDb_; the tiers come
\* from the highest down.
HostSeq == SetToSeq(Host)
DpropSeq == (IF Unset \in Dprop THEN <<Unset>> ELSE <<>>) \o SetToSeq(Dprop \ {Unset})
TierSeq == CHOOSE q \in [1..Cardinality(Tier) -> Tier] :
             \A i, j \in DOMAIN q : i < j => q[i] > q[j]

-----------------------------------------------------------------------------
(* DmucsDb::serialize *)

\* A tier's list, sorted: one element for each cpu.
tmpList(d, t) ==
  FlattenSeq([i \in DOMAIN HostSeq |->
    IF DpropOf[HostSeq[i]] = d
    THEN [n \in 1..host[HostSeq[i]].cpus[t] |-> HostSeq[i]] ELSE <<>>])

\* The loop over the sorted list: curr is the address before, which occurred
\* ct times so far; ips are the addresses before that one with their counts.
countIp(a, ip) ==
  IF a.curr = ip THEN [a EXCEPT !.ct = @ + 1]
  ELSE [curr |-> ip, ct |-> 1,
        ips |-> IF a.curr = None THEN a.ips ELSE Append(a.ips, <<a.curr, a.ct>>)]

counted(list) == FoldLeft(countIp, [curr |-> None, ct |-> 0, ips |-> <<>>], list)

\* Mutant: the last address of the list is not added.
uniqIps_NoLast(list) == counted(list).ips

uniqIps(list) ==
  LET end == counted(list)
  IN  IF end.ct # 0 THEN Append(end.ips, <<end.curr, end.ct>>) ELSE end.ips

hostLines(d) ==
  FlattenSeq([i \in DOMAIN HostSeq |->
    LET h == HostSeq[i]
    IN  IF h \in allHosts /\ DpropOf[h] = d THEN << <<"H", h, host[h].state>> >> ELSE <<>>])

tierLines(d) ==
  FlattenSeq([i \in DOMAIN TierSeq |->
    LET list == tmpList(d, TierSeq[i])
    IN  IF list # <<>> THEN << <<"C", TierSeq[i], uniqIps(list)>> >> ELSE <<>>])

serializeDprop(d) == << <<"D", d>> >> \o hostLines(d) \o tierLines(d)

serialize ==
  FlattenSeq([i \in DOMAIN DpropSeq |->
    IF \E h \in allHosts : DpropOf[h] = DpropSeq[i]
    THEN serializeDprop(DpropSeq[i]) ELSE <<>>])

-----------------------------------------------------------------------------
(* monitor.cc *)

NoHosts == [s \in State |-> <<>>]

\* The summary of a group, in this order, the states without hosts left out.
dumpSummaryInfo(lists) ==
  LET order == <<"available", "overloaded", "unavailable", "silent">>
  IN  FlattenSeq([i \in DOMAIN order |->
        IF lists[order[i]] # <<>> THEN << <<order[i], lists[order[i]]>> >> ELSE <<>>])

parseLine(a, line) ==
  CASE line[1] = "D" ->
         [out |-> a.out \o dumpSummaryInfo(a.lists)
                        \o (IF line[2] = Unset THEN <<>> ELSE << <<"***", line[2]>> >>),
          lists |-> NoHosts]
    [] line[1] = "H" -> [a EXCEPT !.lists[line[3]] = Append(@, line[2])]
    [] line[1] = "C" -> [a EXCEPT !.out = Append(@, <<"Tier", line[2], line[3]>>)]

parseResults(text) ==
  LET end == FoldLeft(parseLine, [out |-> <<>>, lists |-> NoHosts], text)
  IN  end.out \o dumpSummaryInfo(end.lists)

-----------------------------------------------------------------------------
(* Properties *)

\* The group that a line of the output is in: that of the last header above it.
GroupAt(out, i) ==
  LET heads == {j \in 1..i : out[j][1] = "***"}
  IN  IF heads = {} THEN Unset ELSE out[CHOOSE j \in heads : \A k \in heads : k <= j][2]

\* The lines of the output that are in the group of a host.
LinesFor(out, h) == {i \in DOMAIN out : GroupAt(out, i) = DpropOf[h]}

\* The places where the output gives a state for a host: the line and the
\* place in it.
ShownStates(out, h) ==
  UNION {{i} \X {n \in DOMAIN out[i][2] : out[i][2][n] = h} :
           i \in {i \in LinesFor(out, h) : out[i][1] \in State}}

\* The cpus that the output gives for a host in a tier.
ShownCpus(out, h, t) ==
  {c \in UNION {Range(out[i][3]) : i \in {i \in LinesFor(out, h) :
                                             out[i][1] = "Tier" /\ out[i][2] = t}} :
     c[1] = h}

\* What the monitor prints is the database: every host once, under its dprop and
\* with its state, and the free cpus of every host in every tier, also where a
\* tier is empty, a host was lent out or a dprop is the empty string.
MonitorShowsDb ==
  LET out == parseResults(serialize)
  IN  \A h \in Host :
        /\ \A x \in ShownStates(out, h) : out[x[1]][1] = host[h].state
        /\ Cardinality(ShownStates(out, h)) = IF h \in allHosts THEN 1 ELSE 0
        /\ \A t \in Tier : ShownCpus(out, h, t) =
             IF host[h].cpus[t] = 0 THEN {} ELSE {<<h, host[h].cpus[t]>>}

=============================================================================
