------------------------------- MODULE HostPool -------------------------------
(***************************************************************************)
(* What the dmucs database promises about the cpus of each host, with no   *)
(* tiers, loads, sub-sets or sockets: the statuses a host goes through     *)
(* (the comment at the head of dmucs_host_state.h), when its cpus can be   *)
(* lent, and what becomes of a cpu that comes back.  DmucsDb implements    *)
(* it.                                                                     *)
(***************************************************************************)
EXTENDS Integers

CONSTANTS
  Host,
  NCpus,     \* the number of cpus of each host
  MaxLent    \* the number of clients, each of which holds at most one cpu

VARIABLES
  status,    \* the state of each host, "none" before it is known
  free,      \* how many of its cpus can be lent
  lent       \* how many cpus of it are with clients

vars == <<status, free, lent>>

Init ==
  /\ status = [h \in Host |-> "none"]
  /\ free = [h \in Host |-> 0]
  /\ lent = [h \in Host |-> 0]

\* A new host, or one that was away: all of its cpus can be lent, those that are
\* still with clients included.
Join(h) ==
  /\ status[h] # "available"
  /\ status' = [status EXCEPT ![h] = "available"]
  /\ free' = [free EXCEPT ![h] = NCpus[h]]
  /\ UNCHANGED lent

\* The hosts S go to status s, with none of their cpus left to lend.
Withdraw(S, s) ==
  /\ status' = [h \in Host |-> IF h \in S THEN s ELSE status[h]]
  /\ free' = [h \in Host |-> IF h \in S THEN 0 ELSE free[h]]
  /\ UNCHANGED lent

Down(h) ==
  /\ status[h] \in {"available", "overloaded", "silent"}
  /\ Withdraw({h}, "unavailable")

\* A host that is too busy, or one that is put back in service while it is.
Overload(h) ==
  /\ status[h] \in {"available", "unavailable"}
  /\ Withdraw({h}, "overloaded")

\* All the hosts of one search go silent together; a host that was taken out of
\* service stays out of service.
Silence ==
  \E S \in SUBSET {h \in Host : status[h] \in {"available", "overloaded"}} :
    Withdraw(S, "silent")

Lend(h) ==
  /\ free[h] > 0 /\ lent[h] < MaxLent
  /\ free' = [free EXCEPT ![h] = @ - 1]
  /\ lent' = [lent EXCEPT ![h] = @ + 1]
  /\ UNCHANGED status

\* A cpu comes back: it can be lent again only if its host is available.
Return(h) ==
  /\ lent[h] > 0
  /\ lent' = [lent EXCEPT ![h] = @ - 1]
  /\ free' = [free EXCEPT ![h] = IF status[h] = "available" THEN @ + 1 ELSE @]
  /\ UNCHANGED status

Next ==
  \/ \E h \in Host : Join(h) \/ Down(h) \/ Overload(h) \/ Lend(h) \/ Return(h)
  \/ Silence

Spec == Init /\ [][Next]_vars
=============================================================================
