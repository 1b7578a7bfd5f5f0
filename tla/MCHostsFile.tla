----------------------------- MODULE MCHostsFile -----------------------------
(***************************************************************************)
(* Values of the constants of HostsFile for TLC: two names, each for an    *)
(* address of its own, in files that list one of them or both, in either   *)
(* order, twice, or after a line that cannot be parsed.                    *)
(***************************************************************************)
EXTENDS HostsFile, TLC

CONSTANTS m1, m2, a1, a2, i1, i2

Addresses == m1 :> a1 @@ m2 :> a2

entry(m, i) == [machine |-> m, info |-> i]

Files == {<<entry(m1, i1)>>, <<entry(m1, i2), entry(m1, i1)>>,
          <<entry(m2, i1), entry(m1, i1)>>, <<entry(m2, i2), entry(None, i1), entry(m1, i2)>>}

=============================================================================
