---------------------------- MODULE MCDmucsThreads ----------------------------
(***************************************************************************)
(* Instances of DmucsThreads for TLC.                                      *)
(***************************************************************************)
EXTENDS DmucsThreads

CONSTANTS h1, d1

\* Hosts of one dprop, with one cpu or with two, and equal power; with LowPower a
\* medium load is in tier 0 as a heavy one is.
OneDprop == [h \in Host |-> d1]
OneCpu == [h \in Host |-> 1]
TwoCpus == [h \in Host |-> 2]
Power == [h \in Host |-> 2]
LowPower == [h \in Host |-> 1]
=============================================================================
