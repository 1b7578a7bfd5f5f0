------------------------------ MODULE MCDmucsDb ------------------------------
(***************************************************************************)
(* Instances of DmucsDb for TLC.                                           *)
(***************************************************************************)
EXTENDS DmucsDb, TLC

CONSTANTS h1, h2, d1, d2

\* Two hosts of one dprop: h1 is faster and has two cpus; the medium load of h2
\* puts it in tier 0.
OneDprop == (h1 :> d1) @@ (h2 :> d1)
TwoDprops == (h1 :> d1) @@ (h2 :> d2)
Cpus == (h1 :> 2) @@ (h2 :> 1)
Power == (h1 :> 2) @@ (h2 :> 1)

\* One host with two cpus.
SoloDprop == h1 :> d1
SoloCpus == h1 :> 2
SoloPower == h1 :> 2
=============================================================================
