------------------------------- MODULE MCGetHost -------------------------------
(***************************************************************************)
(* An instance of GetHost for TLC: waiting without end, not waiting, and   *)
(* waiting for two seconds.                                                *)
(***************************************************************************)
EXTENDS GetHost

SomeTimeouts == {-1, 0, 2}
=============================================================================
