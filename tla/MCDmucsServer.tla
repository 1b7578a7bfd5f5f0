---------------------------- MODULE MCDmucsServer ----------------------------
(***************************************************************************)
(* Values of the constants of DmucsServer for TLC.                         *)
(***************************************************************************)
EXTENDS DmucsServer, TLC

CONSTANT h1

OneCpu == h1 :> 1

=============================================================================
