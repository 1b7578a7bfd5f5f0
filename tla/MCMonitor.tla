------------------------------ MODULE MCMonitor ------------------------------
(***************************************************************************)
(* The instance of DmucsDb with the monitor's text, for TLC.               *)
(***************************************************************************)
EXTENDS Monitor, MCDmucsDb

=============================================================================
