---------------------------- MODULE MCCommandSync ----------------------------
(* Instances of CommandSync for TLC.                                       *)
EXTENDS CommandSync
=============================================================================
