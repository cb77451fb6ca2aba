----------------------- MODULE MCHostedExecutionQueue -----------------------
(* Instances of HostedExecutionQueue for TLC.                              *)
EXTENDS HostedExecutionQueue
=============================================================================
