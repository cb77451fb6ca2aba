------------------------- MODULE MCAuthorityDaemon -------------------------
(* Instances of AuthorityDaemon for TLC.                                   *)
EXTENDS AuthorityDaemon, TLC

(* Requests and keys are interchangeable.                                  *)
ClientSymmetry == Permutations(Requests) \cup Permutations(Keys)
=============================================================================
