--------------------------- MODULE CommandPromise ---------------------------
(***************************************************************************)
(* What the control plane promises about a command it queues for a         *)
(* connector, with no lease, no request and no crash: the machine decides  *)
(* the outcome of a command once, and the control plane shows an outcome   *)
(* only when it is that one.  In between it may show a command as open or  *)
(* expired whatever happened to it.                                        *)
(***************************************************************************)
CONSTANTS Commands

VARIABLES outcome,   (* what the machine decided: "none" until then        *)
          shown      (* what the control plane shows                       *)

vars == <<outcome, shown>>

Outcomes == {"completed", "failed"}

Init ==
  /\ outcome = [c \in Commands |-> "none"]
  /\ shown = [c \in Commands |-> "open"]

Decide(c, o) ==
  /\ outcome[c] = "none"
  /\ outcome' = [outcome EXCEPT ![c] = o]
  /\ UNCHANGED shown

Show(c) ==
  /\ outcome[c] \in Outcomes
  /\ shown' = [shown EXCEPT ![c] = outcome[c]]
  /\ UNCHANGED outcome

(* Commands are offered again, or expire.                                  *)
Withdraw ==
  /\ shown' \in [Commands -> {"open", "expired"} \cup Outcomes]
  /\ \A c \in Commands : shown'[c] \in {shown[c], "open", "expired"}
  /\ UNCHANGED outcome

Next ==
  \/ \E c \in Commands : Show(c) \/ \E o \in Outcomes : Decide(c, o)
  \/ Withdraw

Spec == Init /\ [][Next]_vars
=============================================================================
