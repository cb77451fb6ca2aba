----------------------------- MODULE RunJournal -----------------------------
(***************************************************************************)
(* The part of the run journal that the action pipeline writes: the events *)
(* of one run, the approval requests and the policy outcome kept with each *)
(* action.  Event order inside an action is left to the actions that       *)
(* append; the journal keeps, per action, how many events of each type it  *)
(* holds, which is what budget accounting and crash recovery read.         *)
(***************************************************************************)
EXTENDS Naturals, FiniteSetsExt

CONSTANTS Actions     (* actions of the run (named by the submit that      *)
                      (* normalised them)                                  *)

VARIABLES journal,    (* action -> event type -> number of events          *)
          approval,   (* action -> status of its approval request          *)
          verdict     (* action -> policy outcome recorded for it          *)

EventTypes == {"approval.requested", "approval.resolved", "snapshot.created",
               "execution.started", "execution.completed",
               "execution.failed", "execution.outcome_unknown"}

ApprovalStates == {"none", "pending", "approved", "denied"}

(* PolicyOutcomeRecord: "deny" stands for every decision that neither asks *)
(* nor executes ("deny" and "simulate").  snapshot_required is implied by  *)
(* allow_with_snapshot, kept for ask, and cleared by every other decision. *)
Verdicts ==
  {v \in [decision : {"allow", "allow_with_snapshot", "ask", "deny"},
          snapshot : BOOLEAN] :
     /\ v.decision = "allow_with_snapshot" => v.snapshot
     /\ v.decision \in {"allow", "deny"} => ~v.snapshot}

NoVerdict == [decision |-> "none", snapshot |-> FALSE]

Denied == [decision |-> "deny", snapshot |-> FALSE]

JournalTypeOK ==
  /\ journal \in [Actions -> [EventTypes -> Nat]]
  /\ approval \in [Actions -> ApprovalStates]
  /\ verdict \in [Actions -> Verdicts \cup {NoVerdict}]

JournalInit ==
  /\ journal = [a \in Actions |-> [e \in EventTypes |-> 0]]
  /\ approval = [a \in Actions |-> "none"]
  /\ verdict = [a \in Actions |-> NoVerdict]

-----------------------------------------------------------------------------
(* An action that a recovery boundary or an execution start left open.     *)
TerminalEvents(a) ==
  journal[a]["execution.completed"] + journal[a]["execution.failed"]

(* Faulty variant: only a missing terminal event is looked for, so an      *)
(* action is flagged again at every reconciliation.                        *)
InterruptedAgain(a) ==
  /\ \/ journal[a]["snapshot.created"] > 0
     \/ journal[a]["execution.started"] > 0
  /\ TerminalEvents(a) = 0

(* Faulty variant: an action that came to its end is flagged as well.      *)
InterruptedThoughEnded(a) ==
  /\ \/ journal[a]["snapshot.created"] > 0
     \/ journal[a]["execution.started"] > 0
  /\ journal[a]["execution.outcome_unknown"] = 0

(* Faulty variant: a snapshot alone makes an action a candidate.           *)
InterruptedSnapshotOnly(a) ==
  /\ journal[a]["snapshot.created"] > 0
  /\ journal[a]["execution.outcome_unknown"] = 0
  /\ TerminalEvents(a) = 0

Interrupted(a) ==
  /\ \/ journal[a]["snapshot.created"] > 0
     \/ journal[a]["execution.started"] > 0
  /\ journal[a]["execution.outcome_unknown"] = 0
  /\ TerminalEvents(a) = 0

(* appendRunEvent                                                          *)
AppendRunEvent(a, e) == journal' = [journal EXCEPT ![a][e] = @ + 1]

(* recoverInterruptedActions, when its loop got through these actions.     *)
RecoverInterrupted(done) ==
  journal' = [a \in Actions |->
                IF a \in done /\ Interrupted(a)
                THEN [journal[a] EXCEPT !["execution.outcome_unknown"] = @ + 1]
                ELSE journal[a]]

(* getRunBudgetUsage: completed executions of the mutating actions given.  *)
BudgetUsage(mutating) ==
  MapThenSumSet(LAMBDA a : journal[a]["execution.completed"], mutating)

(* Faulty variant: the status is written whatever it was before.           *)
ResolutionOverwrites(a, resolution) == resolution

(* resolveApproval: a request already resolved keeps its status.           *)
ResolvedStatus(a, resolution) ==
  IF approval[a] = "pending" THEN resolution ELSE approval[a]
=============================================================================
