-------------------------- MODULE AuthorityDaemon --------------------------
(***************************************************************************)
(* The action pipeline of the authority daemon: concurrent client requests *)
(* (submit_action_attempt, resolve_approval, run_maintenance) handled on   *)
(* one JavaScript thread.  A handler runs without interruption up to its   *)
(* next await; at an await any other request may run.  The daemon may      *)
(* crash between any two durable writes and is restarted from its journal. *)
(*                                                                         *)
(* A request r that submits an attempt names the action it normalises and  *)
(* the approval that may be created for it.                                *)
(***************************************************************************)
EXTENDS IdempotencyLedger

CONSTANTS NoKey,          (* a request without an idempotency key          *)
          NoCall,         (* nothing sent                                  *)
          Attempts,       (* payloads of submit_action_attempt             *)
          Filesystem,     (* the attempts of the filesystem domain         *)
          Mutating,       (* the attempts that change the target           *)
          Unlayered,      (* those whose snapshot may have no layered      *)
                          (* manifest, or may lose it                      *)
          Methods,        (* the methods clients use                       *)
          MaxMutating,    (* budget_config.max_mutating_actions            *)
          MaxCrashes,     (* bound: crashes of the daemon                  *)
          MaxFaults       (* bound: journal writes that fail               *)

ASSUME DaemonAssumption ==
  /\ NoKey \notin Keys
  /\ Filesystem \subseteq Attempts
  /\ Mutating \subseteq Attempts
  /\ Unlayered \subseteq Attempts
  /\ Methods \subseteq {"submit_action_attempt", "resolve_approval",
                        "run_maintenance"}
  /\ MaxMutating \in Nat
  /\ MaxCrashes \in Nat
  /\ MaxFaults \in Nat

VARIABLES
  journal, approval, verdict,  (* durable: the run journal                 *)
  daemon,      (* "up", "down", or "recovered" between two startup steps   *)
  crashes,     (* crashes so far                                           *)
  faults,      (* failed writes so far                                     *)
  pc,          (* request -> where its handler is                          *)
  call,        (* request -> what the client sent                          *)
  held,        (* request -> whether it claimed its key (history)          *)
  outcome,     (* request -> what the client got                           *)
  answer,      (* request -> the request whose result an "ok" carries      *)
  preimage,    (* request -> the target as its snapshot captured it        *)
  executed,    (* requests whose adapter changed the world (history)       *)
  outstanding  (* requests whose effect another process may still make     *)

INSTANCE RunJournal WITH Actions <- Requests

durable == <<ledger, journal, approval, verdict, executed, outstanding>>
vars == <<durable, daemon, crashes, faults, pc, call, held, outcome, answer,
          preimage>>

(* The wire requests.  A resolution names the approval by its action.      *)
SubmitCalls ==
  [method : {"submit_action_attempt"}, key : Keys \cup {NoKey},
   attempt : Attempts]
ResolveCalls ==
  [method : {"resolve_approval"}, key : Keys \cup {NoKey},
   approval : Requests, resolution : {"approved", "denied"}]
MaintenanceCalls ==
  [method : {"run_maintenance"}, key : Keys \cup {NoKey}]

AllCalls == SubmitCalls \cup ResolveCalls \cup MaintenanceCalls

ASSUME CallAssumption == NoCall \notin AllCalls

Calls == {c \in AllCalls : c.method \in Methods}

(* Stages of a handler.  In a sync stage its continuation holds the thread;*)
(* in every other stage it waits for a promise.                            *)
SyncStages == {"dispatch", "asking", "announcing", "recording",
               "reconciling"}
ExecutionStages == {"snapshotting", "captured", "verifying", "checking",
                    "running", "effected"}
LiveStages == SyncStages \cup ExecutionStages \cup {"finishing", "failing"}

Outcomes == {"none", "ok", "conflict", "in_progress", "outcome_unknown",
             "failed", "unheard", "lost"}

TypeOK ==
  /\ ledger \in [Keys -> Row(AllCalls \cup {NoCall})]
  /\ JournalTypeOK
  /\ daemon \in {"up", "down", "recovered"}
  /\ crashes \in 0..MaxCrashes
  /\ faults \in 0..MaxFaults
  /\ pc \in [Requests -> LiveStages \cup {"idle", "done"}]
  /\ call \in [Requests -> AllCalls \cup {NoCall}]
  /\ held \in [Requests -> BOOLEAN]
  /\ outcome \in [Requests -> Outcomes]
  /\ answer \in [Requests -> Requests \cup {NoRequest}]
  /\ preimage \in [Requests -> SUBSET Requests]
  /\ executed \subseteq Requests
  /\ outstanding \subseteq Requests

Init ==
  /\ ledger = [k \in Keys |-> AbsentRow(NoCall)]
  /\ JournalInit
  /\ daemon = "up"
  /\ crashes = 0
  /\ faults = 0
  /\ pc = [r \in Requests |-> "idle"]
  /\ call = [r \in Requests |-> NoCall]
  /\ held = [r \in Requests |-> FALSE]
  /\ outcome = [r \in Requests |-> "none"]
  /\ answer = [r \in Requests |-> NoRequest]
  /\ preimage = [r \in Requests |-> {}]
  /\ executed = {}
  /\ outstanding = {}

-----------------------------------------------------------------------------
(* Helpers.                                                                *)

Live(r) == pc[r] \in LiveStages

Key(r) == call[r].key

Keyed(r) == call[r] # NoCall /\ call[r].key \in Keys

Is(r, method) == call[r] # NoCall /\ call[r].method = method

(* The action a request works on: its own, or the one it resolves.         *)
ActionOf(r) ==
  IF Is(r, "resolve_approval") THEN call[r].approval ELSE r

Attempted(a) == call[a].attempt

MutatingActions ==
  {a \in Requests : Is(a, "submit_action_attempt") /\ Attempted(a) \in Mutating}

(* The effects on the target so far: what a snapshot of it would capture.  *)
Target == {r \in executed : ActionOf(r) \in MutatingActions}

(* The JavaScript thread is free: no handler is between two awaits.        *)
LoopFree == daemon = "up" /\ \A r \in Requests : pc[r] \notin SyncStages

Goto(r, stage) == pc' = [pc EXCEPT ![r] = stage]

Reply(r, code, from) ==
  /\ Goto(r, "done")
  /\ outcome' = [outcome EXCEPT ![r] = code]
  /\ answer' = [answer EXCEPT ![r] = from]

-----------------------------------------------------------------------------
(* Faulty variants, each used by a run that shows a property can fail.     *)

(* A budget denial keeps the snapshot requirement of the rule it replaces. *)
DeniedWithSnapshot(r, v) ==
  IF Attempted(r) \in Mutating /\ BudgetUsage(MutatingActions) >= MaxMutating
  THEN [v EXCEPT !.decision = "deny"] ELSE v

(* The effect may be applied before execution.started is durable.          *)
ReadyToRun(r) == pc[r] \in {"checking", "running"}

(* The snapshot is skipped after an approval.                              *)
FirstAwaitNoSnapshot(v) ==
  IF v.decision = "allow_with_snapshot" THEN "snapshotting" ELSE "checking"

(* A handler that fails answers without locking its key.                   *)
LockNothing(r) == UNCHANGED ledger

(* The response is published before the handler's side effects finish.     *)
FinishedEarly(r) == pc[r] \in {"finishing", "running"}

(* The completion is retried until it finds its row still pending.         *)
FinishedWhilePending(r) ==
  /\ pc[r] = "finishing"
  /\ held[r] => ledger[Key(r)].state = "pending"

-----------------------------------------------------------------------------
(* executeGovernedAction up to its first await.                            *)
FirstAwait(v) == IF v.snapshot THEN "snapshotting" ELSE "checking"

-----------------------------------------------------------------------------
(* handleRequest up to the call of the handler: validate, claim, answer    *)
(* replays, conflicts and keys that are in progress or unknown.            *)
Receive(r, c) ==
  /\ LoopFree
  /\ pc[r] = "idle"
  /\ call' = [call EXCEPT ![r] = c]
  /\ LET status == IF c.key \in Keys THEN ClaimStatus(c.key, c) ELSE "unkeyed"
     IN \/ /\ status = "unkeyed"
           /\ Goto(r, "dispatch")
           /\ UNCHANGED <<ledger, held, outcome, answer>>
        \/ /\ status = "claimed"
           /\ InsertPending(c.key, c)
           /\ held' = [held EXCEPT ![r] = TRUE]
           /\ Goto(r, "dispatch")
           /\ UNCHANGED <<outcome, answer>>
        \/ /\ status = "replay"
           /\ Reply(r, "ok", ledger[c.key].response)
           /\ UNCHANGED <<ledger, held>>
        \/ /\ status \in {"conflict", "in_progress", "outcome_unknown"}
           /\ Reply(r, status, NoRequest)
           /\ UNCHANGED <<ledger, held>>
  /\ UNCHANGED <<journal, approval, verdict, executed, outstanding, daemon,
                 crashes, faults, preimage>>

(* withBudgetEffects: a mutating action past the budget is denied whatever *)
(* the rules say; usage is what the journal counts at this moment.         *)
BudgetedVerdict(r, v) ==
  IF Attempted(r) \in Mutating /\ BudgetUsage(MutatingActions) >= MaxMutating
  THEN Denied ELSE v

(* prepareActionAttemptEvaluation and the action.normalized and            *)
(* policy.evaluated events.  The policy rules are not modelled: any        *)
(* verdict may come out of them.                                           *)
EvaluatePolicy(r) ==
  /\ pc[r] = "dispatch"
  /\ Is(r, "submit_action_attempt")
  /\ \E v \in Verdicts :
       LET b == BudgetedVerdict(r, v)
       IN /\ verdict' = [verdict EXCEPT ![r] = b]
          /\ \/ b.decision = "ask" /\ Goto(r, "asking")
             \/ b.decision = "deny" /\ Goto(r, "finishing")
             \/ b.decision \notin {"ask", "deny"} /\ Goto(r, FirstAwait(b))
  /\ UNCHANGED <<ledger, journal, approval, executed, outstanding, daemon,
                 crashes, faults, call, held, outcome, answer, preimage>>

(* createApprovalRequest                                                   *)
CreateApproval(r) ==
  /\ pc[r] = "asking"
  /\ approval' = [approval EXCEPT ![r] = "pending"]
  /\ Goto(r, "announcing")
  /\ UNCHANGED <<ledger, journal, verdict, executed, outstanding, daemon,
                 crashes, faults, call, held, outcome, answer, preimage>>

(* The approval.requested event, written after the approval row.           *)
AnnounceApproval(r) ==
  /\ pc[r] = "announcing"
  /\ AppendRunEvent(r, "approval.requested")
  /\ Goto(r, "finishing")
  /\ UNCHANGED <<ledger, approval, verdict, executed, outstanding, daemon,
                 crashes, faults, call, held, outcome, answer, preimage>>

(* handleResolveApproval: no such approval, or journal.resolveApproval.    *)
ResolveApproval(r) ==
  /\ pc[r] = "dispatch"
  /\ Is(r, "resolve_approval")
  /\ LET a == call[r].approval
     IN \/ /\ approval[a] = "none"
           /\ Goto(r, "failing")
           /\ UNCHANGED approval
        \/ /\ approval[a] # "none"
           /\ approval' = [approval EXCEPT ![a] =
                             ResolvedStatus(a, call[r].resolution)]
           /\ Goto(r, "recording")
  /\ UNCHANGED <<ledger, journal, verdict, executed, outstanding, daemon,
                 crashes, faults, call, held, outcome, answer, preimage>>

(* An approval lets its action run when its status reads "approved".       *)
Authorized(status) == status = "approved"

(* The approval.resolved event, appended for every resolution, and the     *)
(* execution of an approved action up to its first await.                  *)
RecordResolution(r) ==
  /\ pc[r] = "recording"
  /\ LET a == ActionOf(r)
     IN /\ AppendRunEvent(a, "approval.resolved")
        /\ Goto(r, IF Authorized(approval[a]) THEN FirstAwait(verdict[a])
                   ELSE "finishing")
  /\ UNCHANGED <<ledger, approval, verdict, executed, outstanding, daemon,
                 crashes, faults, call, held, outcome, answer, preimage>>

(* The startup_reconcile_recoveries job of run_maintenance, on a daemon    *)
(* that is serving other requests: first the actions, then the keys.       *)
MaintainActions(r) ==
  /\ pc[r] = "dispatch"
  /\ Is(r, "run_maintenance")
  /\ RecoverInterrupted(Requests)
  /\ Goto(r, "reconciling")
  /\ UNCHANGED <<ledger, approval, verdict, executed, outstanding, daemon,
                 crashes, faults, call, held, outcome, answer, preimage>>

MaintainKeys(r) ==
  /\ pc[r] = "reconciling"
  /\ ReconcilePending
  /\ Goto(r, "finishing")
  /\ UNCHANGED <<journal, approval, verdict, executed, outstanding, daemon,
                 crashes, faults, call, held, outcome, answer, preimage>>

-----------------------------------------------------------------------------
(* executeGovernedAction, from one await to the next.                      *)

(* The snapshot engine reads the target and stores the boundary; the       *)
(* handler learns of it later.                                             *)
CaptureSnapshot(r) ==
  /\ daemon = "up"
  /\ pc[r] = "snapshotting"
  /\ preimage' = [preimage EXCEPT ![r] = Target]
  /\ Goto(r, "captured")
  /\ UNCHANGED <<durable, daemon, crashes, faults, call, held, outcome, answer>>

(* The snapshot.created event; a filesystem target is then compared with   *)
(* the snapshot.                                                           *)
RecordSnapshot(r) ==
  /\ LoopFree
  /\ pc[r] = "captured"
  /\ AppendRunEvent(ActionOf(r), "snapshot.created")
  /\ Goto(r, IF Attempted(ActionOf(r)) \in Filesystem THEN "verifying"
             ELSE "checking")
  /\ UNCHANGED <<ledger, approval, verdict, executed, outstanding, daemon,
                 crashes, faults, call, held, outcome, answer, preimage>>

(* verifyTargetUnchanged; without a layered manifest nothing is compared.  *)
VerifyTarget(r) ==
  /\ LoopFree
  /\ pc[r] = "verifying"
  /\ \/ Goto(r, IF Target = preimage[r] THEN "checking" ELSE "failing")
     \/ /\ Attempted(ActionOf(r)) \in Unlayered
        /\ Goto(r, "checking")
  /\ UNCHANGED <<durable, daemon, crashes, faults, call, held, outcome, answer,
                 preimage>>

(* The snapshot engine throws, no adapter is found, or verifyPreconditions *)
(* rejects: the error leaves executeGovernedAction without a journal event.*)
PreflightFails(r) ==
  /\ LoopFree
  /\ pc[r] \in {"snapshotting", "verifying", "checking"}
  /\ Goto(r, "failing")
  /\ UNCHANGED <<durable, daemon, crashes, faults, call, held, outcome, answer,
                 preimage>>

(* The execution.started event, then the call of the adapter (or of the    *)
(* hosted queue), which runs on its own until its promise settles.  The    *)
(* filesystem adapter works in the daemon's process; a shell command, an   *)
(* MCP call or a hosted job is the work of another one.                    *)
StartExecution(r) ==
  /\ LoopFree
  /\ pc[r] = "checking"
  /\ AppendRunEvent(ActionOf(r), "execution.started")
  /\ Goto(r, "running")
  /\ outstanding' =
       outstanding \cup
         {q \in {r} : Attempted(ActionOf(q)) \notin Filesystem}
  /\ UNCHANGED <<ledger, approval, verdict, executed, daemon, crashes, faults,
                 call, held, outcome, answer, preimage>>

CanApply(r) == pc[r] = "running"

(* The adapter changes the world.                                          *)
ApplyEffect(r) ==
  /\ daemon = "up"
  /\ CanApply(r)
  /\ executed' = executed \cup {r}
  /\ outstanding' = outstanding \ {r}
  /\ Goto(r, "effected")
  /\ UNCHANGED <<ledger, journal, approval, verdict, daemon, crashes, faults,
                 call, held, outcome, answer, preimage>>

(* A child process, an MCP server or a hosted worker that the daemon gave  *)
(* up on, because its call timed out or because the daemon died, changes   *)
(* the world after all.                                                    *)
LateEffect(r) ==
  /\ r \in outstanding
  /\ pc[r] \in {"failing", "done"}
  /\ executed' = executed \cup {r}
  /\ outstanding' = outstanding \ {r}
  /\ UNCHANGED <<ledger, journal, approval, verdict, daemon, crashes, faults,
                 pc, call, held, outcome, answer, preimage>>

(* The adapter's promise is fulfilled: execution.completed.                *)
CompleteExecution(r) ==
  /\ LoopFree
  /\ pc[r] = "effected"
  /\ AppendRunEvent(ActionOf(r), "execution.completed")
  /\ Goto(r, "finishing")
  /\ UNCHANGED <<ledger, approval, verdict, executed, outstanding, daemon,
                 crashes, faults, call, held, outcome, answer, preimage>>

FailureEvent(r) == AppendRunEvent(ActionOf(r), "execution.failed")

(* The promise is rejected, before or after the effect, or the completed   *)
(* event cannot be appended: execution.failed, and the error goes on.      *)
FailExecution(r) ==
  /\ LoopFree
  /\ pc[r] \in {"running", "effected"}
  /\ FailureEvent(r)
  /\ Goto(r, "failing")
  /\ UNCHANGED <<ledger, approval, verdict, executed, outstanding, daemon,
                 crashes, faults, call, held, outcome, answer, preimage>>

-----------------------------------------------------------------------------
(* The end of handleRequest.                                               *)

Finished(r) == pc[r] = "finishing"

(* completeIdempotentMutation for a claimed key, then the response, which  *)
(* goes unheard when the client hung up.                                   *)
AnswerOk(r) ==
  /\ LoopFree
  /\ Finished(r)
  /\ IF held[r] THEN CompleteMutation(Key(r), r) ELSE UNCHANGED ledger
  /\ Reply(r, "ok", r) \/ Reply(r, "unheard", NoRequest)
  /\ UNCHANGED <<journal, approval, verdict, executed, outstanding, daemon,
                 crashes, faults, call, held, preimage>>

LockKey(r) == IF held[r] THEN MarkOutcomeUnknown(Key(r)) ELSE UNCHANGED ledger

(* The handler threw: lock the key, then the error.                        *)
AnswerError(r) ==
  /\ LoopFree
  /\ pc[r] = "failing"
  /\ LockKey(r)
  /\ Reply(r, "failed", NoRequest)
  /\ UNCHANGED <<journal, approval, verdict, executed, outstanding, daemon,
                 crashes, faults, call, held, preimage>>

(* The loop of recoverInterruptedActions stops half way: what it appended  *)
(* stays.                                                                  *)
Reconciling ==
  \/ daemon = "down"
  \/ \E r \in Requests : pc[r] = "dispatch" /\ Is(r, "run_maintenance")

PartlyRecovered ==
  \/ Reconciling /\ \E done \in SUBSET Requests : RecoverInterrupted(done)
  \/ ~Reconciling /\ UNCHANGED journal

(* A write of the journal fails where a handler would have made it.        *)
(* Locking the key is tried twice at most and then given up.               *)
StorageFault(r) ==
  /\ daemon = "up"
  /\ faults < MaxFaults
  /\ faults' = faults + 1
  /\ \/ /\ \/ pc[r] \in SyncStages
           \/ LoopFree /\ pc[r] \in {"captured", "checking", "running",
                                     "effected"}
           \/ LoopFree /\ pc[r] = "finishing" /\ held[r]
        /\ Goto(r, "failing")
        /\ PartlyRecovered
        /\ UNCHANGED <<outcome, answer>>
     \/ /\ LoopFree
        /\ pc[r] = "failing"
        /\ held[r]
        /\ Reply(r, "failed", NoRequest)
        /\ UNCHANGED journal
  /\ UNCHANGED <<ledger, approval, verdict, executed, outstanding, daemon,
                 crashes, call, held, preimage>>

-----------------------------------------------------------------------------
(* Crash and restart.                                                      *)

(* The process dies: every handler is gone and its client gets no answer.  *)
Crash ==
  /\ crashes < MaxCrashes
  /\ crashes' = crashes + 1
  /\ daemon' = "down"
  /\ pc' = [r \in Requests |-> IF Live(r) THEN "done" ELSE pc[r]]
  /\ outcome' = [r \in Requests |-> IF Live(r) THEN "lost" ELSE outcome[r]]
  /\ PartlyRecovered
  /\ UNCHANGED <<ledger, approval, verdict, executed, outstanding, faults,
                 call, held, answer, preimage>>

(* recoverInterrupted, before the daemon listens: first the actions ...    *)
StartupActions ==
  /\ daemon = "down"
  /\ RecoverInterrupted(Requests)
  /\ daemon' = "recovered"
  /\ UNCHANGED <<ledger, approval, verdict, executed, outstanding, crashes,
                 faults, pc, call, held, outcome, answer, preimage>>

(* ... then the keys.                                                      *)
StartupKeys ==
  /\ daemon = "recovered"
  /\ ReconcilePending
  /\ daemon' = "up"
  /\ UNCHANGED <<journal, approval, verdict, executed, outstanding, crashes,
                 faults, pc, call, held, outcome, answer, preimage>>

-----------------------------------------------------------------------------
Continue(r) ==
  \/ EvaluatePolicy(r) \/ CreateApproval(r) \/ AnnounceApproval(r)
  \/ ResolveApproval(r) \/ RecordResolution(r)
  \/ MaintainActions(r) \/ MaintainKeys(r)
  \/ CaptureSnapshot(r) \/ RecordSnapshot(r) \/ VerifyTarget(r)
  \/ PreflightFails(r) \/ StartExecution(r) \/ ApplyEffect(r)
  \/ CompleteExecution(r) \/ FailExecution(r)
  \/ AnswerOk(r) \/ AnswerError(r)

Startup == StartupActions \/ StartupKeys

(* Every client has what it will ever get: the model, not the daemon, ends. *)
Quiet ==
  /\ daemon = "up"
  /\ \A r \in Requests : pc[r] = "done"
  /\ UNCHANGED vars

Next ==
  \/ \E r \in Requests : \/ \E c \in Calls : Receive(r, c)
                         \/ Continue(r)
                         \/ StorageFault(r)
                         \/ LateEffect(r)
  \/ Crash
  \/ Startup
  \/ Quiet

Spec == Init /\ [][Next]_vars

(* Every promise a handler awaits settles and the event loop runs its      *)
(* continuation; a daemon that went down is started again.  Clients, the   *)
(* disk, crashes and processes the daemon gave up on owe nothing.          *)
Fairness ==
  /\ \A r \in Requests : WF_vars(Continue(r))
  /\ WF_vars(Startup)

FairSpec == Spec /\ Fairness

-----------------------------------------------------------------------------
(* Properties.                                                             *)

(* An idempotency key makes its request run at most once, whatever is      *)
(* retried, lost or restarted: no two requests ever claim the same key, so *)
(* no two effects on the world were made under it.                         *)
(* (claimIdempotentMutation; the keys that handleRequest locks)            *)
KeyRunsOnce ==
  \A r1, r2 \in Requests :
    /\ Keyed(r1) /\ Keyed(r2)
    /\ Key(r1) = Key(r2)
    /\ \/ held[r1] /\ held[r2]
       \/ r1 \in executed /\ r2 \in executed
    => r1 = r2

(* Every success a keyed client ever sees, first answer or replay, is the  *)
(* recorded result of the one request that claimed the key, for the same   *)
(* method and payload, and that request is over: no retry observes a       *)
(* result that may still change.                                           *)
ReplayIsTheRecordedResult ==
  \A r \in Requests :
    outcome[r] = "ok" /\ Keyed(r) =>
      LET x == answer[r]
      IN /\ x \in Requests
         /\ held[x] /\ pc[x] = "done"
         /\ call[x] = call[r]
         /\ ledger[Key(r)].state = "completed"
         /\ ledger[Key(r)].response = x

(* The world changes only for an action that the policy allowed, or that   *)
(* the policy asked about and an operator approved, and stays approved: a  *)
(* denial never follows an effect, even when approvals are resolved        *)
(* concurrently and after restarts.                                        *)
AuthorizedEffects ==
  \A r \in executed :
    LET a == ActionOf(r)
    IN \/ verdict[a].decision \in {"allow", "allow_with_snapshot"}
       \/ verdict[a].decision = "ask" /\ approval[a] = "approved"

EffectsOn(a) == {r \in executed : ActionOf(r) = a}

(* The journal runs ahead of the world: each effect of an action has an    *)
(* execution.started event of its own, so that a crash never hides one.    *)
EffectsAreAnnounced ==
  \A a \in Requests :
    Cardinality(EffectsOn(a)) <= journal[a]["execution.started"]

(* An action that needs a recovery boundary has one, of its own, in the    *)
(* journal before each of its effects.                                     *)
EffectsHaveBoundary ==
  \A a \in Requests :
    verdict[a].snapshot =>
      Cardinality(EffectsOn(a)) <= journal[a]["snapshot.created"]

(* What answering request x with success claims was executed.              *)
ClaimsExecution(x) ==
  \/ /\ Is(x, "submit_action_attempt")
     /\ verdict[x].decision \in {"allow", "allow_with_snapshot"}
  \/ /\ Is(x, "resolve_approval")
     /\ approval[call[x].approval] = "approved"

(* A success is never reported for an execution that did not take effect   *)
(* or that the journal does not show completed.                            *)
OkMeansExecuted ==
  \A r \in Requests :
    outcome[r] = "ok" /\ ClaimsExecution(answer[r]) =>
      /\ answer[r] \in executed
      /\ journal[ActionOf(answer[r])]["execution.completed"] > 0

(* The requests on action a that came to this outcome.                     *)
Handled(a, end) == {r \in Requests : ActionOf(r) = a /\ outcome[r] = end}

(* Ends of executions of a: events of the journal and answers of failure.  *)
Ends(a) ==
  TerminalEvents(a) + journal[a]["execution.outcome_unknown"]
    + Cardinality(Handled(a, "failed"))

(* While the daemon serves, every execution that was started and that no   *)
(* handler is working on has an end of its own: in the journal, or in the  *)
(* answer of failure a client got.  Recovery looks for no more than one    *)
(* end of an action, so where one approval was executed more than once, an *)
(* execution that a crash cut off may share the end of another; a single   *)
(* execution never ends in silence.                                        *)
NoSilentExecution ==
  daemon = "up" =>
    \A a \in Requests :
      (\A r \in Requests : ActionOf(r) = a => ~Live(r)) =>
        /\ journal[a]["execution.started"] > 0 => Ends(a) > 0
        /\ journal[a]["execution.started"] <=
             Ends(a) + Cardinality(Handled(a, "lost"))

(* Crash reconciliation is truthful: execution.outcome_unknown is recorded *)
(* only for an action one of whose handlers a crash cut off, or failed: a  *)
(* precondition that fails behind a snapshot leaves no end either.         *)
UnknownIsTruthful ==
  \A a \in Requests :
    journal[a]["execution.outcome_unknown"] > 0 =>
      \E r \in Requests : ActionOf(r) = a /\ outcome[r] \in {"failed", "lost"}

(* An interrupted action is reconciled once, however often the daemon is   *)
(* restarted.                                                              *)
ReconciledOnce ==
  \A a \in Requests : journal[a]["execution.outcome_unknown"] <= 1

(* "Already in progress, retry after the original request finishes" is     *)
(* true: while the daemon serves, a pending key has a live handler.  The   *)
(* one exception is a key whose handler failed and could not be locked     *)
(* because the journal refused the write.                                  *)
InProgressIsTrue ==
  daemon = "up" =>
    \A k \in Keys :
      ledger[k].state = "pending" =>
        \E r \in Requests :
          /\ held[r] /\ Key(r) = k
          /\ Live(r) \/ (faults > 0 /\ outcome[r] = "failed")

(* An approval is one permission: however many resolutions of it race or   *)
(* follow each other, its action changes the world at most once.           *)
ApprovalRunsOnce ==
  \A a \in Requests : approval[a] = "approved" => Cardinality(EffectsOn(a)) <= 1

(* A snapshot-backed change of a file starts from the content its snapshot *)
(* holds.                                                                  *)
FreshPreimage ==
  [][\A r \in executed' \ executed :
       /\ verdict[ActionOf(r)].snapshot
       /\ Attempted(ActionOf(r)) \in Filesystem
       => Target = preimage[r]]_vars

(* Every request gets an answer, or its client learns that the daemon went *)
(* away.                                                                   *)
EveryRequestEnds == \A r \in Requests : pc[r] # "idle" ~> pc[r] = "done"

(* A key does not stay in progress: it ends replayable or locked, as long  *)
(* as the journal takes its writes.                                        *)
PendingKeysSettle ==
  \A k \in Keys :
    ledger[k].state = "pending" ~>
      \/ ledger[k].state \in {"completed", "outcome_unknown"}
      \/ faults > 0

-----------------------------------------------------------------------------
(* The daemon implements the promise of an idempotency key: the claims,    *)
(* the table's states and the answers map to it, requests without a key    *)
(* and everything else are stuttering.                                     *)
Runners == [k \in Keys |-> {r \in Requests : held[r] /\ Key(r) = k}]

Applied == {r \in executed : held[r]}

Result ==
  [k \in Keys |-> IF ledger[k].state = "completed" THEN "known"
                  ELSE IF ledger[k].state = "outcome_unknown" THEN "unknown"
                  ELSE "none"]

Answers ==
  [r \in Requests |-> IF Keyed(r) THEN answer[r] ELSE NoRequest]

Promise == INSTANCE KeyedMutation
             WITH runners <- Runners, applied <- Applied,
                  result <- Result, answers <- Answers

(* Idempotent requests behave as KeyedMutation says, through retries, lost *)
(* answers, failed writes, crashes, restarts and live maintenance.         *)
KeepsPromise == Promise!Spec
=============================================================================
