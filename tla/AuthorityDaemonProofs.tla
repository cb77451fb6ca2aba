----------------------- MODULE AuthorityDaemonProofs -----------------------
(***************************************************************************)
(* Theorems about AuthorityDaemon, for any number of requests, keys,       *)
(* attempts, crashes and refused writes.                                   *)
(***************************************************************************)
EXTENDS AuthorityDaemon, TLAPS

(* Lemmas about the operators the actions are made of.                     *)

(* A verdict after the budget check is a verdict.                          *)
LEMMA BudgetedVerdictType ==
  ASSUME NEW r, NEW v \in Verdicts
  PROVE  BudgetedVerdict(r, v) \in Verdicts
  BY DEF BudgetedVerdict, Denied, Verdicts

(* A flagged journal is a journal.                                         *)
LEMMA RecoverInterruptedType ==
  ASSUME NEW done, journal \in [Requests -> [EventTypes -> Nat]],
         RecoverInterrupted(done)
  PROVE  journal' \in [Requests -> [EventTypes -> Nat]]
  BY DEF RecoverInterrupted, EventTypes

(* A journal with one event more is a journal.                             *)
LEMMA AppendRunEventType ==
  ASSUME NEW a \in Requests, NEW e \in EventTypes,
         journal \in [Requests -> [EventTypes -> Nat]],
         AppendRunEvent(a, e)
  PROVE  journal' \in [Requests -> [EventTypes -> Nat]]
  BY DEF AppendRunEvent

(* Sending a handler to a stage keeps the stages well formed.              *)
LEMMA GotoType ==
  ASSUME NEW r, NEW s \in LiveStages \cup {"idle", "done"},
         pc \in [Requests -> LiveStages \cup {"idle", "done"}],
         Goto(r, s)
  PROVE  pc' \in [Requests -> LiveStages \cup {"idle", "done"}]
  BY DEF Goto

(* So does an answer, for what the client gets as well.                    *)
LEMMA ReplyType ==
  ASSUME NEW r, NEW code \in Outcomes, NEW from \in Requests \cup {NoRequest},
         TypeOK, Reply(r, code, from)
  PROVE  /\ pc' \in [Requests -> LiveStages \cup {"idle", "done"}]
         /\ outcome' \in [Requests -> Outcomes]
         /\ answer' \in [Requests -> Requests \cup {NoRequest}]
  <1>1. pc' \in [Requests -> LiveStages \cup {"idle", "done"}]
    BY GotoType DEF Reply, TypeOK
  <1> QED BY <1>1 DEF Reply, TypeOK

(* The table's operations keep its rows well formed.                       *)
LEMMA LedgerType ==
  ASSUME TypeOK, NEW k,
         \/ \E c \in AllCalls : InsertPending(k, c)
         \/ \E r \in Requests : CompleteMutation(k, r)
         \/ MarkOutcomeUnknown(k)
         \/ ReconcilePending
         \/ UNCHANGED ledger
  PROVE  ledger' \in [Keys -> Row(AllCalls \cup {NoCall})]
  BY DEF TypeOK, InsertPending, CompleteMutation, MarkOutcomeUnknown,
         ReconcilePending, Row, RowStates

LEMMA FirstAwaitType ==
  ASSUME NEW v PROVE FirstAwait(v) \in LiveStages
  BY DEF FirstAwait, LiveStages, ExecutionStages

(* A handler works on an action of the run.                                *)
LEMMA ActionOfType ==
  ASSUME TypeOK, NEW r \in Requests
  PROVE  ActionOf(r) \in Requests
  BY DEF TypeOK, ActionOf, Is, AllCalls, SubmitCalls, ResolveCalls,
         MaintenanceCalls

(* The stages and event types, by name.                                    *)
LEMMA Names ==
  /\ LiveStages = {"dispatch", "asking", "announcing", "recording",
                   "reconciling", "snapshotting", "captured", "verifying",
                   "checking", "running", "effected", "finishing", "failing"}
  /\ {"approval.requested", "approval.resolved", "snapshot.created",
      "execution.started", "execution.completed", "execution.failed",
      "execution.outcome_unknown"} = EventTypes
  BY DEF LiveStages, SyncStages, ExecutionStages, EventTypes

-----------------------------------------------------------------------------
(* Type correctness.                                                       *)

LEMMA TypeInit == Init => TypeOK
  BY LedgerAssumption, DaemonAssumption
  DEF Init, TypeOK, JournalInit, JournalTypeOK, AbsentRow, Row, RowStates,
      ApprovalStates, Outcomes

(* Every action of a handler keeps the types.                              *)
LEMMA TypeContinue ==
  ASSUME TypeOK, NEW r \in Requests, Continue(r)
  PROVE  TypeOK'
  <1> DEFINE PcOK == pc \in [Requests -> LiveStages \cup {"idle", "done"}]
             JrnOK == journal \in [Requests -> [EventTypes -> Nat]]
  <1> PcOK /\ JrnOK
    BY DEF TypeOK, JournalTypeOK
  <1> HIDE DEF PcOK, JrnOK
  <1>0. /\ ActionOf(r) \in Requests
        /\ \A s \in LiveStages : Goto(r, s) => PcOK'
        /\ \A a \in Requests, e \in EventTypes : AppendRunEvent(a, e) => JrnOK'
        /\ \A done : RecoverInterrupted(done) => JrnOK'
        /\ \A v : FirstAwait(v) \in LiveStages
    BY ActionOfType, GotoType, AppendRunEventType, RecoverInterruptedType,
       FirstAwaitType DEF PcOK, JrnOK
  <1>1. CASE EvaluatePolicy(r)
    <2>1. PICK v \in Verdicts :
            /\ verdict' = [verdict EXCEPT ![r] = BudgetedVerdict(r, v)]
            /\ PcOK'
      BY <1>0, <1>1, Names DEF EvaluatePolicy
    <2>2. verdict' \in [Requests -> Verdicts \cup {NoVerdict}]
      BY <2>1, BudgetedVerdictType DEF TypeOK, JournalTypeOK
    <2> QED BY <1>1, <2>1, <2>2 DEF EvaluatePolicy, TypeOK, JournalTypeOK, PcOK
  <1>2. CASE CreateApproval(r)
    <2>1. PcOK'
      BY <1>0, <1>2, Names DEF CreateApproval
    <2>2. approval' \in [Requests -> ApprovalStates]
      BY <1>2 DEF TypeOK, JournalTypeOK, CreateApproval, ApprovalStates
    <2> QED BY <1>2, <2>1, <2>2 DEF CreateApproval, TypeOK, JournalTypeOK, PcOK
  <1>3. CASE AnnounceApproval(r)
    <2>1. PcOK' /\ JrnOK'
      BY <1>0, <1>3, Names DEF AnnounceApproval
    <2> QED BY <1>3, <2>1
        DEF AnnounceApproval, TypeOK, JournalTypeOK, PcOK, JrnOK
  <1>4. CASE ResolveApproval(r)
    <2>1. PcOK'
      BY <1>0, <1>4, Names DEF ResolveApproval
    <2>2. call[r].resolution \in {"approved", "denied"}
      BY <1>4 DEF ResolveApproval, Is, TypeOK, AllCalls, SubmitCalls,
                  ResolveCalls, MaintenanceCalls
    <2>3. approval' \in [Requests -> ApprovalStates]
      BY <1>4, <2>2 DEF ResolveApproval, ResolvedStatus, TypeOK, JournalTypeOK,
                        ApprovalStates
    <2> QED BY <1>4, <2>1, <2>3 DEF ResolveApproval, TypeOK, JournalTypeOK, PcOK
  <1>5. CASE RecordResolution(r)
    <2>1. PcOK' /\ JrnOK'
      BY <1>0, <1>5, Names DEF RecordResolution
    <2> QED BY <1>5, <2>1
        DEF RecordResolution, TypeOK, JournalTypeOK, PcOK, JrnOK
  <1>6. CASE MaintainActions(r)
    <2>1. PcOK' /\ JrnOK'
      BY <1>0, <1>6, Names DEF MaintainActions
    <2> QED BY <1>6, <2>1
        DEF MaintainActions, TypeOK, JournalTypeOK, PcOK, JrnOK
  <1>7. CASE MaintainKeys(r)
    <2>1. PcOK'
      BY <1>0, <1>7, Names DEF MaintainKeys
    <2>2. ledger' \in [Keys -> Row(AllCalls \cup {NoCall})]
      BY <1>7, LedgerType DEF MaintainKeys
    <2> QED BY <1>7, <2>1, <2>2 DEF MaintainKeys, TypeOK, JournalTypeOK, PcOK
  <1>8. CASE CaptureSnapshot(r)
    <2>1. PcOK'
      BY <1>0, <1>8, Names DEF CaptureSnapshot
    <2>2. preimage' \in [Requests -> SUBSET Requests]
      BY <1>8 DEF CaptureSnapshot, Target, TypeOK
    <2> QED BY <1>8, <2>1, <2>2
        DEF CaptureSnapshot, durable, TypeOK, JournalTypeOK, PcOK
  <1>9. CASE RecordSnapshot(r)
    <2>1. PcOK' /\ JrnOK'
      BY <1>0, <1>9, Names DEF RecordSnapshot
    <2> QED BY <1>9, <2>1
        DEF RecordSnapshot, TypeOK, JournalTypeOK, PcOK, JrnOK
  <1>10. CASE VerifyTarget(r)
    <2>1. PcOK'
      BY <1>0, <1>10, Names DEF VerifyTarget
    <2> QED BY <1>10, <2>1 DEF VerifyTarget, durable, TypeOK, JournalTypeOK, PcOK
  <1>11. CASE PreflightFails(r)
    <2>1. PcOK'
      BY <1>0, <1>11, Names DEF PreflightFails
    <2> QED BY <1>11, <2>1
        DEF PreflightFails, durable, TypeOK, JournalTypeOK, PcOK
  <1>12. CASE StartExecution(r)
    <2>1. PcOK' /\ JrnOK'
      BY <1>0, <1>12, Names DEF StartExecution
    <2>2. outstanding' \subseteq Requests
      BY <1>12 DEF StartExecution, TypeOK
    <2> QED BY <1>12, <2>1, <2>2
        DEF StartExecution, TypeOK, JournalTypeOK, PcOK, JrnOK
  <1>13. CASE ApplyEffect(r)
    <2>1. /\ PcOK' /\ executed' \subseteq Requests
          /\ outstanding' \subseteq Requests
      BY <1>0, <1>13, Names DEF ApplyEffect, TypeOK
    <2> QED BY <1>13, <2>1 DEF ApplyEffect, TypeOK, JournalTypeOK, PcOK
  <1>14. CASE CompleteExecution(r)
    <2>1. PcOK' /\ JrnOK'
      BY <1>0, <1>14, Names DEF CompleteExecution
    <2> QED BY <1>14, <2>1
        DEF CompleteExecution, TypeOK, JournalTypeOK, PcOK, JrnOK
  <1>15. CASE FailExecution(r)
    <2>1. PcOK' /\ JrnOK'
      BY <1>0, <1>15, Names DEF FailExecution, FailureEvent
    <2> QED BY <1>15, <2>1
        DEF FailExecution, TypeOK, JournalTypeOK, PcOK, JrnOK
  <1>16. CASE AnswerOk(r)
    <2>1. ledger' \in [Keys -> Row(AllCalls \cup {NoCall})]
      BY <1>16, LedgerType DEF AnswerOk
    <2>2. Reply(r, "ok", r) \/ Reply(r, "unheard", NoRequest)
      BY <1>16 DEF AnswerOk
    <2>3. /\ PcOK' /\ outcome' \in [Requests -> Outcomes]
          /\ answer' \in [Requests -> Requests \cup {NoRequest}]
      BY <2>2, ReplyType DEF Outcomes, PcOK
    <2> QED BY <1>16, <2>1, <2>3 DEF AnswerOk, TypeOK, JournalTypeOK, PcOK
  <1>17. CASE AnswerError(r)
    <2>1. ledger' \in [Keys -> Row(AllCalls \cup {NoCall})]
      BY <1>17, LedgerType DEF AnswerError, LockKey
    <2>2. Reply(r, "failed", NoRequest)
      BY <1>17 DEF AnswerError
    <2>3. /\ PcOK' /\ outcome' \in [Requests -> Outcomes]
          /\ answer' \in [Requests -> Requests \cup {NoRequest}]
      BY <2>2, ReplyType DEF Outcomes, PcOK
    <2> QED BY <1>17, <2>1, <2>3 DEF AnswerError, TypeOK, JournalTypeOK, PcOK
  <1> QED
    BY <1>1, <1>2, <1>3, <1>4, <1>5, <1>6, <1>7, <1>8, <1>9, <1>10, <1>11,
       <1>12, <1>13, <1>14, <1>15, <1>16, <1>17 DEF Continue

(* So does the arrival of a request.                                       *)
LEMMA TypeReceive ==
  ASSUME TypeOK, NEW r \in Requests, NEW c \in Calls, Receive(r, c)
  PROVE  TypeOK'
  <1>1. c \in AllCalls
    BY DEF Calls
  <1>2. call' \in [Requests -> AllCalls \cup {NoCall}]
    BY <1>1 DEF Receive, TypeOK
  <1>3. /\ ledger' \in [Keys -> Row(AllCalls \cup {NoCall})]
        /\ held' \in [Requests -> BOOLEAN]
    BY <1>1, LedgerType DEF Receive, TypeOK
  <1>4. /\ pc' \in [Requests -> LiveStages \cup {"idle", "done"}]
        /\ outcome' \in [Requests -> Outcomes]
        /\ answer' \in [Requests -> Requests \cup {NoRequest}]
    <2>1. CASE Goto(r, "dispatch") /\ UNCHANGED <<outcome, answer>>
      BY <2>1, GotoType, Names DEF TypeOK
    <2>2. CASE \E code \in Outcomes : Reply(r, code, NoRequest)
      BY <2>2, ReplyType
    <2>3. CASE c.key \in Keys /\ Reply(r, "ok", ledger[c.key].response)
      <3>1. ledger[c.key].response \in Requests \cup {NoRequest}
        BY <2>3 DEF TypeOK, Row
      <3> QED BY <2>3, <3>1, ReplyType DEF Outcomes
    <2> QED BY <2>1, <2>2, <2>3 DEF Receive, Outcomes
  <1> QED BY <1>2, <1>3, <1>4 DEF Receive, TypeOK, JournalTypeOK

(* So do refused writes, late effects, crashes and the two startup steps.  *)
LEMMA TypeFailures ==
  ASSUME TypeOK,
         \/ \E r \in Requests : StorageFault(r) \/ LateEffect(r)
         \/ Crash
         \/ Startup
  PROVE  TypeOK'
  <1> USE DaemonAssumption
  <1>1. ASSUME NEW r \in Requests, StorageFault(r) PROVE TypeOK'
    <2>1. /\ pc' \in [Requests -> LiveStages \cup {"idle", "done"}]
          /\ outcome' \in [Requests -> Outcomes]
          /\ answer' \in [Requests -> Requests \cup {NoRequest}]
      <3>1. CASE Goto(r, "failing") /\ UNCHANGED <<outcome, answer>>
        BY <3>1, GotoType, Names DEF TypeOK
      <3>2. CASE Reply(r, "failed", NoRequest)
        BY <3>2, ReplyType DEF Outcomes
      <3> QED BY <1>1, <3>1, <3>2 DEF StorageFault
    <2>2. journal' \in [Requests -> [EventTypes -> Nat]]
      BY <1>1, RecoverInterruptedType
      DEF StorageFault, PartlyRecovered, TypeOK, JournalTypeOK
    <2>3. faults' \in 0..MaxFaults
      BY <1>1 DEF StorageFault, TypeOK
    <2> QED BY <1>1, <2>1, <2>2, <2>3 DEF StorageFault, TypeOK, JournalTypeOK
  <1>2. CASE Crash
    <2>1. /\ pc' \in [Requests -> LiveStages \cup {"idle", "done"}]
          /\ outcome' \in [Requests -> Outcomes]
      BY <1>2 DEF Crash, TypeOK, Outcomes
    <2>2. journal' \in [Requests -> [EventTypes -> Nat]]
      BY <1>2, RecoverInterruptedType
      DEF Crash, PartlyRecovered, TypeOK, JournalTypeOK
    <2>3. crashes' \in 0..MaxCrashes
      BY <1>2 DEF Crash, TypeOK
    <2> QED BY <1>2, <2>1, <2>2, <2>3 DEF Crash, TypeOK, JournalTypeOK
  <1>3. CASE StartupActions
    <2>1. journal' \in [Requests -> [EventTypes -> Nat]]
      BY <1>3, RecoverInterruptedType DEF StartupActions, TypeOK, JournalTypeOK
    <2> QED BY <1>3, <2>1 DEF StartupActions, TypeOK, JournalTypeOK
  <1>4. CASE StartupKeys
    <2>1. ledger' \in [Keys -> Row(AllCalls \cup {NoCall})]
      BY <1>4, LedgerType DEF StartupKeys
    <2> QED BY <1>4, <2>1 DEF StartupKeys, TypeOK, JournalTypeOK
  <1>5. ASSUME NEW r \in Requests, LateEffect(r) PROVE TypeOK'
    <2>1. executed' \subseteq Requests /\ outstanding' \subseteq Requests
      BY <1>5 DEF LateEffect, TypeOK
    <2> QED BY <1>5, <2>1 DEF LateEffect, TypeOK, JournalTypeOK
  <1> QED BY <1>1, <1>2, <1>3, <1>4, <1>5 DEF Startup

LEMMA TypeStep == TypeOK /\ [Next]_vars => TypeOK'
  <1> SUFFICES ASSUME TypeOK, [Next]_vars PROVE TypeOK'
    OBVIOUS
  <1>1. CASE UNCHANGED vars
    BY <1>1 DEF vars, durable, TypeOK, JournalTypeOK
  <1> QED BY <1>1, TypeContinue, TypeReceive, TypeFailures DEF Next, Quiet

(* Every variable keeps its type, however many clients, keys, crashes and  *)
(* refused writes there are.                                               *)
THEOREM TypeCorrect == Spec => []TypeOK
  BY TypeInit, TypeStep, PTL DEF Spec

-----------------------------------------------------------------------------
(* The life of a key.  KeyInv is the inductive form of KeyRunsOnce and     *)
(* ReplayIsTheRecordedResult: neither is preserved on its own, because an  *)
(* answer rests on who holds the row, and the holder on what is live.      *)

(* A request whose adapter was called.                                     *)
Ran(r) == r \in executed \cup outstanding

(* Nothing has happened to a request that was not received, and no answer  *)
(* is given before the end.                                                *)
Untouched ==
  \A r \in Requests :
    /\ pc[r] = "idle" => call[r] = NoCall /\ ~held[r] /\ ~Ran(r)
    /\ pc[r] # "done" => answer[r] = NoRequest /\ outcome[r] = "none"

HolderHasRow ==
  \A r \in Requests :
    held[r] => /\ Keyed(r)
               /\ ledger[Key(r)].state # "absent"
               /\ ledger[Key(r)].call = call[r]

OneHolder ==
  \A r1, r2 \in Requests :
    held[r1] /\ held[r2] /\ Key(r1) = Key(r2) => r1 = r2

WorkerHolds ==
  \A r \in Requests : Keyed(r) /\ (Live(r) \/ Ran(r)) => held[r]

RowHasHolder ==
  \A k \in Keys :
    ledger[k].state # "absent" => \E r \in Requests : held[r] /\ Key(r) = k

ResultIsFinal ==
  \A k \in Keys :
    ledger[k].state = "completed" =>
      LET x == ledger[k].response
      IN x \in Requests /\ held[x] /\ Key(x) = k /\ pc[x] = "done"

KeyInv ==
  /\ Untouched /\ HolderHasRow /\ OneHolder /\ WorkerHolds /\ RowHasHolder
  /\ ResultIsFinal /\ ReplayIsTheRecordedResult

-----------------------------------------------------------------------------
(* Permissions.  AuthorityInv is the inductive form of AuthorizedEffects.  *)
(* An approval is created for an action the policy asked about.            *)
ApprovalsWereAsked ==
  \A a \in Requests :
    approval[a] # "none" =>
      /\ Is(a, "submit_action_attempt")
      /\ verdict[a].decision = "ask"
      /\ pc[a] \notin {"idle", "dispatch", "asking"}

(* Each stage has its method and its decision.                             *)
StagesFit ==
  \A r \in Requests :
    /\ pc[r] \in {"asking", "announcing"} =>
         Is(r, "submit_action_attempt") /\ verdict[r].decision = "ask"
    /\ pc[r] = "recording" =>
         /\ Is(r, "resolve_approval")
         /\ approval[call[r].approval] # "none"

(* A handler that executes, and each effect, has its permission.           *)
Permitted(r) ==
  \/ /\ Is(r, "submit_action_attempt")
     /\ verdict[r].decision \in {"allow", "allow_with_snapshot"}
  \/ /\ Is(r, "resolve_approval")
     /\ approval[call[r].approval] = "approved"

WorkersPermitted ==
  \A r \in Requests :
    pc[r] \in ExecutionStages \/ Ran(r) =>
      /\ Permitted(r)
      /\ pc[r] \notin {"idle", "dispatch"}

AuthorityInv ==
  /\ \A r \in Requests : pc[r] = "idle" => call[r] = NoCall
  /\ ApprovalsWereAsked /\ StagesFit /\ WorkersPermitted

(* An effect comes once to a request, not before the end of "running"; one *)
(* that is still to come leaves the result of its key open.                *)
EffectIsLast ==
  /\ \A r \in executed : pc[r] \in {"effected", "finishing", "failing", "done"}
  /\ \A r \in outstanding :
       /\ pc[r] \in {"running", "failing", "done"}
       /\ r \notin executed
       /\ held[r] => ledger[Key(r)].state # "completed"

-----------------------------------------------------------------------------
(* What the claim finds: a free row, or a row of the same call.            *)
LEMMA ClaimStatusFacts ==
  ASSUME NEW k, NEW c
  PROVE  /\ ClaimStatus(k, c) # "unkeyed"
         /\ ClaimStatus(k, c) = "claimed" => ledger[k].state = "absent"
         /\ ClaimStatus(k, c) = "replay" =>
              ledger[k].state = "completed" /\ ledger[k].call = c
  BY DEF ClaimStatus

LEMMA KeyInit == Init => KeyInv
  BY DEF Init, KeyInv, Untouched, HolderHasRow, OneHolder, WorkerHolds,
         RowHasHolder, ResultIsFinal, ReplayIsTheRecordedResult, AbsentRow,
         Live, LiveStages, SyncStages, ExecutionStages, Keyed, Key, Ran

(* A handler that moves from one stage to another, whatever it does to the *)
(* journal and the world, and pending rows that become unknown, keep       *)
(* KeyInv.                                                                 *)
LEMMA KeyMove ==
  ASSUME TypeOK, KeyInv, NEW r \in Requests, Live(r),
         NEW s \in LiveStages, Goto(r, s),
         UNCHANGED <<call, held, outcome, answer>>,
         executed' \subseteq executed \cup {r},
         outstanding' \subseteq outstanding \cup {r},
         ReconcilePending \/ UNCHANGED ledger
  PROVE  KeyInv'
  <1>1. /\ pc' = [pc EXCEPT ![r] = s]
        /\ s \notin {"idle", "done"}
        /\ pc[r] \notin {"idle", "done"}
    BY Names DEF Goto, Live
  <1>2. \A q \in Requests :
          /\ pc'[q] = pc[q] \/ (q = r /\ pc'[q] = s)
          /\ pc'[q] = "done" <=> pc[q] = "done"
          /\ pc'[q] = "idle" <=> pc[q] = "idle"
          /\ Live(q)' <=> Live(q)
          /\ Keyed(q)' <=> Keyed(q)
          /\ Key(q)' = Key(q)
          /\ Ran(q)' => Ran(q) \/ q = r
    BY <1>1, Names DEF TypeOK, Live, Keyed, Key, Ran
  <1>3. \A k \in Keys :
          /\ ledger'[k].call = ledger[k].call
          /\ ledger'[k].response = ledger[k].response
          /\ ledger'[k].state = "absent" <=> ledger[k].state = "absent"
          /\ ledger'[k].state = "completed" <=> ledger[k].state = "completed"
    BY DEF ReconcilePending, TypeOK, Row
  <1>4. Untouched' /\ OneHolder' /\ WorkerHolds'
    BY <1>1, <1>2 DEF KeyInv, Untouched, OneHolder, WorkerHolds
  <1>5. HolderHasRow' /\ RowHasHolder' /\ ResultIsFinal'
    BY <1>2, <1>3 DEF KeyInv, HolderHasRow, RowHasHolder, ResultIsFinal, Keyed,
                      Key
  <1>6. ReplayIsTheRecordedResult'
    BY <1>2, <1>3 DEF KeyInv, ReplayIsTheRecordedResult, Keyed, Key
  <1> QED BY <1>4, <1>5, <1>6 DEF KeyInv

LEMMA LiveIsNotOver ==
  ASSUME NEW r
  PROVE  Live(r) <=> pc[r] \in LiveStages /\ pc[r] \notin {"idle", "done"}
  BY Names DEF Live

(* The claim of a free key, the replay of a finished one, and the refusals *)
(* keep KeyInv.                                                            *)
LEMMA KeyReceive ==
  ASSUME TypeOK, KeyInv, NEW r \in Requests, NEW c \in Calls, Receive(r, c)
  PROVE  KeyInv'
  <1> USE CallAssumption
  <1>1. /\ pc[r] = "idle" /\ call[r] = NoCall /\ ~held[r] /\ ~Ran(r)
        /\ c # NoCall
        /\ call' = [call EXCEPT ![r] = c]
        /\ \A q \in Requests : Ran(q)' <=> Ran(q)
    BY DEF Receive, KeyInv, Untouched, Calls, Ran
  <1>2. \A q \in Requests :
          /\ q # r => /\ Keyed(q)' <=> Keyed(q)
                      /\ Key(q)' = Key(q)
                      /\ call'[q] = call[q]
          /\ held[q] => q # r
    BY <1>1 DEF TypeOK, Keyed, Key
  <1>3. /\ Key(r)' = c.key
        /\ Keyed(r)' <=> c.key \in Keys
        /\ call'[r] = c
    BY <1>1 DEF TypeOK, Keyed, Key
  <1>4. CASE /\ c.key \notin Keys
             /\ Goto(r, "dispatch")
             /\ UNCHANGED <<ledger, held, outcome, answer>>
    <2>1. \A q \in Requests :
            /\ q # r => pc'[q] = pc[q] /\ (Live(q)' <=> Live(q))
            /\ pc'[r] = "dispatch"
      BY <1>4 DEF Goto, TypeOK, Live
    <2>2. Untouched' /\ OneHolder' /\ WorkerHolds'
      BY <1>1, <1>2, <1>3, <1>4, <2>1
      DEF KeyInv, Untouched, OneHolder, WorkerHolds
    <2>3. HolderHasRow' /\ RowHasHolder' /\ ResultIsFinal'
      BY <1>1, <1>2, <1>4, <2>1
      DEF KeyInv, HolderHasRow, RowHasHolder, ResultIsFinal
    <2>4. ReplayIsTheRecordedResult'
      BY <1>1, <1>2, <1>3, <1>4, <2>1 DEF KeyInv, ReplayIsTheRecordedResult
    <2> QED BY <2>2, <2>3, <2>4 DEF KeyInv
  <1>5. CASE /\ c.key \in Keys
             /\ ledger[c.key].state = "absent"
             /\ InsertPending(c.key, c)
             /\ held' = [held EXCEPT ![r] = TRUE]
             /\ Goto(r, "dispatch")
             /\ UNCHANGED <<outcome, answer>>
    <2>1. \A q \in Requests :
            /\ q # r => /\ pc'[q] = pc[q]
                        /\ Live(q)' <=> Live(q)
                        /\ held'[q] = held[q]
            /\ pc'[r] = "dispatch"
            /\ held'[r]
      BY <1>5 DEF Goto, TypeOK, Live
    <2>2. \A k \in Keys :
            /\ k # c.key => ledger'[k] = ledger[k]
            /\ ledger'[c.key] =
                 [state |-> "pending", call |-> c, response |-> NoRequest]
      BY <1>5 DEF InsertPending, TypeOK
    <2>3. \A q \in Requests : held[q] => Keyed(q) /\ Key(q) # c.key
      BY <1>5 DEF KeyInv, HolderHasRow
    <2>4. Untouched' /\ OneHolder' /\ WorkerHolds'
      <3>1. Untouched'
        BY <1>1, <1>2, <1>5, <2>1 DEF KeyInv, Untouched
      <3>2. OneHolder'
        BY <1>2, <1>3, <2>1, <2>3 DEF KeyInv, OneHolder
      <3>3. WorkerHolds'
        BY <1>1, <1>2, <2>1 DEF KeyInv, WorkerHolds
      <3> QED BY <3>1, <3>2, <3>3
    <2>5. HolderHasRow' /\ RowHasHolder' /\ ResultIsFinal'
      <3>1. HolderHasRow'
        <4>1. \A q \in Requests \ {r} :
                held'[q] => /\ Keyed(q)'
                            /\ ledger'[Key(q)'] = ledger[Key(q)]
                            /\ ledger[Key(q)].state # "absent"
                            /\ ledger[Key(q)].call = call'[q]
          BY <1>2, <2>1, <2>2, <2>3 DEF KeyInv, HolderHasRow, Keyed, Key
        <4>2. /\ Keyed(r)'
              /\ ledger'[Key(r)'].state # "absent"
              /\ ledger'[Key(r)'].call = call'[r]
          BY <1>3, <1>5, <2>2
        <4> QED BY <4>1, <4>2 DEF HolderHasRow
      <3>2. RowHasHolder'
        <4> SUFFICES ASSUME NEW k \in Keys, ledger'[k].state # "absent"
                     PROVE  \E q \in Requests : held'[q] /\ Key(q)' = k
          BY DEF RowHasHolder
        <4>1. CASE k = c.key
          BY <1>3, <2>1, <4>1
        <4>2. CASE k # c.key
          <5>1. PICK q \in Requests : held[q] /\ Key(q) = k
            BY <2>2, <4>2 DEF KeyInv, RowHasHolder
          <5> QED BY <1>2, <2>1, <5>1
        <4> QED BY <4>1, <4>2
      <3>3. ResultIsFinal'
        <4> SUFFICES ASSUME NEW k \in Keys, ledger'[k].state = "completed"
                     PROVE  LET x == ledger'[k].response
                            IN /\ x \in Requests /\ held'[x]
                               /\ call'[x].key = k /\ pc'[x] = "done"
          BY DEF ResultIsFinal, Key
        <4>1. k # c.key /\ ledger'[k] = ledger[k]
          BY <2>2
        <4>2. LET x == ledger[k].response
              IN x \in Requests /\ held[x] /\ Key(x) = k /\ pc[x] = "done"
          BY <4>1 DEF KeyInv, ResultIsFinal
        <4> QED BY <1>2, <2>1, <4>1, <4>2 DEF Key
      <3> QED BY <3>1, <3>2, <3>3
    <2>6. ReplayIsTheRecordedResult'
      <3> SUFFICES ASSUME NEW q \in Requests, (outcome[q] = "ok" /\ Keyed(q))'
                   PROVE  LET x == answer[q]'
                          IN /\ x \in Requests
                             /\ held'[x] /\ pc'[x] = "done"
                             /\ call'[x] = call'[q]
                             /\ ledger'[Key(q)'].state = "completed"
                             /\ ledger'[Key(q)'].response = x
        BY DEF ReplayIsTheRecordedResult
      <3>1. q # r /\ outcome[q] = "ok" /\ Keyed(q)
        BY <1>1, <1>2, <1>5 DEF KeyInv, Untouched
      <3>2. /\ answer[q] \in Requests /\ held[answer[q]]
            /\ pc[answer[q]] = "done"
            /\ call[answer[q]] = call[q]
            /\ ledger[Key(q)].state = "completed"
            /\ ledger[Key(q)].response = answer[q]
        BY <3>1 DEF KeyInv, ReplayIsTheRecordedResult
      <3>3. /\ Key(q)' = Key(q) /\ Key(q) \in Keys
            /\ answer'[q] = answer[q] /\ answer[q] # r
            /\ call'[q] = call[q]
        BY <1>1, <1>2, <1>5, <3>1, <3>2 DEF Keyed, Key
      <3>4. ledger'[Key(q)] = ledger[Key(q)]
        BY <1>5, <2>2, <3>2, <3>3
      <3> QED BY <1>2, <2>1, <3>2, <3>3, <3>4
    <2> QED BY <2>4, <2>5, <2>6 DEF KeyInv
  <1>6. CASE /\ c.key \in Keys
             /\ \/ /\ ledger[c.key].state = "completed"
                   /\ ledger[c.key].call = c
                   /\ Reply(r, "ok", ledger[c.key].response)
                \/ \E code \in Outcomes \ {"ok"} : Reply(r, code, NoRequest)
             /\ UNCHANGED <<ledger, held>>
    <2>1. \A q \in Requests :
            /\ q # r => /\ pc'[q] = pc[q]
                        /\ Live(q)' <=> Live(q)
                        /\ outcome'[q] = outcome[q]
                        /\ answer'[q] = answer[q]
            /\ pc'[r] = "done"
            /\ ~Live(r)'
      BY <1>6, Names DEF Reply, Goto, TypeOK, Live
    <2>2. Untouched' /\ OneHolder' /\ WorkerHolds'
      BY <1>1, <1>2, <1>6, <2>1 DEF KeyInv, Untouched, OneHolder, WorkerHolds
    <2>3. HolderHasRow' /\ RowHasHolder' /\ ResultIsFinal'
      BY <1>1, <1>2, <1>6, <2>1
      DEF KeyInv, HolderHasRow, RowHasHolder, ResultIsFinal
    <2>4. \/ outcome'[r] # "ok"
          \/ /\ outcome'[r] = "ok"
             /\ answer'[r] = ledger[c.key].response
             /\ ledger[c.key].state = "completed"
             /\ ledger[c.key].call = c
      BY <1>6 DEF Reply, TypeOK
    <2>5. ReplayIsTheRecordedResult'
      <3> SUFFICES ASSUME NEW q \in Requests, (outcome[q] = "ok" /\ Keyed(q))'
                   PROVE  LET x == answer[q]'
                          IN /\ x \in Requests
                             /\ held'[x] /\ pc'[x] = "done"
                             /\ call'[x] = call'[q]
                             /\ ledger'[Key(q)'].state = "completed"
                             /\ ledger'[Key(q)'].response = x
        BY DEF ReplayIsTheRecordedResult
      <3>1. CASE q # r
        BY <1>1, <1>2, <1>6, <2>1, <3>1
        DEF KeyInv, ReplayIsTheRecordedResult
      <3>2. CASE q = r
        <4> DEFINE x == ledger[c.key].response
        <4>1. x \in Requests /\ held[x] /\ Key(x) = c.key /\ pc[x] = "done"
          BY <1>6, <2>4, <3>2 DEF KeyInv, ResultIsFinal
        <4>2. call[x] = c /\ x # r
          BY <1>1, <2>4, <3>2, <4>1 DEF KeyInv, HolderHasRow
        <4> QED BY <1>2, <1>3, <1>6, <2>1, <2>4, <3>2, <4>1, <4>2
      <3> QED BY <3>1, <3>2
    <2> QED BY <2>2, <2>3, <2>5 DEF KeyInv
  <1>7. /\ ClaimStatus(c.key, c) # "unkeyed"
        /\ ClaimStatus(c.key, c) = "claimed" => ledger[c.key].state = "absent"
        /\ ClaimStatus(c.key, c) = "replay" =>
             ledger[c.key].state = "completed" /\ ledger[c.key].call = c
    BY ClaimStatusFacts
  <1> HIDE DEF KeyInv
  <1>8. CASE c.key \notin Keys
    BY <1>4, <1>8 DEF Receive
  <1>9. CASE c.key \in Keys
    BY <1>5, <1>6, <1>7, <1>9 DEF Receive, Outcomes
  <1> QED BY <1>8, <1>9

(* The row of a handler that still runs has no result yet.                 *)
LEMMA LiveRowOpen ==
  ASSUME TypeOK, KeyInv, NEW r \in Requests, Live(r), held[r]
  PROVE  /\ Key(r) \in Keys
         /\ ledger[Key(r)].state \in {"pending", "outcome_unknown"}
  <1>1. Key(r) \in Keys /\ ledger[Key(r)].state # "absent"
    BY DEF KeyInv, HolderHasRow, Keyed, Key
  <1>2. ASSUME ledger[Key(r)].state = "completed" PROVE FALSE
    <2>1. PICK x \in Requests : held[x] /\ Key(x) = Key(r) /\ pc[x] = "done"
      BY <1>1, <1>2 DEF KeyInv, ResultIsFinal
    <2>2. x = r
      BY <2>1 DEF KeyInv, OneHolder
    <2> QED BY <2>1, <2>2, LiveIsNotOver
  <1> QED BY <1>1, <1>2 DEF TypeOK, Row, RowStates

(* An answer that ends a live handler, with its key completed, locked, or  *)
(* left as it is, keeps KeyInv.                                            *)
LEMMA KeyAnswer ==
  ASSUME TypeOK, KeyInv, NEW r \in Requests, Live(r),
         UNCHANGED <<call, held, executed, outstanding>>,
         \/ /\ Reply(r, "ok", r) \/ Reply(r, "unheard", NoRequest)
            /\ IF held[r] THEN CompleteMutation(Key(r), r) ELSE UNCHANGED ledger
         \/ /\ Reply(r, "failed", NoRequest)
            /\ LockKey(r) \/ UNCHANGED ledger
  PROVE  KeyInv'
  <1>1. /\ pc[r] \notin {"idle", "done"}
        /\ pc'[r] = "done"
        /\ ~Live(r)'
        /\ \A q \in Requests : /\ Key(q)' = Key(q)
                               /\ Keyed(q)' <=> Keyed(q)
                               /\ Ran(q)' <=> Ran(q)
        /\ \A q \in Requests \ {r} : /\ pc'[q] = pc[q]
                                     /\ Live(q)' <=> Live(q)
                                     /\ outcome'[q] = outcome[q]
                                     /\ answer'[q] = answer[q]
    BY LiveIsNotOver, Names DEF Reply, Goto, TypeOK, Live, Key, Keyed, Ran
  <1>2. held[r] => /\ Key(r) \in Keys
                   /\ ledger[Key(r)].state \in {"pending", "outcome_unknown"}
    BY LiveRowOpen
  <1>3. \A k \in Keys :
          /\ ledger'[k].call = ledger[k].call
          /\ ledger'[k].state = "absent" <=> ledger[k].state = "absent"
          /\ ledger[k].state = "completed" => ledger'[k] = ledger[k]
          /\ ledger'[k].state = "completed" =>
               \/ ledger'[k] = ledger[k]
               \/ held[r] /\ k = Key(r) /\ ledger'[k].response = r
    BY <1>2 DEF LockKey, CompleteMutation, MarkOutcomeUnknown, TypeOK, Row
  <1>4. Untouched' /\ OneHolder' /\ WorkerHolds'
    BY <1>1 DEF KeyInv, Untouched, OneHolder, WorkerHolds
  <1>5. HolderHasRow' /\ RowHasHolder'
    BY <1>1, <1>3 DEF KeyInv, HolderHasRow, RowHasHolder, Keyed, Key
  <1>6. ResultIsFinal'
    BY <1>1, <1>3 DEF KeyInv, ResultIsFinal, Key
  <1>7. ReplayIsTheRecordedResult'
    <2> SUFFICES ASSUME NEW q \in Requests, outcome'[q] = "ok", Keyed(q)
                 PROVE  LET x == answer'[q]
                        IN /\ x \in Requests
                           /\ held'[x] /\ pc'[x] = "done"
                           /\ call'[x] = call'[q]
                           /\ ledger'[Key(q)].state = "completed"
                           /\ ledger'[Key(q)].response = x
      BY <1>1 DEF ReplayIsTheRecordedResult
    <2>1. Key(q) \in Keys
      BY DEF Keyed, Key
    <2>2. CASE q = r
      <3>1. held[r] /\ Reply(r, "ok", r) /\ CompleteMutation(Key(r), r)
        BY <2>2 DEF KeyInv, WorkerHolds, Reply, TypeOK
      <3>2. answer'[r] = r
        BY <3>1 DEF Reply, TypeOK
      <3>3. /\ ledger'[Key(r)].state = "completed"
            /\ ledger'[Key(r)].response = r
        BY <2>1, <2>2, <3>1 DEF CompleteMutation, TypeOK, Row
      <3> QED BY <1>1, <2>2, <3>1, <3>2, <3>3
    <2>3. CASE q # r
      <3>1. /\ answer[q] \in Requests /\ held[answer[q]]
            /\ pc[answer[q]] = "done"
            /\ call[answer[q]] = call[q]
            /\ ledger[Key(q)].state = "completed"
            /\ ledger[Key(q)].response = answer[q]
        BY <1>1, <2>3 DEF KeyInv, ReplayIsTheRecordedResult
      <3> QED BY <1>1, <1>3, <2>1, <2>3, <3>1
    <2> QED BY <2>2, <2>3
  <1> QED BY <1>4, <1>5, <1>6, <1>7 DEF KeyInv

(* The handlers that a crash cuts off leave their keys as they are.        *)
LEMMA KeyCrash == TypeOK /\ KeyInv /\ Crash => KeyInv'
  <1> SUFFICES ASSUME TypeOK, KeyInv, Crash PROVE KeyInv'
    OBVIOUS
  <1>1. /\ UNCHANGED <<ledger, call, held, executed, outstanding, answer>>
        /\ \A q \in Requests :
             /\ pc'[q] = pc[q] \/ (Live(q) /\ pc'[q] = "done")
             /\ pc[q] = "done" => pc'[q] = "done"
             /\ pc'[q] # "done" => outcome'[q] = outcome[q]
             /\ outcome'[q] = "ok" => outcome[q] = "ok"
             /\ ~Live(q)'
    BY Names DEF Crash, TypeOK, Live
  <1>2. Untouched' /\ OneHolder' /\ WorkerHolds'
    BY <1>1 DEF KeyInv, Untouched, OneHolder, WorkerHolds, Keyed, Key, Ran
  <1>3. HolderHasRow' /\ RowHasHolder' /\ ResultIsFinal'
    BY <1>1 DEF KeyInv, HolderHasRow, RowHasHolder, ResultIsFinal, Keyed, Key
  <1>4. ReplayIsTheRecordedResult'
    BY <1>1 DEF KeyInv, ReplayIsTheRecordedResult, Keyed, Key
  <1> QED BY <1>2, <1>3, <1>4 DEF KeyInv

(* The startup steps.                                                      *)
LEMMA KeyStartup == TypeOK /\ KeyInv /\ Startup => KeyInv'
  <1> SUFFICES ASSUME TypeOK, KeyInv, Startup PROVE KeyInv'
    OBVIOUS
  <1>1. /\ UNCHANGED <<pc, call, held, executed, outstanding, outcome, answer>>
        /\ ReconcilePending \/ UNCHANGED ledger
    BY DEF Startup, StartupActions, StartupKeys
  <1>2. \A k \in Keys :
          /\ ledger'[k].call = ledger[k].call
          /\ ledger'[k].response = ledger[k].response
          /\ ledger'[k].state = "absent" <=> ledger[k].state = "absent"
          /\ ledger'[k].state = "completed" <=> ledger[k].state = "completed"
    BY <1>1 DEF ReconcilePending, TypeOK, Row
  <1>3. Untouched' /\ OneHolder' /\ WorkerHolds'
    BY <1>1
    DEF KeyInv, Untouched, OneHolder, WorkerHolds, Keyed, Key, Live, Ran
  <1>4. HolderHasRow' /\ RowHasHolder' /\ ResultIsFinal'
    BY <1>1, <1>2 DEF KeyInv, HolderHasRow, RowHasHolder, ResultIsFinal, Keyed,
                      Key
  <1>5. ReplayIsTheRecordedResult'
    BY <1>1, <1>2 DEF KeyInv, ReplayIsTheRecordedResult, Keyed, Key
  <1> QED BY <1>3, <1>4, <1>5 DEF KeyInv

(* A late effect comes to a request that already ran.                      *)
LEMMA KeyLate ==
  ASSUME TypeOK, KeyInv, NEW r \in Requests, LateEffect(r)
  PROVE  KeyInv'
  <1>1. /\ UNCHANGED <<ledger, pc, call, held, outcome, answer>>
        /\ \A q \in Requests : Ran(q)' <=> Ran(q)
    BY DEF LateEffect, Ran
  <1> QED BY <1>1
      DEF KeyInv, Untouched, HolderHasRow, OneHolder, WorkerHolds, RowHasHolder,
          ResultIsFinal, ReplayIsTheRecordedResult, Keyed, Key, Live

(* Every stage a handler can be sent to is one of LiveStages.              *)
LEMMA HandlerMoves ==
  ASSUME TypeOK, NEW r \in Requests, Continue(r), ~AnswerOk(r), ~AnswerError(r)
  PROVE  /\ Live(r)
         /\ \E s \in LiveStages : Goto(r, s)
         /\ UNCHANGED <<call, held, outcome, answer>>
         /\ executed' \subseteq executed \cup {r}
         /\ outstanding' \subseteq outstanding \cup {r}
         /\ ReconcilePending \/ UNCHANGED ledger
  <1>1. CASE EvaluatePolicy(r) \/ CreateApproval(r) \/ AnnounceApproval(r)
    BY <1>1, FirstAwaitType, Names
    DEF EvaluatePolicy, CreateApproval, AnnounceApproval, Live
  <1>2. CASE ResolveApproval(r) \/ RecordResolution(r)
    BY <1>2, FirstAwaitType, Names DEF ResolveApproval, RecordResolution, Live
  <1>3. CASE MaintainActions(r) \/ MaintainKeys(r)
    BY <1>3, Names DEF MaintainActions, MaintainKeys, Live
  <1>4. CASE CaptureSnapshot(r) \/ RecordSnapshot(r) \/ VerifyTarget(r)
    BY <1>4, Names
    DEF CaptureSnapshot, RecordSnapshot, VerifyTarget, Live, durable
  <1>5. CASE PreflightFails(r) \/ StartExecution(r) \/ ApplyEffect(r)
    BY <1>5, Names
    DEF PreflightFails, StartExecution, ApplyEffect, CanApply, Live, durable
  <1>6. CASE CompleteExecution(r) \/ FailExecution(r)
    BY <1>6, Names DEF CompleteExecution, FailExecution, Live
  <1> QED BY <1>1, <1>2, <1>3, <1>4, <1>5, <1>6 DEF Continue

(* A refused write sends a live handler to its failure, or ends it.        *)
LEMMA FaultMoves ==
  ASSUME NEW r \in Requests, StorageFault(r)
  PROVE  /\ Live(r)
         /\ UNCHANGED <<ledger, approval, verdict, call, held, executed,
                        outstanding>>
         /\ \/ Goto(r, "failing") /\ UNCHANGED <<outcome, answer>>
            \/ Reply(r, "failed", NoRequest)
  BY Names DEF StorageFault, Live, SyncStages

LEMMA KeyStep == TypeOK /\ KeyInv /\ [Next]_vars => KeyInv'
  <1> SUFFICES ASSUME TypeOK, KeyInv, [Next]_vars PROVE KeyInv'
    OBVIOUS
  <1>1. ASSUME NEW r \in Requests, Continue(r) PROVE KeyInv'
    <2>1. CASE AnswerOk(r)
      BY <2>1, KeyAnswer, Names DEF AnswerOk, Finished, Live
    <2>2. CASE AnswerError(r)
      BY <2>2, KeyAnswer, Names DEF AnswerError, Live
    <2>3. CASE ~AnswerOk(r) /\ ~AnswerError(r)
      BY <1>1, <2>3, HandlerMoves, KeyMove
    <2> QED BY <2>1, <2>2, <2>3
  <1>2. ASSUME NEW r \in Requests, StorageFault(r) PROVE KeyInv'
    BY <1>2, FaultMoves, KeyMove, KeyAnswer, Names
  <1>3. CASE UNCHANGED vars
    BY <1>3 DEF vars, durable, KeyInv, Untouched, HolderHasRow, OneHolder,
                WorkerHolds, RowHasHolder, ResultIsFinal,
                ReplayIsTheRecordedResult, Keyed, Key, Live, Ran
  <1> QED
    BY <1>1, <1>2, <1>3, KeyReceive, KeyLate, KeyCrash, KeyStartup
    DEF Next, Quiet

LEMMA KeyInvariant == Spec => [](TypeOK /\ KeyInv)
  <1>1. Init => TypeOK /\ KeyInv
    BY TypeInit, KeyInit
  <1>2. (TypeOK /\ KeyInv) /\ [Next]_vars => (TypeOK /\ KeyInv)'
    BY TypeStep, KeyStep
  <1> QED BY <1>1, <1>2, PTL DEF Spec

(* An idempotency key makes its request run at most once.                  *)
THEOREM KeysRunOnce == Spec => []KeyRunsOnce
  <1>1. TypeOK /\ KeyInv => KeyRunsOnce
    BY DEF KeyInv, OneHolder, WorkerHolds, KeyRunsOnce, Ran
  <1> QED BY <1>1, KeyInvariant, PTL

(* Every success a keyed client sees is the recorded result of the one     *)
(* request that ran.                                                       *)
THEOREM RepliesAreRecorded == Spec => []ReplayIsTheRecordedResult
  <1>1. KeyInv => ReplayIsTheRecordedResult
    BY DEF KeyInv
  <1> QED BY <1>1, KeyInvariant, PTL

-----------------------------------------------------------------------------
(* Authorized effects.                                                     *)

LEMMA AuthorityInit == Init => AuthorityInv
  BY Names
  DEF Init, JournalInit, AuthorityInv, ApprovalsWereAsked, StagesFit,
      WorkersPermitted, ExecutionStages, Ran

(* A handler that goes on to a stage that asks no new permission.          *)
LEMMA AuthorityMove ==
  ASSUME TypeOK, AuthorityInv, NEW r \in Requests,
         NEW s \in LiveStages \cup {"done"}, Goto(r, s),
         s \notin {"dispatch", "asking", "announcing", "recording"},
         s \in ExecutionStages \/ Ran(r)' => Permitted(r),
         executed' \subseteq executed \cup {r},
         outstanding' \subseteq outstanding \cup {r},
         UNCHANGED <<call, approval, verdict>>
  PROVE  AuthorityInv'
  <1>1. /\ pc'[r] = s /\ s # "idle"
        /\ \A q \in Requests \ {r} : pc'[q] = pc[q]
        /\ \A q \in Requests : /\ Permitted(q)' <=> Permitted(q)
                               /\ \A m : Is(q, m)' <=> Is(q, m)
                               /\ Ran(q)' => Ran(q) \/ q = r
    BY Names DEF Goto, TypeOK, Permitted, Is, Ran
  <1>2. ApprovalsWereAsked' /\ StagesFit'
    BY <1>1 DEF AuthorityInv, ApprovalsWereAsked, StagesFit
  <1>3. WorkersPermitted'
    BY <1>1, Names DEF AuthorityInv, WorkersPermitted
  <1> QED BY <1>1, <1>2, <1>3 DEF AuthorityInv

LEMMA AuthorityReceive ==
  ASSUME TypeOK, AuthorityInv, NEW r \in Requests, NEW c \in Calls, Receive(r, c)
  PROVE  AuthorityInv'
  <1>1. /\ pc[r] = "idle" /\ call[r] = NoCall
        /\ ~Ran(r)
        /\ call' = [call EXCEPT ![r] = c]
        /\ UNCHANGED <<approval, verdict>>
        /\ \A q \in Requests : Ran(q)' <=> Ran(q)
        /\ Goto(r, "dispatch") \/ Goto(r, "done")
    BY DEF Receive, Reply, AuthorityInv, WorkersPermitted, Ran
  <1>2. /\ pc'[r] \in {"dispatch", "done"}
        /\ \A q \in Requests \ {r} : /\ pc'[q] = pc[q]
                                     /\ call'[q] = call[q]
    BY <1>1 DEF Goto, TypeOK
  <1>3. approval[r] = "none"
    BY <1>1 DEF AuthorityInv, ApprovalsWereAsked, TypeOK, JournalTypeOK
  <1>4. ApprovalsWereAsked'
    BY <1>1, <1>2, <1>3 DEF AuthorityInv, ApprovalsWereAsked, Is
  <1>5. StagesFit'
    BY <1>1, <1>2 DEF AuthorityInv, StagesFit, Is
  <1>6. WorkersPermitted'
    BY <1>1, <1>2, Names
    DEF AuthorityInv, WorkersPermitted, Permitted, Is, ExecutionStages
  <1> QED BY <1>1, <1>2, <1>4, <1>5, <1>6 DEF AuthorityInv

(* The verdict of an action is written before anything depends on it.      *)
LEMMA AuthorityEvaluate ==
  ASSUME TypeOK, AuthorityInv, NEW r \in Requests, EvaluatePolicy(r)
  PROVE  AuthorityInv'
  <1>1. PICK v \in Verdicts :
          LET b == BudgetedVerdict(r, v)
          IN /\ verdict' = [verdict EXCEPT ![r] = b]
             /\ \/ b.decision = "ask" /\ Goto(r, "asking")
                \/ b.decision = "deny" /\ Goto(r, "finishing")
                \/ /\ b.decision \notin {"ask", "deny"}
                   /\ Goto(r, FirstAwait(b))
    BY DEF EvaluatePolicy
  <1> DEFINE b == BudgetedVerdict(r, v)
  <1>2. b \in Verdicts
    BY BudgetedVerdictType
  <1>3. /\ pc[r] = "dispatch" /\ Is(r, "submit_action_attempt")
        /\ UNCHANGED <<call, approval>>
        /\ approval[r] = "none"
        /\ ~Ran(r)
        /\ \A q \in Requests : Ran(q)' <=> Ran(q)
    BY DEF EvaluatePolicy, AuthorityInv, ApprovalsWereAsked, WorkersPermitted,
           Ran
  <1>4. /\ \A q \in Requests \ {r} : verdict'[q] = verdict[q] /\ pc'[q] = pc[q]
        /\ verdict'[r] = b
        /\ \A q \in Requests : \A m : Is(q, m)' <=> Is(q, m)
        /\ \/ b.decision = "ask" /\ pc'[r] = "asking"
           \/ b.decision = "deny" /\ pc'[r] = "finishing"
           \/ /\ b.decision \notin {"ask", "deny"}
              /\ pc'[r] \in {"snapshotting", "checking"}
    BY <1>1, <1>3 DEF Goto, TypeOK, JournalTypeOK, FirstAwait, Is
  <1>5. b.decision \in {"allow", "allow_with_snapshot", "ask", "deny"}
    BY <1>2 DEF Verdicts
  <1> HIDE DEF b
  <1>6. ApprovalsWereAsked' /\ StagesFit'
    BY <1>3, <1>4 DEF AuthorityInv, ApprovalsWereAsked, StagesFit
  <1>7. WorkersPermitted'
    BY <1>3, <1>4, <1>5, Names
    DEF AuthorityInv, WorkersPermitted, Permitted, ExecutionStages
  <1> QED BY <1>3, <1>4, <1>6, <1>7 DEF AuthorityInv

(* A new approval cannot undo a permission: nothing ran under it yet.      *)
LEMMA AuthorityCreate ==
  ASSUME TypeOK, AuthorityInv, NEW r \in Requests, CreateApproval(r)
  PROVE  AuthorityInv'
  <1>1. /\ pc[r] = "asking" /\ pc' = [pc EXCEPT ![r] = "announcing"]
        /\ approval' = [approval EXCEPT ![r] = "pending"]
        /\ UNCHANGED <<call, verdict>>
        /\ Is(r, "submit_action_attempt") /\ verdict[r].decision = "ask"
        /\ approval[r] = "none"
        /\ \A q \in Requests : Ran(q)' <=> Ran(q)
    BY DEF CreateApproval, Goto, AuthorityInv, StagesFit, ApprovalsWereAsked,
           Ran
  <1>2. /\ \A q \in Requests \ {r} : approval'[q] = approval[q] /\ pc'[q] = pc[q]
        /\ approval'[r] = "pending" /\ pc'[r] = "announcing"
        /\ \A q \in Requests : \A m : Is(q, m)' <=> Is(q, m)
        /\ \A q \in Requests : Permitted(q) => Permitted(q)'
    <2>1. \A q \in Requests : Is(q, "resolve_approval") =>
                                call[q].approval \in Requests
      BY DEF Is, TypeOK, AllCalls, SubmitCalls, ResolveCalls, MaintenanceCalls
    <2> QED BY <1>1, <2>1 DEF TypeOK, JournalTypeOK, Is, Permitted
  <1>3. ApprovalsWereAsked'
    BY <1>1, <1>2 DEF AuthorityInv, ApprovalsWereAsked
  <1>4. StagesFit'
    <2>1. \A q \in Requests : Is(q, "resolve_approval") =>
                                call[q].approval \in Requests
      BY DEF Is, TypeOK, AllCalls, SubmitCalls, ResolveCalls, MaintenanceCalls
    <2> QED BY <1>1, <1>2, <2>1 DEF AuthorityInv, StagesFit
  <1>5. WorkersPermitted'
    BY <1>1, <1>2, Names DEF AuthorityInv, WorkersPermitted, ExecutionStages
  <1> QED BY <1>1, <1>2, <1>3, <1>4, <1>5 DEF AuthorityInv

(* A resolution only ever takes an approval out of "pending".              *)
LEMMA AuthorityResolve ==
  ASSUME TypeOK, AuthorityInv, NEW r \in Requests, ResolveApproval(r)
  PROVE  AuthorityInv'
  <1> DEFINE a == call[r].approval
  <1>0. \A q \in Requests : Is(q, "resolve_approval") =>
          /\ call[q].approval \in Requests
          /\ call[q].resolution \in {"approved", "denied"}
    BY DEF Is, TypeOK, AllCalls, SubmitCalls, ResolveCalls, MaintenanceCalls
  <1>1. /\ pc[r] = "dispatch" /\ Is(r, "resolve_approval") /\ a \in Requests
        /\ UNCHANGED <<call, verdict, executed, outstanding>>
        /\ \A q \in Requests : Ran(q)' <=> Ran(q)
    BY <1>0 DEF ResolveApproval, Ran
  <1>2. CASE Goto(r, "failing") /\ UNCHANGED approval
    <2>1. ~Ran(r)
      BY <1>1 DEF AuthorityInv, WorkersPermitted
    <2> QED BY <1>1, <1>2, <2>1, AuthorityMove, Names DEF ExecutionStages
  <1>3. CASE /\ approval[a] # "none"
             /\ approval' = [approval EXCEPT ![a] =
                               ResolvedStatus(a, call[r].resolution)]
             /\ Goto(r, "recording")
    <2>1. /\ pc'[r] = "recording"
          /\ \A q \in Requests \ {r} : pc'[q] = pc[q]
          /\ \A q \in Requests : \A m : Is(q, m)' <=> Is(q, m)
      BY <1>1, <1>3 DEF Goto, TypeOK, Is
    <2>2. \A q \in Requests :
            /\ approval[q] = "none" <=> approval'[q] = "none"
            /\ approval[q] = "approved" => approval'[q] = "approved"
      BY <1>0, <1>1, <1>3 DEF ResolvedStatus, TypeOK, JournalTypeOK
    <2>3. \A q \in Requests : Permitted(q) => Permitted(q)'
      BY <1>0, <1>1, <2>1, <2>2 DEF Permitted
    <2>4. ApprovalsWereAsked' /\ StagesFit'
      BY <1>0, <1>1, <1>3, <2>1, <2>2
      DEF AuthorityInv, ApprovalsWereAsked, StagesFit
    <2>5. WorkersPermitted'
      BY <1>1, <2>1, <2>3 DEF AuthorityInv, WorkersPermitted, ExecutionStages
    <2> QED BY <1>1, <2>1, <2>4, <2>5 DEF AuthorityInv
  <1> QED BY <1>2, <1>3 DEF ResolveApproval

LEMMA AuthorityCrash == TypeOK /\ AuthorityInv /\ Crash => AuthorityInv'
  <1> SUFFICES ASSUME TypeOK, AuthorityInv, Crash PROVE AuthorityInv'
    OBVIOUS
  <1>1. /\ UNCHANGED <<approval, verdict, call>>
        /\ \A q \in Requests :
             /\ pc'[q] = pc[q] \/ pc'[q] = "done"
             /\ \A m : Is(q, m)' <=> Is(q, m)
             /\ Permitted(q)' <=> Permitted(q)
             /\ Ran(q)' <=> Ran(q)
    BY DEF Crash, TypeOK, Is, Permitted, Ran
  <1> QED BY <1>1
      DEF AuthorityInv, ApprovalsWereAsked, StagesFit, WorkersPermitted,
          ExecutionStages

LEMMA AuthorityContinue ==
  ASSUME TypeOK, AuthorityInv, NEW r \in Requests, Continue(r)
  PROVE  AuthorityInv'
  <1>1. pc[r] \in ExecutionStages \/ Ran(r) => Permitted(r)
    BY DEF AuthorityInv, WorkersPermitted
  <1>2. CASE AnnounceApproval(r) \/ MaintainActions(r) \/ MaintainKeys(r)
    BY <1>1, <1>2, AuthorityMove, Names
    DEF AnnounceApproval, MaintainActions, MaintainKeys, ExecutionStages, Ran
  <1>3. CASE RecordResolution(r)
    <2>1. /\ Is(r, "resolve_approval") /\ ActionOf(r) = call[r].approval
          /\ pc[r] = "recording"
      BY <1>3 DEF RecordResolution, AuthorityInv, StagesFit, ActionOf
    <2>2. \/ Permitted(r) /\ Goto(r, FirstAwait(verdict[ActionOf(r)]))
          \/ Goto(r, "finishing")
      BY <1>3, <2>1 DEF RecordResolution, Authorized, Permitted
    <2>3. FirstAwait(verdict[ActionOf(r)]) \in {"snapshotting", "checking"}
      BY DEF FirstAwait
    <2>4. /\ UNCHANGED <<call, approval, verdict, executed, outstanding>>
          /\ Ran(r)' <=> Ran(r)
      BY <1>3 DEF RecordResolution, Ran
    <2> QED BY <1>1, <2>1, <2>2, <2>3, <2>4, AuthorityMove, Names
        DEF ExecutionStages
  <1>4. CASE \/ CaptureSnapshot(r) \/ RecordSnapshot(r) \/ VerifyTarget(r)
             \/ PreflightFails(r) \/ StartExecution(r) \/ ApplyEffect(r)
             \/ CompleteExecution(r) \/ FailExecution(r)
    <2>1. /\ pc[r] \in ExecutionStages
          /\ \E s \in ExecutionStages \cup {"finishing", "failing"} : Goto(r, s)
          /\ executed' \subseteq executed \cup {r}
          /\ outstanding' \subseteq outstanding \cup {r}
          /\ UNCHANGED <<call, approval, verdict>>
      BY <1>4
      DEF CaptureSnapshot, RecordSnapshot, VerifyTarget, PreflightFails,
          StartExecution, ApplyEffect, CanApply, CompleteExecution,
          FailExecution, ExecutionStages, durable
    <2> QED BY <1>1, <2>1, AuthorityMove, Names DEF ExecutionStages
  <1>5. CASE AnswerOk(r) \/ AnswerError(r)
    BY <1>1, <1>5, AuthorityMove, Names
    DEF AnswerOk, AnswerError, Finished, Reply, ExecutionStages, Ran
  <1> QED
    BY <1>2, <1>3, <1>4, <1>5, AuthorityEvaluate, AuthorityCreate,
       AuthorityResolve DEF Continue

LEMMA AuthorityStep == TypeOK /\ AuthorityInv /\ [Next]_vars => AuthorityInv'
  <1> SUFFICES ASSUME TypeOK, AuthorityInv, [Next]_vars PROVE AuthorityInv'
    OBVIOUS
  <1>1. ASSUME NEW r \in Requests, StorageFault(r) PROVE AuthorityInv'
    BY <1>1, FaultMoves, AuthorityMove, Names
    DEF AuthorityInv, WorkersPermitted, Reply, ExecutionStages, Ran
  <1>2. CASE Startup \/ (\E r \in Requests : LateEffect(r)) \/ UNCHANGED vars
    <2>1. /\ UNCHANGED <<pc, call, approval, verdict>>
          /\ \A q \in Requests : Ran(q)' <=> Ran(q)
      BY <1>2
      DEF Startup, StartupActions, StartupKeys, LateEffect, vars, durable, Ran
    <2> QED BY <2>1
        DEF AuthorityInv, ApprovalsWereAsked, StagesFit, WorkersPermitted,
            Permitted, Is
  <1> QED
    BY <1>1, <1>2, AuthorityContinue, AuthorityReceive, AuthorityCrash
    DEF Next, Quiet

(* The world changes only for an action that is allowed, or approved, and  *)
(* stays approved.                                                         *)
THEOREM EffectsAreAuthorized == Spec => []AuthorizedEffects
  <1>1. Init => TypeOK /\ AuthorityInv
    BY TypeInit, AuthorityInit
  <1>2. (TypeOK /\ AuthorityInv) /\ [Next]_vars => (TypeOK /\ AuthorityInv)'
    BY TypeStep, AuthorityStep
  <1>3. TypeOK /\ AuthorityInv => AuthorizedEffects
    <2> SUFFICES ASSUME TypeOK, AuthorityInv, NEW r \in executed
                 PROVE  \/ verdict[ActionOf(r)].decision \in
                             {"allow", "allow_with_snapshot"}
                        \/ /\ verdict[ActionOf(r)].decision = "ask"
                           /\ approval[ActionOf(r)] = "approved"
      BY DEF AuthorizedEffects
    <2>1. r \in Requests /\ Permitted(r) /\ ActionOf(r) \in Requests
      BY ActionOfType DEF TypeOK, AuthorityInv, WorkersPermitted, Ran
    <2>2. CASE Is(r, "submit_action_attempt")
      BY <2>1, <2>2 DEF Permitted, ActionOf, Is
    <2>3. CASE Is(r, "resolve_approval")
      BY <2>1, <2>3
      DEF Permitted, ActionOf, Is, AuthorityInv, ApprovalsWereAsked
    <2> QED BY <2>1, <2>2, <2>3 DEF Permitted
  <1> QED BY <1>1, <1>2, <1>3, PTL DEF Spec

=============================================================================
