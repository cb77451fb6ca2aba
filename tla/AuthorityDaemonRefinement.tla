--------------------- MODULE AuthorityDaemonRefinement ---------------------
(***************************************************************************)
(* AuthorityDaemon implements KeyedMutation, for any number of requests,   *)
(* keys, crashes and refused writes: every step of the daemon is a step of *)
(* the promise, or does not touch what the promise is about.               *)
(***************************************************************************)
EXTENDS AuthorityDaemonProofs

mapped == <<Runners, Applied, Result, Answers>>

-----------------------------------------------------------------------------
(* A handler keeps the result of a key away from an effect still to come:  *)
(* only AnswerOk completes a row, and it comes after the effect.           *)
LEMMA RowsStayOpen ==
  ASSUME TypeOK, KeyInv, NEW r \in Requests,
         Continue(r) \/ StorageFault(r) \/ \E c \in Calls : Receive(r, c)
  PROVE  \A k \in Keys :
           ledger'[k].state = "completed" =>
             \/ ledger[k].state = "completed"
             \/ pc[r] = "finishing" /\ held[r] /\ Key(r) = k
  <1>1. CASE AnswerOk(r)
    <2>1. CASE held[r]
      <3>1. CompleteMutation(Key(r), r) /\ pc[r] = "finishing"
        BY <1>1, <2>1 DEF AnswerOk, Finished
      <3> QED BY <2>1, <3>1 DEF CompleteMutation, TypeOK
    <2>2. CASE ~held[r]
      BY <1>1, <2>2 DEF AnswerOk
    <2> QED BY <2>1, <2>2
  <1>2. CASE AnswerError(r)
    BY <1>2 DEF AnswerError, LockKey, MarkOutcomeUnknown, TypeOK, Row
  <1>3. CASE Continue(r) /\ ~AnswerOk(r) /\ ~AnswerError(r)
    <2>1. ReconcilePending \/ UNCHANGED ledger
      BY <1>3, HandlerMoves
    <2> QED BY <2>1 DEF ReconcilePending, TypeOK, Row
  <1>4. CASE StorageFault(r)
    BY <1>4, FaultMoves
  <1>5. ASSUME NEW c \in Calls, Receive(r, c)
        PROVE  \A k \in Keys : ledger'[k].state = "completed" =>
                                 ledger[k].state = "completed"
    BY <1>5 DEF Receive, InsertPending, TypeOK
  <1> QED BY <1>1, <1>2, <1>3, <1>4, <1>5

(* A request takes effect once, and never after its result is known.       *)
LEMMA EffectStep ==
  TypeOK /\ KeyInv /\ EffectIsLast /\ [Next]_vars => EffectIsLast'
  <1> SUFFICES ASSUME TypeOK, KeyInv, EffectIsLast, [Next]_vars
               PROVE  EffectIsLast'
    OBVIOUS
  <1>1. ASSUME NEW r \in Requests, ~ApplyEffect(r),
               Continue(r) \/ StorageFault(r) \/ \E c \in Calls : Receive(r, c)
        PROVE  EffectIsLast'
    <2>1. /\ executed' = executed
          /\ outstanding' \subseteq outstanding \cup {r}
          /\ r \in outstanding' \ outstanding => StartExecution(r)
      BY <1>1
      DEF Continue, EvaluatePolicy, CreateApproval, AnnounceApproval,
          ResolveApproval, RecordResolution, MaintainActions, MaintainKeys,
          CaptureSnapshot, RecordSnapshot, VerifyTarget, PreflightFails,
          StartExecution, CompleteExecution, FailExecution, AnswerOk,
          AnswerError, StorageFault, Receive, durable
    <2>2. /\ \A q \in Requests \ {r} : pc'[q] = pc[q]
          /\ pc[r] \in {"effected", "finishing", "failing", "done"} =>
               pc'[r] \in {"effected", "finishing", "failing", "done"}
          /\ pc[r] \in {"running", "failing", "done"} =>
               pc'[r] \in {"failing", "done"}
      <3>1. CASE Continue(r)
        BY <1>1, <3>1
        DEF Continue, EvaluatePolicy, CreateApproval, AnnounceApproval,
            ResolveApproval, RecordResolution, MaintainActions, MaintainKeys,
            CaptureSnapshot, RecordSnapshot, VerifyTarget, PreflightFails,
            StartExecution, CompleteExecution, FailExecution, AnswerOk,
            AnswerError, Finished, Reply, Goto, TypeOK
      <3>2. CASE StorageFault(r) \/ \E c \in Calls : Receive(r, c)
        BY <3>2, Names DEF StorageFault, Receive, Reply, Goto, TypeOK, SyncStages
      <3> QED BY <1>1, <3>1, <3>2
    <2>3. ASSUME NEW q \in outstanding
          PROVE  /\ held'[q] = held[q] /\ Key(q)' = Key(q)
                 /\ held[q] => ledger'[Key(q)].state # "completed"
      <3>1. q \in Requests /\ pc[q] \in {"running", "failing", "done"}
        BY DEF TypeOK, EffectIsLast
      <3>2. held'[q] = held[q] /\ Key(q)' = Key(q)
        BY <1>1, <3>1, HandlerMoves, FaultMoves
        DEF AnswerOk, AnswerError, Receive, TypeOK, Key
      <3>3. ASSUME held[q] PROVE ledger'[Key(q)].state # "completed"
        <4>1. Key(q) \in Keys /\ ledger[Key(q)].state # "completed"
          BY <3>1, <3>3 DEF KeyInv, HolderHasRow, Keyed, Key, EffectIsLast
        <4>2. ASSUME held[r], Key(r) = Key(q) PROVE pc[r] # "finishing"
          BY <3>1, <3>3, <4>2 DEF KeyInv, OneHolder
        <4> QED BY <1>1, <4>1, <4>2, RowsStayOpen
      <3> QED BY <3>2, <3>3
    <2>4. CASE StartExecution(r)
      <3>1. /\ pc[r] = "checking" /\ pc'[r] = "running" /\ Live(r)
            /\ UNCHANGED <<ledger, call, held>>
        BY <2>4, Names DEF StartExecution, Goto, TypeOK, Live
      <3>2. /\ r \notin executed
            /\ held[r] => ledger[Key(r)].state # "completed"
        BY <3>1, LiveRowOpen DEF EffectIsLast
      <3>3. Key(r)' = Key(r)
        BY <3>1 DEF Key
      <3> QED BY <2>1, <2>2, <2>3, <3>1, <3>2, <3>3 DEF EffectIsLast, TypeOK
    <2>5. CASE ~StartExecution(r)
      <3>1. outstanding' \subseteq outstanding
        BY <2>1, <2>5
      <3> QED BY <2>1, <2>2, <2>3, <3>1 DEF EffectIsLast, TypeOK
    <2> QED BY <2>4, <2>5
  <1>2. ASSUME NEW r \in Requests, ApplyEffect(r) \/ LateEffect(r)
        PROVE  EffectIsLast'
    <2>1. /\ UNCHANGED <<ledger, call, held>>
          /\ executed' = executed \cup {r}
          /\ outstanding' = outstanding \ {r}
          /\ pc'[r] \in {"effected", "failing", "done"}
          /\ \A q \in Requests \ {r} : pc'[q] = pc[q]
      BY <1>2 DEF ApplyEffect, LateEffect, Goto, TypeOK
    <2> QED BY <2>1 DEF EffectIsLast, TypeOK, Key
  <1>3. CASE Crash \/ Startup \/ UNCHANGED vars
    <2>1. /\ UNCHANGED <<call, held, executed, outstanding>>
          /\ \A q \in Requests : pc'[q] \in {pc[q], "done"}
      BY <1>3
      DEF Crash, Startup, StartupActions, StartupKeys, vars, durable, TypeOK
    <2>2. UNCHANGED ledger \/ ReconcilePending
      BY <1>3 DEF Crash, Startup, StartupActions, StartupKeys, vars, durable
    <2>3. \A k \in Keys : ledger'[k].state = "completed" =>
                            ledger[k].state = "completed"
      BY <2>2 DEF ReconcilePending, TypeOK, Row
    <2>4. \A q \in Requests : held[q] => Key(q) \in Keys
      BY DEF KeyInv, HolderHasRow, Keyed, Key
    <2> QED BY <2>1, <2>3, <2>4 DEF EffectIsLast, TypeOK, Key
  <1> QED BY <1>1, <1>2, <1>3 DEF Next, Quiet

-----------------------------------------------------------------------------
(* A handler that holds its key is the only runner of it, and has no known *)
(* result.                                                                 *)
LEMMA OneRunner ==
  ASSUME TypeOK, KeyInv, NEW r \in Requests, held[r]
  PROVE  /\ Key(r) \in Keys
         /\ Runners[Key(r)] = {r}
         /\ Live(r) => Result[Key(r)] # "known"
  <1>1. Key(r) \in Keys
    BY DEF KeyInv, HolderHasRow, Keyed, Key
  <1>2. Runners[Key(r)] = {r}
    BY <1>1 DEF Runners, KeyInv, OneHolder
  <1>3. Live(r) => Result[Key(r)] # "known"
    BY <1>1, LiveRowOpen DEF Result
  <1> QED BY <1>1, <1>2, <1>3

(* Nothing that the promise speaks of changes.                             *)
LEMMA Stutter ==
  ASSUME TypeOK, UNCHANGED <<call, held, executed>>,
         \A r \in Requests : Keyed(r) => answer'[r] = answer[r],
         \A k \in Keys : /\ ledger'[k].state = "completed" <=>
                              ledger[k].state = "completed"
                         /\ ledger'[k].state = "outcome_unknown" <=>
                              ledger[k].state = "outcome_unknown"
  PROVE  UNCHANGED mapped
  <1>1. Runners' = Runners /\ Applied' = Applied
    BY DEF Runners, Applied, Key
  <1>2. Result' = Result
    BY DEF Result
  <1>3. Answers' = Answers
    BY DEF Answers, Keyed
  <1> QED BY <1>1, <1>2, <1>3 DEF mapped

(* Pending rows that become unknown are results that get lost.             *)
LEMMA LoseStep ==
  ASSUME TypeOK, KeyInv, UNCHANGED <<call, held, executed, answer>>,
         ReconcilePending
  PROVE  \E ks \in SUBSET Keys : Promise!Lose(ks)
  <1> DEFINE ks == {k \in Keys : ledger[k].state = "pending"}
  <1>1. \A k \in ks : Runners[k] # {} /\ Result[k] = "none"
    BY DEF KeyInv, RowHasHolder, Runners, Result
  <1>2. Result' = [k \in Keys |-> IF k \in ks THEN "unknown" ELSE Result[k]]
    BY DEF Result, ReconcilePending, TypeOK, Row
  <1>3. Runners' = Runners /\ Applied' = Applied /\ Answers' = Answers
    BY DEF Runners, Applied, Answers, Key, Keyed
  <1>4. Promise!Lose(ks)
    BY <1>1, <1>2, <1>3 DEF Promise!Lose
  <1> QED BY <1>4

LEMMA RefinementInit == Init => Promise!Init
  <1> SUFFICES ASSUME Init PROVE Promise!Init
    OBVIOUS
  <1>1. Runners = [k \in Keys |-> {}] /\ Applied = {}
    BY DEF Init, Runners, Applied
  <1>2. Result = [k \in Keys |-> "none"]
    BY DEF Init, Result, AbsentRow
  <1>3. Answers = [r \in Requests |-> NoRequest]
    BY DEF Init, Answers
  <1> QED BY <1>1, <1>2, <1>3 DEF Promise!Init

(* A request arrives: its claim begins the key, its replay is a replay.    *)
LEMMA RefinementReceive ==
  ASSUME TypeOK, KeyInv, NEW r \in Requests, NEW c \in Calls, Receive(r, c)
  PROVE  \/ \E k \in Keys : Promise!Begin(r, k) \/ Promise!Replay(r, k)
         \/ UNCHANGED mapped
  <1> USE CallAssumption
  <1>1. /\ pc[r] = "idle" /\ call[r] = NoCall /\ ~held[r] /\ r \notin executed
        /\ answer[r] = NoRequest /\ ~Keyed(r)
        /\ c # NoCall
        /\ call' = [call EXCEPT ![r] = c]
        /\ UNCHANGED executed
    BY DEF Receive, KeyInv, Untouched, Calls, Keyed, Ran
  <1>2. /\ \A q \in Requests \ {r} : call'[q] = call[q]
        /\ call'[r] = c
    BY <1>1 DEF TypeOK
  <1>3. ASSUME UNCHANGED held
        PROVE  Runners' = Runners /\ Applied' = Applied
    BY <1>1, <1>2, <1>3 DEF Runners, Applied, Key
  <1>4. ASSUME answer' = [answer EXCEPT ![r] = NoRequest] \/ UNCHANGED answer
        PROVE  Answers' = Answers
    BY <1>1, <1>2, <1>4 DEF Answers, Keyed, TypeOK
  <1>5. CASE UNCHANGED <<ledger, held>>
             /\ (answer' = [answer EXCEPT ![r] = NoRequest] \/ UNCHANGED answer)
    <2>1. Result' = Result
      BY <1>5 DEF Result
    <2> QED BY <1>3, <1>4, <1>5, <2>1 DEF mapped
  <1>6. CASE /\ c.key \in Keys
             /\ ledger[c.key].state = "absent"
             /\ InsertPending(c.key, c)
             /\ held' = [held EXCEPT ![r] = TRUE]
             /\ UNCHANGED <<outcome, answer>>
    <2>1. \A q \in Requests : held[q] => Key(q) # c.key
      BY <1>6 DEF KeyInv, HolderHasRow
    <2>2. Runners[c.key] = {} /\ \A j \in Keys : r \notin Runners[j]
      BY <1>1, <1>6, <2>1 DEF Runners
    <2>3. Runners' = [Runners EXCEPT ![c.key] = {r}]
      <3>1. ASSUME NEW j \in Keys
            PROVE  Runners'[j] = IF j = c.key THEN {r} ELSE Runners[j]
        BY <1>1, <1>2, <1>6, <2>1 DEF Runners, Key, TypeOK
      <3> QED BY <3>1 DEF Runners
    <2>4. Applied' = Applied
      BY <1>1, <1>6 DEF Applied, TypeOK
    <2>5. Result' = Result
      BY <1>6 DEF Result, InsertPending, TypeOK
    <2>6. Answers' = Answers
      BY <1>4, <1>6
    <2>7. Promise!Begin(r, c.key)
      BY <2>2, <2>3, <2>4, <2>5, <2>6 DEF Promise!Begin
    <2> QED BY <1>6, <2>7
  <1>7. CASE /\ c.key \in Keys
             /\ ledger[c.key].state = "completed"
             /\ Reply(r, "ok", ledger[c.key].response)
             /\ UNCHANGED <<ledger, held>>
    <2> DEFINE x == ledger[c.key].response
    <2>1. x \in Requests /\ held[x] /\ Key(x) = c.key
      BY <1>7 DEF KeyInv, ResultIsFinal
    <2>2. Runners[c.key] = {x} /\ Result[c.key] = "known"
      BY <1>7, <2>1, OneRunner DEF Result
    <2>3. Answers[r] = NoRequest /\ Answers' = [Answers EXCEPT ![r] = x]
      BY <1>1, <1>2, <1>7 DEF Answers, Keyed, Reply, TypeOK
    <2>4. Result' = Result
      BY <1>7 DEF Result
    <2>5. Promise!Replay(r, c.key)
      BY <1>3, <1>7, <2>1, <2>2, <2>3, <2>4 DEF Promise!Replay
    <2> QED BY <1>7, <2>5
  <1>8. CASE c.key \notin Keys
    BY <1>5, <1>8 DEF Receive
  <1>9. CASE c.key \in Keys
    <2>1. /\ ClaimStatus(c.key, c) # "unkeyed"
          /\ ClaimStatus(c.key, c) = "claimed" => ledger[c.key].state = "absent"
          /\ ClaimStatus(c.key, c) = "replay" =>
               ledger[c.key].state = "completed"
      BY ClaimStatusFacts
    <2>2. \A code : Reply(r, code, NoRequest) =>
                      answer' = [answer EXCEPT ![r] = NoRequest]
      BY DEF Reply
    <2> QED BY <1>5, <1>6, <1>7, <1>9, <2>1, <2>2 DEF Receive
  <1> QED BY <1>8, <1>9

(* A success publishes the result of its key.                              *)
LEMMA RefinementAnswerOk ==
  ASSUME TypeOK, KeyInv, NEW r \in Requests, AnswerOk(r)
  PROVE  \/ \E k \in Keys : Promise!Publish(r, k)
         \/ UNCHANGED mapped
  <1>1. /\ Live(r) /\ answer[r] = NoRequest
        /\ UNCHANGED <<call, held, executed>>
        /\ \/ answer' = [answer EXCEPT ![r] = r]
           \/ answer' = [answer EXCEPT ![r] = NoRequest]
    BY Names DEF AnswerOk, Finished, Reply, Live, KeyInv, Untouched
  <1>2. Runners' = Runners /\ Applied' = Applied
    BY <1>1 DEF Runners, Applied, Key
  <1>3. CASE ~held[r]
    <2>1. ~Keyed(r) /\ UNCHANGED ledger
      BY <1>1, <1>3 DEF KeyInv, WorkerHolds, AnswerOk
    <2>2. \A q \in Requests : Keyed(q) => answer'[q] = answer[q]
      BY <1>1, <2>1 DEF TypeOK
    <2> QED BY <1>1, <2>1, <2>2, Stutter
  <1>4. CASE held[r]
    <2>1. /\ Key(r) \in Keys /\ Runners[Key(r)] = {r}
          /\ Result[Key(r)] # "known"
      BY <1>1, <1>4, OneRunner
    <2>2. Result' = [Result EXCEPT ![Key(r)] = "known"]
      <3>1. CompleteMutation(Key(r), r)
        BY <1>4 DEF AnswerOk
      <3> QED BY <2>1, <3>1 DEF Result, CompleteMutation, TypeOK, Row
    <2>3. Keyed(r)
      BY <1>4 DEF KeyInv, HolderHasRow
    <2>4. Answers' = [Answers EXCEPT ![r] = r] \/ Answers' = Answers
      BY <1>1, <2>3 DEF Answers, Keyed, TypeOK
    <2>5. Promise!Publish(r, Key(r))
      BY <1>2, <2>1, <2>2, <2>4 DEF Promise!Publish
    <2> QED BY <2>1, <2>5
  <1> QED BY <1>3, <1>4

(* A failure loses the result of its key, unless it was lost before.       *)
LEMMA RefinementAnswerError ==
  ASSUME TypeOK, KeyInv, NEW r \in Requests, AnswerError(r)
  PROVE  \/ \E ks \in SUBSET Keys : Promise!Lose(ks)
         \/ UNCHANGED mapped
  <1>1. /\ Live(r) /\ answer[r] = NoRequest
        /\ UNCHANGED <<call, held, executed>>
        /\ answer' = [answer EXCEPT ![r] = NoRequest]
    BY Names DEF AnswerError, Reply, Live, KeyInv, Untouched
  <1>2. answer' = answer
    BY <1>1 DEF TypeOK
  <1>3. CASE ~held[r] \/ ledger[Key(r)].state # "pending"
    <2>1. \A k \in Keys : ledger'[k].state = ledger[k].state
      <3>1. CASE ~held[r]
        BY <3>1 DEF AnswerError, LockKey
      <3>2. CASE held[r] /\ ledger[Key(r)].state = "outcome_unknown"
        BY <3>2 DEF AnswerError, LockKey, MarkOutcomeUnknown, TypeOK, Row
      <3> QED BY <1>1, <1>3, <3>1, <3>2, LiveRowOpen
    <2> QED BY <1>1, <1>2, <2>1, Stutter
  <1>4. CASE held[r] /\ ledger[Key(r)].state = "pending"
    <2> DEFINE ks == {Key(r)}
    <2>1. Key(r) \in Keys /\ Runners[Key(r)] = {r}
      BY <1>4, OneRunner
    <2>2. Result[Key(r)] = "none"
      BY <1>4, <2>1 DEF Result
    <2>3. Result' = [k \in Keys |-> IF k \in ks THEN "unknown" ELSE Result[k]]
      BY <1>4, <2>1
      DEF Result, AnswerError, LockKey, MarkOutcomeUnknown, TypeOK, Row
    <2>4. Runners' = Runners /\ Applied' = Applied /\ Answers' = Answers
      BY <1>1, <1>2 DEF Runners, Applied, Answers, Key, Keyed
    <2>5. Promise!Lose(ks)
      BY <2>1, <2>2, <2>3, <2>4 DEF Promise!Lose
    <2> QED BY <2>1, <2>5
  <1> QED BY <1>3, <1>4

(* A keyed effect, in time or late, is applied under its key.              *)
LEMMA RefinementApply ==
  ASSUME TypeOK, KeyInv, EffectIsLast, NEW r \in Requests,
         ApplyEffect(r) \/ LateEffect(r)
  PROVE  \/ \E k \in Keys : Promise!Apply(r, k)
         \/ UNCHANGED mapped
  <1>1. /\ r \notin executed
        /\ Live(r) \/ r \in outstanding
        /\ UNCHANGED <<call, held, ledger, answer>>
        /\ executed' = executed \cup {r}
    BY Names DEF ApplyEffect, LateEffect, CanApply, Live, EffectIsLast
  <1>2. Runners' = Runners /\ Result' = Result /\ Answers' = Answers
    BY <1>1 DEF Runners, Result, Answers, Key, Keyed
  <1>3. CASE ~held[r]
    <2>1. Applied' = Applied
      BY <1>1, <1>3 DEF Applied
    <2> QED BY <1>2, <2>1 DEF mapped
  <1>4. CASE held[r]
    <2>1. /\ Key(r) \in Keys /\ Runners[Key(r)] = {r}
          /\ Result[Key(r)] # "known"
      BY <1>1, <1>4, OneRunner DEF EffectIsLast, Result
    <2>2. r \notin Applied /\ Applied' = Applied \cup {r}
      BY <1>1, <1>4 DEF Applied
    <2>3. Promise!Apply(r, Key(r))
      BY <1>2, <2>1, <2>2 DEF Promise!Apply
    <2> QED BY <2>1, <2>3
  <1> QED BY <1>3, <1>4

LEMMA RefinementStep ==
  TypeOK /\ KeyInv /\ EffectIsLast /\ [Next]_vars => [Promise!Next]_mapped
  <1> SUFFICES ASSUME TypeOK, KeyInv, EffectIsLast, [Next]_vars
               PROVE  Promise!Next \/ UNCHANGED mapped
    OBVIOUS
  <1>1. ASSUME NEW r \in Requests, Continue(r)
        PROVE  Promise!Next \/ UNCHANGED mapped
    <2>1. CASE AnswerOk(r) \/ AnswerError(r) \/ ApplyEffect(r)
      BY <2>1, RefinementAnswerOk, RefinementAnswerError, RefinementApply
      DEF Promise!Next
    <2>2. CASE MaintainKeys(r)
      BY <2>2, LoseStep DEF MaintainKeys, Promise!Next
    <2>3. CASE ~(AnswerOk(r) \/ AnswerError(r) \/ ApplyEffect(r)
                 \/ MaintainKeys(r))
      <3>1. UNCHANGED <<ledger, call, held, executed, answer>>
        BY <1>1, <2>3
        DEF Continue, EvaluatePolicy, CreateApproval, AnnounceApproval,
            ResolveApproval, RecordResolution, MaintainActions,
            CaptureSnapshot, RecordSnapshot, VerifyTarget, PreflightFails,
            StartExecution, CompleteExecution, FailExecution, durable
      <3> QED BY <3>1, Stutter
    <2> QED BY <2>1, <2>2, <2>3
  <1>2. ASSUME NEW r \in Requests, NEW c \in Calls, Receive(r, c)
        PROVE  Promise!Next \/ UNCHANGED mapped
    BY <1>2, RefinementReceive DEF Promise!Next
  <1>3. ASSUME NEW r \in Requests, StorageFault(r)
        PROVE  Promise!Next \/ UNCHANGED mapped
    <2>1. answer' = answer
      <3>1. answer[r] = NoRequest
        BY <1>3, FaultMoves, LiveIsNotOver DEF KeyInv, Untouched
      <3> QED BY <1>3, <3>1, FaultMoves DEF Reply, TypeOK
    <2> QED BY <1>3, <2>1, FaultMoves, Stutter
  <1>4. ASSUME NEW r \in Requests, LateEffect(r)
        PROVE  Promise!Next \/ UNCHANGED mapped
    BY <1>4, RefinementApply DEF Promise!Next
  <1>5. CASE StartupKeys
    BY <1>5, LoseStep DEF StartupKeys, Promise!Next
  <1>6. CASE Crash \/ StartupActions \/ UNCHANGED vars
    <2>1. UNCHANGED <<ledger, call, held, executed, answer>>
      BY <1>6 DEF Crash, StartupActions, vars, durable
    <2> QED BY <2>1, Stutter
  <1> QED BY <1>1, <1>2, <1>3, <1>4, <1>5, <1>6 DEF Next, Startup, Quiet

(* Requests with an idempotency key behave as KeyedMutation says.          *)
THEOREM DaemonKeepsPromise == Spec => KeepsPromise
  <1>1. Init => TypeOK /\ KeyInv /\ EffectIsLast
    BY TypeInit, KeyInit DEF Init, EffectIsLast
  <1>2. (TypeOK /\ KeyInv /\ EffectIsLast) /\ [Next]_vars
          => (TypeOK /\ KeyInv /\ EffectIsLast)'
    BY TypeStep, KeyStep, EffectStep
  <1>3. TypeOK /\ KeyInv /\ EffectIsLast /\ [Next]_vars
          => [Promise!Next]_(Promise!vars)
    BY RefinementStep DEF mapped, Promise!vars
  <1> QED
    BY <1>1, <1>2, <1>3, RefinementInit, PTL
    DEF Spec, KeepsPromise, Promise!Spec

=============================================================================
