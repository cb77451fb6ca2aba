--------------------- MODULE HostedExecutionQueueProofs ---------------------
(***************************************************************************)
(* Proofs about HostedExecutionQueue, for any number of jobs, attempts,    *)
(* stops, faults and requeues.                                             *)
(***************************************************************************)
EXTENDS HostedExecutionQueue, TLAPS

(* The part of the assumption that is about numbers.                       *)
LEMMA Bounds ==
  /\ MaxAttempts \in Nat \ {0}
  /\ Budgets \subseteq Nat \ {0}
  /\ MaxStops \in Nat
  /\ MaxFaults \in Nat
  /\ MaxRequeues \in Nat
  BY QueueAssumption, Zenon

(* The queue starts with every variable in its type.                       *)
LEMMA TypeInit == Init => TypeOK
<1> SUFFICES ASSUME Init PROVE TypeOK
  OBVIOUS
<1>1. /\ max_attempts \in [Jobs -> Nat \ {0}]
      /\ requeues \in [Jobs -> 0..MaxRequeues]
      /\ stops \in 0..MaxStops
      /\ faults \in 0..MaxFaults
  BY Bounds DEF Init
<1> QED
  BY <1>1 DEF Init, TypeOK, Statuses

(* Every variable of the queue keeps its type.                             *)
LEMMA TypeStep ==
  ASSUME TypeOK, [Next]_vars
  PROVE  TypeOK'
<1> USE Bounds
<1>1. ASSUME NEW j \in Jobs, SubmitAndWait(j)
      PROVE  TypeOK'
  BY <1>1 DEF SubmitAndWait, Poke, TypeOK, Statuses, Terminal, rows,
     loop, counters
<1>2. ASSUME NEW j \in Jobs, CancelQueued(j)
      PROVE  TypeOK'
  BY <1>2 DEF CancelQueued, Notify, TypeOK, Statuses, Terminal, rows,
     loop, counters
<1>3. ASSUME NEW j \in Jobs, CancelInFlight(j)
      PROVE  TypeOK'
  BY <1>3 DEF CancelInFlight, TypeOK, Statuses, Terminal, rows, loop,
     counters
<1>4. ASSUME NEW j \in Jobs, NEW reset \in BOOLEAN,
                   NEW budget \in Budgets \cup {max_attempts[j]},
                   RequeueFailedJob(j, reset, budget)
      PROVE  TypeOK'
  <2>1. /\ max_attempts' \in [Jobs -> Nat \ {0}]
        /\ requeues' \in [Jobs -> 0..MaxRequeues]
    BY <1>4 DEF RequeueFailedJob, TypeOK
  <2> QED
    BY <1>4, <2>1 DEF RequeueFailedJob, Notify, Poke, TypeOK, Statuses, Terminal, rows, loop,
       counters
<1>5. ASSUME NEW j \in Jobs, ClaimNextJob(j)
      PROVE  TypeOK'
  BY <1>5 DEF ClaimNextJob, AtHead, TypeOK, Statuses, Terminal, rows,
     loop, counters
<1>6. CASE LoopSleeps
  BY <1>6 DEF LoopSleeps, ScheduleNextWake, TypeOK, Statuses, Terminal,
     rows, loop, counters
<1>7. CASE AppendDeadLetter
  BY <1>7 DEF AppendDeadLetter, TypeOK, Statuses, Terminal, rows, loop,
     counters
<1>8. CASE WakeTimerFires
  BY <1>8 DEF WakeTimerFires, Poke, TypeOK, Statuses, Terminal, rows,
     loop, counters
<1>9. ASSUME NEW j \in Jobs, ComesDue(j)
      PROVE  TypeOK'
  BY <1>9 DEF ComesDue, TypeOK, Statuses, Terminal, rows, loop, counters
<1>10. ASSUME NEW j \in Jobs, WorkerExecutes(j)
      PROVE  TypeOK'
  BY <1>10 DEF WorkerExecutes, TypeOK, Statuses, Terminal, rows, loop,
     counters
<1>11. ASSUME NEW j \in Jobs, WorkSucceeds(j)
      PROVE  TypeOK'
  BY <1>11 DEF WorkSucceeds, Settle, Notify, DeadLetter, CancelWanted,
     TypeOK, Statuses, Terminal, rows, loop, counters
<1>12. ASSUME NEW j \in Jobs, NEW retryable \in BOOLEAN,
                   NEW fault \in BOOLEAN, WorkFails(j, retryable, fault)
      PROVE  TypeOK'
  <2>1. faults' \in 0..MaxFaults
    BY <1>12 DEF WorkFails, TypeOK
  <2> QED
    BY <1>12, <2>1 DEF WorkFails, Settle, Notify, DeadLetter, TypeOK, Statuses, Terminal, rows, loop,
       counters
<1>13. CASE Close
  BY <1>13 DEF Close, TypeOK, Statuses, Terminal, rows, loop, counters
<1>14. CASE Stop
  <2>1. stops' \in 0..MaxStops
    BY <1>14 DEF Stop, TypeOK
  <2>2. unsent' \in [Jobs -> Nat]
    BY <1>14 DEF Stop, TypeOK
  <2> QED
    BY <1>14, <2>1, <2>2 DEF Stop, TypeOK, Statuses, Terminal, rows, loop,
       counters
<1>15. ASSUME NEW fresh \in SUBSET {j \in Jobs : status[j] = "running"},
                   Restart(fresh)
      PROVE  TypeOK'
  BY <1>15 DEF Restart, TypeOK, Statuses, Terminal, rows, loop, counters
<1>16. ASSUME NEW j \in Jobs, RecoverStaleJob(j)
      PROVE  TypeOK'
  BY <1>16 DEF RecoverStaleJob, RecoveredStatus, AttemptLeft,
     DeadLetter, TypeOK, Statuses, Terminal, rows, loop, counters
<1>17. CASE Started
  BY <1>17 DEF Started, Poke, TypeOK, Statuses, Terminal, rows, loop,
     counters
<1>18. CASE UNCHANGED vars
  BY <1>18 DEF TypeOK, Statuses, Terminal, vars, rows, loop, counters
<1> QED
  BY <1>1, <1>2, <1>3, <1>4, <1>5, <1>6, <1>7, <1>8, <1>9, <1>10,
     <1>11, <1>12, <1>13, <1>14, <1>15, <1>16, <1>17, <1>18 DEF Next,
     ClientStep, LoopStep, SettleStep, StartStep

-----------------------------------------------------------------------------
(* The inductive invariant.                                                *)

(* Who may hold a claim, and that the loop is at work only in a daemon that*)
(* is not starting: recovery and the loop never share a job.               *)
ActiveInv ==
  /\ OneJobAtATime
  /\ active # NoJob => phase \in {"up", "closing"}

(* The work list of the recovery holds running jobs and is empty outside.  *)
StaleInv ==
  /\ \A j \in stale : status[j] = "running"
  /\ stale # {} => phase = "recovering"

(* Only an open queue has waiters.                                         *)
WaiterInv ==
  /\ WaitersAreNotified
  /\ \A j \in Jobs : waiter[j] = "waiting" => phase = "up"

(* The worker has executed only what is in hand, and results are real.     *)
ResultInv ==
  /\ ResultsAreReal
  /\ worker = "executed" => active \in executed

(* A queued job has an attempt left, or was requeued with none.            *)
BudgetInv ==
  /\ RetryBudgetKept
  /\ \A j \in Jobs :
       /\ status[j] = "queued" =>
            /\ attempt_count[j] <= max_attempts[j]
            /\ requeues[j] = 0 => attempt_count[j] < max_attempts[j]
       /\ status[j] = "absent" => attempt_count[j] = 0 /\ requeues[j] = 0

(* A letter is owed only for a failed job.                                 *)
LetterInv ==
  /\ FailuresAreDeadLettered
  /\ \A j \in Jobs : owed = j => status[j] = "failed"

(* No step breaks the exclusiveness of the loop.                           *)
LEMMA ActiveStep ==
  ASSUME TypeOK, ActiveInv, [Next]_vars
  PROVE  ActiveInv'
<1>1. ASSUME NEW j \in Jobs, SubmitAndWait(j)
      PROVE  ActiveInv'
  BY <1>1, QueueAssumption DEF SubmitAndWait, Poke, TypeOK, ActiveInv,
     OneJobAtATime, InFlight, TurnOver, rows, loop, counters
<1>2. ASSUME NEW j \in Jobs, CancelQueued(j)
      PROVE  ActiveInv'
  BY <1>2, QueueAssumption DEF CancelQueued, Notify, TypeOK, ActiveInv,
     OneJobAtATime, InFlight, TurnOver, rows, loop, counters
<1>3. ASSUME NEW j \in Jobs, CancelInFlight(j)
      PROVE  ActiveInv'
  BY <1>3, QueueAssumption DEF CancelInFlight, TypeOK, ActiveInv,
     OneJobAtATime, InFlight, TurnOver, rows, loop, counters
<1>4. ASSUME NEW j \in Jobs, NEW reset \in BOOLEAN,
           NEW budget \in Budgets \cup {max_attempts[j]},
           RequeueFailedJob(j, reset, budget)
      PROVE  ActiveInv'
  BY <1>4, QueueAssumption DEF RequeueFailedJob, Notify, Poke, TypeOK,
     ActiveInv, OneJobAtATime, InFlight, TurnOver, rows, loop, counters
<1>5. ASSUME NEW j \in Jobs, ClaimNextJob(j)
      PROVE  ActiveInv'
  BY <1>5, QueueAssumption DEF ClaimNextJob, AtHead, TypeOK, ActiveInv,
     OneJobAtATime, InFlight, TurnOver, rows, loop, counters
<1>6. CASE LoopSleeps
  BY <1>6, QueueAssumption DEF LoopSleeps, ScheduleNextWake, TypeOK,
     ActiveInv, OneJobAtATime, InFlight, TurnOver, rows, loop, counters
<1>7. CASE AppendDeadLetter
  BY <1>7, QueueAssumption DEF AppendDeadLetter, TypeOK, ActiveInv,
     OneJobAtATime, InFlight, TurnOver, rows, loop, counters
<1>8. CASE WakeTimerFires
  BY <1>8, QueueAssumption DEF WakeTimerFires, Poke, TypeOK, ActiveInv,
     OneJobAtATime, InFlight, TurnOver, rows, loop, counters
<1>9. ASSUME NEW j \in Jobs, ComesDue(j)
      PROVE  ActiveInv'
  BY <1>9, QueueAssumption DEF ComesDue, TypeOK, ActiveInv,
     OneJobAtATime, InFlight, TurnOver, rows, loop, counters
<1>10. ASSUME NEW j \in Jobs, WorkerExecutes(j)
      PROVE  ActiveInv'
  BY <1>10, QueueAssumption DEF WorkerExecutes, TypeOK, ActiveInv,
     OneJobAtATime, InFlight, TurnOver, rows, loop, counters
<1>11. ASSUME NEW j \in Jobs, WorkSucceeds(j)
      PROVE  ActiveInv'
  BY <1>11, QueueAssumption DEF WorkSucceeds, Settle, Notify,
     DeadLetter, CancelWanted, TypeOK, ActiveInv, OneJobAtATime,
     InFlight, TurnOver, rows, loop, counters
<1>12. ASSUME NEW j \in Jobs, NEW retryable \in BOOLEAN,
           NEW fault \in BOOLEAN, WorkFails(j, retryable, fault)
      PROVE  ActiveInv'
  BY <1>12, QueueAssumption DEF WorkFails, Settle, Notify, DeadLetter,
     CancelWanted, AttemptLeft, TypeOK, ActiveInv, OneJobAtATime,
     InFlight, TurnOver, rows, loop, counters
<1>13. CASE Close
  BY <1>13, QueueAssumption DEF Close, TypeOK, ActiveInv, OneJobAtATime,
     InFlight, TurnOver, rows, loop, counters
<1>14. CASE Stop
  BY <1>14, QueueAssumption DEF Stop, TypeOK, ActiveInv, OneJobAtATime,
     InFlight, TurnOver, rows, loop, counters
<1>15. ASSUME NEW fresh \in SUBSET {j \in Jobs : status[j] = "running"},
           Restart(fresh)
      PROVE  ActiveInv'
  BY <1>15, QueueAssumption DEF Restart, TypeOK, ActiveInv,
     OneJobAtATime, InFlight, TurnOver, rows, loop, counters
<1>16. ASSUME NEW j \in Jobs, RecoverStaleJob(j)
      PROVE  ActiveInv'
  BY <1>16, QueueAssumption DEF RecoverStaleJob, RecoveredStatus,
     AttemptLeft, DeadLetter, TypeOK, ActiveInv, OneJobAtATime,
     InFlight, TurnOver, rows, loop, counters
<1>17. CASE Started
  BY <1>17, QueueAssumption DEF Started, Poke, TypeOK, ActiveInv,
     OneJobAtATime, InFlight, TurnOver, rows, loop, counters
<1>18. CASE UNCHANGED vars
  BY <1>18, QueueAssumption DEF TypeOK, ActiveInv, OneJobAtATime,
     InFlight, TurnOver, vars, rows, loop, counters
<1> QED
  BY <1>1, <1>2, <1>3, <1>4, <1>5, <1>6, <1>7, <1>8, <1>9, <1>10, <1>11,
     <1>12, <1>13, <1>14, <1>15, <1>16, <1>17, <1>18 DEF Next,
     ClientStep, LoopStep, SettleStep, StartStep

(* What recovery has still to do changes only by recovery.                 *)
LEMMA StaleStep ==
  ASSUME TypeOK, ActiveInv, StaleInv, [Next]_vars
  PROVE  StaleInv'
<1>1. ASSUME NEW j \in Jobs, SubmitAndWait(j)
      PROVE  StaleInv'
  BY <1>1, QueueAssumption DEF SubmitAndWait, Poke, TypeOK, ActiveInv,
     StaleInv, OneJobAtATime, rows, loop, counters
<1>2. ASSUME NEW j \in Jobs, CancelQueued(j)
      PROVE  StaleInv'
  BY <1>2, QueueAssumption DEF CancelQueued, Notify, TypeOK, ActiveInv,
     StaleInv, OneJobAtATime, rows, loop, counters
<1>3. ASSUME NEW j \in Jobs, CancelInFlight(j)
      PROVE  StaleInv'
  BY <1>3, QueueAssumption DEF CancelInFlight, TypeOK, ActiveInv,
     StaleInv, OneJobAtATime, rows, loop, counters
<1>4. ASSUME NEW j \in Jobs, NEW reset \in BOOLEAN,
           NEW budget \in Budgets \cup {max_attempts[j]},
           RequeueFailedJob(j, reset, budget)
      PROVE  StaleInv'
  BY <1>4, QueueAssumption DEF RequeueFailedJob, Notify, Poke, TypeOK,
     ActiveInv, StaleInv, OneJobAtATime, rows, loop, counters
<1>5. ASSUME NEW j \in Jobs, ClaimNextJob(j)
      PROVE  StaleInv'
  BY <1>5, QueueAssumption DEF ClaimNextJob, AtHead, TypeOK, ActiveInv,
     StaleInv, OneJobAtATime, rows, loop, counters
<1>6. CASE LoopSleeps
  BY <1>6, QueueAssumption DEF LoopSleeps, ScheduleNextWake, TypeOK,
     ActiveInv, StaleInv, OneJobAtATime, rows, loop, counters
<1>7. CASE AppendDeadLetter
  BY <1>7, QueueAssumption DEF AppendDeadLetter, TypeOK, ActiveInv,
     StaleInv, OneJobAtATime, rows, loop, counters
<1>8. CASE WakeTimerFires
  BY <1>8, QueueAssumption DEF WakeTimerFires, Poke, TypeOK, ActiveInv,
     StaleInv, OneJobAtATime, rows, loop, counters
<1>9. ASSUME NEW j \in Jobs, ComesDue(j)
      PROVE  StaleInv'
  BY <1>9, QueueAssumption DEF ComesDue, TypeOK, ActiveInv, StaleInv,
     OneJobAtATime, rows, loop, counters
<1>10. ASSUME NEW j \in Jobs, WorkerExecutes(j)
      PROVE  StaleInv'
  BY <1>10, QueueAssumption DEF WorkerExecutes, TypeOK, ActiveInv,
     StaleInv, OneJobAtATime, rows, loop, counters
<1>11. ASSUME NEW j \in Jobs, WorkSucceeds(j)
      PROVE  StaleInv'
  BY <1>11, QueueAssumption DEF WorkSucceeds, Settle, Notify,
     DeadLetter, CancelWanted, TypeOK, ActiveInv, StaleInv,
     OneJobAtATime, rows, loop, counters
<1>12. ASSUME NEW j \in Jobs, NEW retryable \in BOOLEAN,
           NEW fault \in BOOLEAN, WorkFails(j, retryable, fault)
      PROVE  StaleInv'
  BY <1>12, QueueAssumption DEF WorkFails, Settle, Notify, DeadLetter,
     CancelWanted, AttemptLeft, TypeOK, ActiveInv, StaleInv,
     OneJobAtATime, rows, loop, counters
<1>13. CASE Close
  BY <1>13, QueueAssumption DEF Close, TypeOK, ActiveInv, StaleInv,
     OneJobAtATime, rows, loop, counters
<1>14. CASE Stop
  BY <1>14, QueueAssumption DEF Stop, TypeOK, ActiveInv, StaleInv,
     OneJobAtATime, rows, loop, counters
<1>15. ASSUME NEW fresh \in SUBSET {j \in Jobs : status[j] = "running"},
           Restart(fresh)
      PROVE  StaleInv'
  BY <1>15, QueueAssumption DEF Restart, TypeOK, ActiveInv, StaleInv,
     OneJobAtATime, rows, loop, counters
<1>16. ASSUME NEW j \in Jobs, RecoverStaleJob(j)
      PROVE  StaleInv'
  BY <1>16, QueueAssumption DEF RecoverStaleJob, RecoveredStatus,
     AttemptLeft, DeadLetter, TypeOK, ActiveInv, StaleInv,
     OneJobAtATime, rows, loop, counters
<1>17. CASE Started
  BY <1>17, QueueAssumption DEF Started, Poke, TypeOK, ActiveInv,
     StaleInv, OneJobAtATime, rows, loop, counters
<1>18. CASE UNCHANGED vars
  BY <1>18, QueueAssumption DEF TypeOK, ActiveInv, StaleInv,
     OneJobAtATime, vars, rows, loop, counters
<1> QED
  BY <1>1, <1>2, <1>3, <1>4, <1>5, <1>6, <1>7, <1>8, <1>9, <1>10, <1>11,
     <1>12, <1>13, <1>14, <1>15, <1>16, <1>17, <1>18 DEF Next,
     ClientStep, LoopStep, SettleStep, StartStep

(* Whoever ends a job tells its waiters.                                   *)
LEMMA WaiterStep ==
  ASSUME TypeOK, ActiveInv, StaleInv, WaiterInv, [Next]_vars
  PROVE  WaiterInv'
<1>1. ASSUME NEW j \in Jobs, SubmitAndWait(j)
      PROVE  WaiterInv'
  BY <1>1, QueueAssumption DEF SubmitAndWait, Poke, TypeOK, StaleInv,
     WaiterInv, WaitersAreNotified, Terminal, InFlight, rows, loop,
     counters
<1>2. ASSUME NEW j \in Jobs, CancelQueued(j)
      PROVE  WaiterInv'
  BY <1>2, QueueAssumption DEF CancelQueued, Notify, TypeOK, StaleInv,
     WaiterInv, WaitersAreNotified, Terminal, InFlight, rows, loop,
     counters
<1>3. ASSUME NEW j \in Jobs, CancelInFlight(j)
      PROVE  WaiterInv'
  BY <1>3, QueueAssumption DEF CancelInFlight, TypeOK, StaleInv,
     WaiterInv, WaitersAreNotified, Terminal, InFlight, rows, loop,
     counters
<1>4. ASSUME NEW j \in Jobs, NEW reset \in BOOLEAN,
           NEW budget \in Budgets \cup {max_attempts[j]},
           RequeueFailedJob(j, reset, budget)
      PROVE  WaiterInv'
  BY <1>4, QueueAssumption DEF RequeueFailedJob, Notify, Poke, TypeOK,
     StaleInv, WaiterInv, WaitersAreNotified, Terminal, InFlight, rows,
     loop, counters
<1>5. ASSUME NEW j \in Jobs, ClaimNextJob(j)
      PROVE  WaiterInv'
  BY <1>5, QueueAssumption DEF ClaimNextJob, AtHead, TypeOK, StaleInv,
     WaiterInv, WaitersAreNotified, Terminal, InFlight, rows, loop,
     counters
<1>6. CASE LoopSleeps
  BY <1>6, QueueAssumption DEF LoopSleeps, ScheduleNextWake, TypeOK,
     StaleInv, WaiterInv, WaitersAreNotified, Terminal, InFlight, rows,
     loop, counters
<1>7. CASE AppendDeadLetter
  BY <1>7, QueueAssumption DEF AppendDeadLetter, TypeOK, StaleInv,
     WaiterInv, WaitersAreNotified, Terminal, InFlight, rows, loop,
     counters
<1>8. CASE WakeTimerFires
  BY <1>8, QueueAssumption DEF WakeTimerFires, Poke, TypeOK, StaleInv,
     WaiterInv, WaitersAreNotified, Terminal, InFlight, rows, loop,
     counters
<1>9. ASSUME NEW j \in Jobs, ComesDue(j)
      PROVE  WaiterInv'
  BY <1>9, QueueAssumption DEF ComesDue, TypeOK, StaleInv, WaiterInv,
     WaitersAreNotified, Terminal, InFlight, rows, loop, counters
<1>10. ASSUME NEW j \in Jobs, WorkerExecutes(j)
      PROVE  WaiterInv'
  BY <1>10, QueueAssumption DEF WorkerExecutes, TypeOK, StaleInv,
     WaiterInv, WaitersAreNotified, Terminal, InFlight, rows, loop,
     counters
<1>11. ASSUME NEW j \in Jobs, WorkSucceeds(j)
      PROVE  WaiterInv'
  BY <1>11, QueueAssumption DEF WorkSucceeds, Settle, Notify,
     DeadLetter, CancelWanted, TypeOK, StaleInv, WaiterInv,
     WaitersAreNotified, Terminal, InFlight, rows, loop, counters
<1>12. ASSUME NEW j \in Jobs, NEW retryable \in BOOLEAN,
           NEW fault \in BOOLEAN, WorkFails(j, retryable, fault)
      PROVE  WaiterInv'
  BY <1>12, QueueAssumption DEF WorkFails, Settle, Notify, DeadLetter,
     CancelWanted, AttemptLeft, TypeOK, StaleInv, WaiterInv,
     WaitersAreNotified, Terminal, InFlight, rows, loop, counters
<1>13. CASE Close
  BY <1>13, QueueAssumption DEF Close, TypeOK, StaleInv, WaiterInv,
     WaitersAreNotified, Terminal, InFlight, rows, loop, counters
<1>14. CASE Stop
  BY <1>14, QueueAssumption DEF Stop, TypeOK, StaleInv, WaiterInv,
     WaitersAreNotified, Terminal, InFlight, rows, loop, counters
<1>15. ASSUME NEW fresh \in SUBSET {j \in Jobs : status[j] = "running"},
           Restart(fresh)
      PROVE  WaiterInv'
  BY <1>15, QueueAssumption DEF Restart, TypeOK, StaleInv, WaiterInv,
     WaitersAreNotified, Terminal, InFlight, rows, loop, counters
<1>16. ASSUME NEW j \in Jobs, RecoverStaleJob(j)
      PROVE  WaiterInv'
  BY <1>16, QueueAssumption DEF RecoverStaleJob, RecoveredStatus,
     AttemptLeft, DeadLetter, TypeOK, StaleInv, WaiterInv,
     WaitersAreNotified, Terminal, InFlight, rows, loop, counters
<1>17. CASE Started
  BY <1>17, QueueAssumption DEF Started, Poke, TypeOK, StaleInv,
     WaiterInv, WaitersAreNotified, Terminal, InFlight, rows, loop,
     counters
<1>18. CASE UNCHANGED vars
  BY <1>18, QueueAssumption DEF TypeOK, StaleInv, WaiterInv,
     WaitersAreNotified, Terminal, InFlight, vars, rows, loop, counters
<1> QED
  BY <1>1, <1>2, <1>3, <1>4, <1>5, <1>6, <1>7, <1>8, <1>9, <1>10, <1>11,
     <1>12, <1>13, <1>14, <1>15, <1>16, <1>17, <1>18 DEF Next,
     ClientStep, LoopStep, SettleStep, StartStep

(* A result comes from an executed call and is never taken back.           *)
LEMMA ResultStep ==
  ASSUME TypeOK, ActiveInv, StaleInv, ResultInv, [Next]_vars
  PROVE  ResultInv'
<1>1. ASSUME NEW j \in Jobs, SubmitAndWait(j)
      PROVE  ResultInv'
  BY <1>1, QueueAssumption DEF SubmitAndWait, Poke, TypeOK, ActiveInv,
     OneJobAtATime, StaleInv, ResultInv, ResultsAreReal, Terminal,
     InFlight, rows, loop, counters
<1>2. ASSUME NEW j \in Jobs, CancelQueued(j)
      PROVE  ResultInv'
  BY <1>2, QueueAssumption DEF CancelQueued, Notify, TypeOK, ActiveInv,
     OneJobAtATime, StaleInv, ResultInv, ResultsAreReal, Terminal,
     InFlight, rows, loop, counters
<1>3. ASSUME NEW j \in Jobs, CancelInFlight(j)
      PROVE  ResultInv'
  BY <1>3, QueueAssumption DEF CancelInFlight, TypeOK, ActiveInv,
     OneJobAtATime, StaleInv, ResultInv, ResultsAreReal, Terminal,
     InFlight, rows, loop, counters
<1>4. ASSUME NEW j \in Jobs, NEW reset \in BOOLEAN,
           NEW budget \in Budgets \cup {max_attempts[j]},
           RequeueFailedJob(j, reset, budget)
      PROVE  ResultInv'
  BY <1>4, QueueAssumption DEF RequeueFailedJob, Notify, Poke, TypeOK,
     ActiveInv, OneJobAtATime, StaleInv, ResultInv, ResultsAreReal,
     Terminal, InFlight, rows, loop, counters
<1>5. ASSUME NEW j \in Jobs, ClaimNextJob(j)
      PROVE  ResultInv'
  BY <1>5, QueueAssumption DEF ClaimNextJob, AtHead, TypeOK, ActiveInv,
     OneJobAtATime, StaleInv, ResultInv, ResultsAreReal, Terminal,
     InFlight, rows, loop, counters
<1>6. CASE LoopSleeps
  BY <1>6, QueueAssumption DEF LoopSleeps, ScheduleNextWake, TypeOK,
     ActiveInv, OneJobAtATime, StaleInv, ResultInv, ResultsAreReal,
     Terminal, InFlight, rows, loop, counters
<1>7. CASE AppendDeadLetter
  BY <1>7, QueueAssumption DEF AppendDeadLetter, TypeOK, ActiveInv,
     OneJobAtATime, StaleInv, ResultInv, ResultsAreReal, Terminal,
     InFlight, rows, loop, counters
<1>8. CASE WakeTimerFires
  BY <1>8, QueueAssumption DEF WakeTimerFires, Poke, TypeOK, ActiveInv,
     OneJobAtATime, StaleInv, ResultInv, ResultsAreReal, Terminal,
     InFlight, rows, loop, counters
<1>9. ASSUME NEW j \in Jobs, ComesDue(j)
      PROVE  ResultInv'
  BY <1>9, QueueAssumption DEF ComesDue, TypeOK, ActiveInv,
     OneJobAtATime, StaleInv, ResultInv, ResultsAreReal, Terminal,
     InFlight, rows, loop, counters
<1>10. ASSUME NEW j \in Jobs, WorkerExecutes(j)
      PROVE  ResultInv'
  BY <1>10, QueueAssumption DEF WorkerExecutes, TypeOK, ActiveInv,
     OneJobAtATime, StaleInv, ResultInv, ResultsAreReal, Terminal,
     InFlight, rows, loop, counters
<1>11. ASSUME NEW j \in Jobs, WorkSucceeds(j)
      PROVE  ResultInv'
  BY <1>11, QueueAssumption DEF WorkSucceeds, Settle, Notify,
     DeadLetter, CancelWanted, TypeOK, ActiveInv, OneJobAtATime,
     StaleInv, ResultInv, ResultsAreReal, Terminal, InFlight, rows,
     loop, counters
<1>12. ASSUME NEW j \in Jobs, NEW retryable \in BOOLEAN,
           NEW fault \in BOOLEAN, WorkFails(j, retryable, fault)
      PROVE  ResultInv'
  BY <1>12, QueueAssumption DEF WorkFails, Settle, Notify, DeadLetter,
     CancelWanted, AttemptLeft, TypeOK, ActiveInv, OneJobAtATime,
     StaleInv, ResultInv, ResultsAreReal, Terminal, InFlight, rows,
     loop, counters
<1>13. CASE Close
  BY <1>13, QueueAssumption DEF Close, TypeOK, ActiveInv, OneJobAtATime,
     StaleInv, ResultInv, ResultsAreReal, Terminal, InFlight, rows,
     loop, counters
<1>14. CASE Stop
  BY <1>14, QueueAssumption DEF Stop, TypeOK, ActiveInv, OneJobAtATime,
     StaleInv, ResultInv, ResultsAreReal, Terminal, InFlight, rows,
     loop, counters
<1>15. ASSUME NEW fresh \in SUBSET {j \in Jobs : status[j] = "running"},
           Restart(fresh)
      PROVE  ResultInv'
  BY <1>15, QueueAssumption DEF Restart, TypeOK, ActiveInv,
     OneJobAtATime, StaleInv, ResultInv, ResultsAreReal, Terminal,
     InFlight, rows, loop, counters
<1>16. ASSUME NEW j \in Jobs, RecoverStaleJob(j)
      PROVE  ResultInv'
  BY <1>16, QueueAssumption DEF RecoverStaleJob, RecoveredStatus,
     AttemptLeft, DeadLetter, TypeOK, ActiveInv, OneJobAtATime,
     StaleInv, ResultInv, ResultsAreReal, Terminal, InFlight, rows,
     loop, counters
<1>17. CASE Started
  BY <1>17, QueueAssumption DEF Started, Poke, TypeOK, ActiveInv,
     OneJobAtATime, StaleInv, ResultInv, ResultsAreReal, Terminal,
     InFlight, rows, loop, counters
<1>18. CASE UNCHANGED vars
  BY <1>18, QueueAssumption DEF TypeOK, ActiveInv, OneJobAtATime,
     StaleInv, ResultInv, ResultsAreReal, Terminal, InFlight, vars,
     rows, loop, counters
<1> QED
  BY <1>1, <1>2, <1>3, <1>4, <1>5, <1>6, <1>7, <1>8, <1>9, <1>10, <1>11,
     <1>12, <1>13, <1>14, <1>15, <1>16, <1>17, <1>18 DEF Next,
     ClientStep, LoopStep, SettleStep, StartStep

(* Attempts are counted against the budget by every path back to the       *)
(* queue.                                                                  *)
LEMMA BudgetStep ==
  ASSUME TypeOK, BudgetInv, [Next]_vars
  PROVE  BudgetInv'
<1>1. ASSUME NEW j \in Jobs, SubmitAndWait(j)
      PROVE  BudgetInv'
  BY <1>1, Bounds DEF SubmitAndWait, Poke, TypeOK, BudgetInv,
     RetryBudgetKept, rows, loop, counters
<1>2. ASSUME NEW j \in Jobs, CancelQueued(j)
      PROVE  BudgetInv'
  BY <1>2, Bounds DEF CancelQueued, Notify, TypeOK, BudgetInv,
     RetryBudgetKept, rows, loop, counters
<1>3. ASSUME NEW j \in Jobs, CancelInFlight(j)
      PROVE  BudgetInv'
  BY <1>3, Bounds DEF CancelInFlight, TypeOK, BudgetInv,
     RetryBudgetKept, rows, loop, counters
<1>4. ASSUME NEW j \in Jobs, NEW reset \in BOOLEAN,
           NEW budget \in Budgets \cup {max_attempts[j]},
           RequeueFailedJob(j, reset, budget)
      PROVE  BudgetInv'
  BY <1>4, Bounds DEF RequeueFailedJob, Notify, Poke, TypeOK, BudgetInv,
     RetryBudgetKept, rows, loop, counters
<1>5. ASSUME NEW j \in Jobs, ClaimNextJob(j)
      PROVE  BudgetInv'
  BY <1>5, Bounds DEF ClaimNextJob, AtHead, TypeOK, BudgetInv,
     RetryBudgetKept, rows, loop, counters
<1>6. CASE LoopSleeps
  BY <1>6, Bounds DEF LoopSleeps, ScheduleNextWake, TypeOK, BudgetInv,
     RetryBudgetKept, rows, loop, counters
<1>7. CASE AppendDeadLetter
  BY <1>7, Bounds DEF AppendDeadLetter, TypeOK, BudgetInv,
     RetryBudgetKept, rows, loop, counters
<1>8. CASE WakeTimerFires
  BY <1>8, Bounds DEF WakeTimerFires, Poke, TypeOK, BudgetInv,
     RetryBudgetKept, rows, loop, counters
<1>9. ASSUME NEW j \in Jobs, ComesDue(j)
      PROVE  BudgetInv'
  BY <1>9, Bounds DEF ComesDue, TypeOK, BudgetInv, RetryBudgetKept,
     rows, loop, counters
<1>10. ASSUME NEW j \in Jobs, WorkerExecutes(j)
      PROVE  BudgetInv'
  BY <1>10, Bounds DEF WorkerExecutes, TypeOK, BudgetInv,
     RetryBudgetKept, rows, loop, counters
<1>11. ASSUME NEW j \in Jobs, WorkSucceeds(j)
      PROVE  BudgetInv'
  BY <1>11, Bounds DEF WorkSucceeds, Settle, Notify, DeadLetter,
     CancelWanted, TypeOK, BudgetInv, RetryBudgetKept, rows, loop,
     counters
<1>12. ASSUME NEW j \in Jobs, NEW retryable \in BOOLEAN,
           NEW fault \in BOOLEAN, WorkFails(j, retryable, fault)
      PROVE  BudgetInv'
  BY <1>12, Bounds DEF WorkFails, Settle, Notify, DeadLetter,
     CancelWanted, AttemptLeft, TypeOK, BudgetInv, RetryBudgetKept,
     rows, loop, counters
<1>13. CASE Close
  BY <1>13, Bounds DEF Close, TypeOK, BudgetInv, RetryBudgetKept, rows,
     loop, counters
<1>14. CASE Stop
  BY <1>14, Bounds DEF Stop, TypeOK, BudgetInv, RetryBudgetKept, rows,
     loop, counters
<1>15. ASSUME NEW fresh \in SUBSET {j \in Jobs : status[j] = "running"},
           Restart(fresh)
      PROVE  BudgetInv'
  BY <1>15, Bounds DEF Restart, TypeOK, BudgetInv, RetryBudgetKept,
     rows, loop, counters
<1>16. ASSUME NEW j \in Jobs, RecoverStaleJob(j)
      PROVE  BudgetInv'
  BY <1>16, Bounds DEF RecoverStaleJob, RecoveredStatus, AttemptLeft,
     DeadLetter, TypeOK, BudgetInv, RetryBudgetKept, rows, loop,
     counters
<1>17. CASE Started
  BY <1>17, Bounds DEF Started, Poke, TypeOK, BudgetInv,
     RetryBudgetKept, rows, loop, counters
<1>18. CASE UNCHANGED vars
  BY <1>18, Bounds DEF TypeOK, BudgetInv, RetryBudgetKept, vars, rows,
     loop, counters
<1> QED
  BY <1>1, <1>2, <1>3, <1>4, <1>5, <1>6, <1>7, <1>8, <1>9, <1>10, <1>11,
     <1>12, <1>13, <1>14, <1>15, <1>16, <1>17, <1>18 DEF Next,
     ClientStep, LoopStep, SettleStep, StartStep

(* A dead letter follows the failure it reports, in the same turn.         *)
LEMMA LetterStep ==
  ASSUME TypeOK, ActiveInv, StaleInv, LetterInv, [Next]_vars
  PROVE  LetterInv'
<1>1. ASSUME NEW j \in Jobs, SubmitAndWait(j)
      PROVE  LetterInv'
  BY <1>1, QueueAssumption DEF SubmitAndWait, Poke, TypeOK, ActiveInv,
     OneJobAtATime, StaleInv, LetterInv, FailuresAreDeadLettered,
     InFlight, TurnOver, rows, loop, counters
<1>2. ASSUME NEW j \in Jobs, CancelQueued(j)
      PROVE  LetterInv'
  BY <1>2, QueueAssumption DEF CancelQueued, Notify, TypeOK, ActiveInv,
     OneJobAtATime, StaleInv, LetterInv, FailuresAreDeadLettered,
     InFlight, TurnOver, rows, loop, counters
<1>3. ASSUME NEW j \in Jobs, CancelInFlight(j)
      PROVE  LetterInv'
  BY <1>3, QueueAssumption DEF CancelInFlight, TypeOK, ActiveInv,
     OneJobAtATime, StaleInv, LetterInv, FailuresAreDeadLettered,
     InFlight, TurnOver, rows, loop, counters
<1>4. ASSUME NEW j \in Jobs, NEW reset \in BOOLEAN,
           NEW budget \in Budgets \cup {max_attempts[j]},
           RequeueFailedJob(j, reset, budget)
      PROVE  LetterInv'
  BY <1>4, QueueAssumption DEF RequeueFailedJob, Notify, Poke, TypeOK,
     ActiveInv, OneJobAtATime, StaleInv, LetterInv,
     FailuresAreDeadLettered, InFlight, TurnOver, rows, loop, counters
<1>5. ASSUME NEW j \in Jobs, ClaimNextJob(j)
      PROVE  LetterInv'
  BY <1>5, QueueAssumption DEF ClaimNextJob, AtHead, TypeOK, ActiveInv,
     OneJobAtATime, StaleInv, LetterInv, FailuresAreDeadLettered,
     InFlight, TurnOver, rows, loop, counters
<1>6. CASE LoopSleeps
  BY <1>6, QueueAssumption DEF LoopSleeps, ScheduleNextWake, TypeOK,
     ActiveInv, OneJobAtATime, StaleInv, LetterInv,
     FailuresAreDeadLettered, InFlight, TurnOver, rows, loop, counters
<1>7. CASE AppendDeadLetter
  BY <1>7, QueueAssumption DEF AppendDeadLetter, TypeOK, ActiveInv,
     OneJobAtATime, StaleInv, LetterInv, FailuresAreDeadLettered,
     InFlight, TurnOver, rows, loop, counters
<1>8. CASE WakeTimerFires
  BY <1>8, QueueAssumption DEF WakeTimerFires, Poke, TypeOK, ActiveInv,
     OneJobAtATime, StaleInv, LetterInv, FailuresAreDeadLettered,
     InFlight, TurnOver, rows, loop, counters
<1>9. ASSUME NEW j \in Jobs, ComesDue(j)
      PROVE  LetterInv'
  BY <1>9, QueueAssumption DEF ComesDue, TypeOK, ActiveInv,
     OneJobAtATime, StaleInv, LetterInv, FailuresAreDeadLettered,
     InFlight, TurnOver, rows, loop, counters
<1>10. ASSUME NEW j \in Jobs, WorkerExecutes(j)
      PROVE  LetterInv'
  BY <1>10, QueueAssumption DEF WorkerExecutes, TypeOK, ActiveInv,
     OneJobAtATime, StaleInv, LetterInv, FailuresAreDeadLettered,
     InFlight, TurnOver, rows, loop, counters
<1>11. ASSUME NEW j \in Jobs, WorkSucceeds(j)
      PROVE  LetterInv'
  BY <1>11, QueueAssumption DEF WorkSucceeds, Settle, Notify,
     DeadLetter, CancelWanted, TypeOK, ActiveInv, OneJobAtATime,
     StaleInv, LetterInv, FailuresAreDeadLettered, InFlight, TurnOver,
     rows, loop, counters
<1>12. ASSUME NEW j \in Jobs, NEW retryable \in BOOLEAN,
           NEW fault \in BOOLEAN, WorkFails(j, retryable, fault)
      PROVE  LetterInv'
  BY <1>12, QueueAssumption DEF WorkFails, Settle, Notify, DeadLetter,
     CancelWanted, AttemptLeft, TypeOK, ActiveInv, OneJobAtATime,
     StaleInv, LetterInv, FailuresAreDeadLettered, InFlight, TurnOver,
     rows, loop, counters
<1>13. CASE Close
  BY <1>13, QueueAssumption DEF Close, TypeOK, ActiveInv, OneJobAtATime,
     StaleInv, LetterInv, FailuresAreDeadLettered, InFlight, TurnOver,
     rows, loop, counters
<1>14. CASE Stop
  BY <1>14, QueueAssumption DEF Stop, TypeOK, ActiveInv, OneJobAtATime,
     StaleInv, LetterInv, FailuresAreDeadLettered, InFlight, TurnOver,
     rows, loop, counters
<1>15. ASSUME NEW fresh \in SUBSET {j \in Jobs : status[j] = "running"},
           Restart(fresh)
      PROVE  LetterInv'
  BY <1>15, QueueAssumption DEF Restart, TypeOK, ActiveInv,
     OneJobAtATime, StaleInv, LetterInv, FailuresAreDeadLettered,
     InFlight, TurnOver, rows, loop, counters
<1>16. ASSUME NEW j \in Jobs, RecoverStaleJob(j)
      PROVE  LetterInv'
  BY <1>16, QueueAssumption DEF RecoverStaleJob, RecoveredStatus,
     AttemptLeft, DeadLetter, TypeOK, ActiveInv, OneJobAtATime,
     StaleInv, LetterInv, FailuresAreDeadLettered, InFlight, TurnOver,
     rows, loop, counters
<1>17. CASE Started
  BY <1>17, QueueAssumption DEF Started, Poke, TypeOK, ActiveInv,
     OneJobAtATime, StaleInv, LetterInv, FailuresAreDeadLettered,
     InFlight, TurnOver, rows, loop, counters
<1>18. CASE UNCHANGED vars
  BY <1>18, QueueAssumption DEF TypeOK, ActiveInv, OneJobAtATime,
     StaleInv, LetterInv, FailuresAreDeadLettered, InFlight, TurnOver,
     vars, rows, loop, counters
<1> QED
  BY <1>1, <1>2, <1>3, <1>4, <1>5, <1>6, <1>7, <1>8, <1>9, <1>10, <1>11,
     <1>12, <1>13, <1>14, <1>15, <1>16, <1>17, <1>18 DEF Next,
     ClientStep, LoopStep, SettleStep, StartStep

(* Whoever queues a job sees to it that the loop will look.                *)
LEMMA WakeupStep ==
  ASSUME TypeOK, NoLostWakeup, [Next]_vars
  PROVE  NoLostWakeup'
<1>1. ASSUME NEW j \in Jobs, SubmitAndWait(j)
      PROVE  NoLostWakeup'
  BY <1>1, QueueAssumption DEF SubmitAndWait, Poke, TypeOK,
     NoLostWakeup, rows, loop, counters
<1>2. ASSUME NEW j \in Jobs, CancelQueued(j)
      PROVE  NoLostWakeup'
  BY <1>2, QueueAssumption DEF CancelQueued, Notify, TypeOK,
     NoLostWakeup, rows, loop, counters
<1>3. ASSUME NEW j \in Jobs, CancelInFlight(j)
      PROVE  NoLostWakeup'
  BY <1>3, QueueAssumption DEF CancelInFlight, TypeOK, NoLostWakeup,
     rows, loop, counters
<1>4. ASSUME NEW j \in Jobs, NEW reset \in BOOLEAN,
           NEW budget \in Budgets \cup {max_attempts[j]},
           RequeueFailedJob(j, reset, budget)
      PROVE  NoLostWakeup'
  BY <1>4, QueueAssumption DEF RequeueFailedJob, Notify, Poke, TypeOK,
     NoLostWakeup, rows, loop, counters
<1>5. ASSUME NEW j \in Jobs, ClaimNextJob(j)
      PROVE  NoLostWakeup'
  BY <1>5, QueueAssumption DEF ClaimNextJob, AtHead, TypeOK,
     NoLostWakeup, rows, loop, counters
<1>6. CASE LoopSleeps
  BY <1>6, QueueAssumption DEF LoopSleeps, ScheduleNextWake, TypeOK,
     NoLostWakeup, rows, loop, counters
<1>7. CASE AppendDeadLetter
  BY <1>7, QueueAssumption DEF AppendDeadLetter, TypeOK, NoLostWakeup,
     rows, loop, counters
<1>8. CASE WakeTimerFires
  BY <1>8, QueueAssumption DEF WakeTimerFires, Poke, TypeOK,
     NoLostWakeup, rows, loop, counters
<1>9. ASSUME NEW j \in Jobs, ComesDue(j)
      PROVE  NoLostWakeup'
  BY <1>9, QueueAssumption DEF ComesDue, TypeOK, NoLostWakeup, rows,
     loop, counters
<1>10. ASSUME NEW j \in Jobs, WorkerExecutes(j)
      PROVE  NoLostWakeup'
  BY <1>10, QueueAssumption DEF WorkerExecutes, TypeOK, NoLostWakeup,
     rows, loop, counters
<1>11. ASSUME NEW j \in Jobs, WorkSucceeds(j)
      PROVE  NoLostWakeup'
  BY <1>11, QueueAssumption DEF WorkSucceeds, Settle, Notify,
     DeadLetter, CancelWanted, TypeOK, NoLostWakeup, rows, loop,
     counters
<1>12. ASSUME NEW j \in Jobs, NEW retryable \in BOOLEAN,
           NEW fault \in BOOLEAN, WorkFails(j, retryable, fault)
      PROVE  NoLostWakeup'
  BY <1>12, QueueAssumption DEF WorkFails, Settle, Notify, DeadLetter,
     CancelWanted, AttemptLeft, TypeOK, NoLostWakeup, rows, loop,
     counters
<1>13. CASE Close
  BY <1>13, QueueAssumption DEF Close, TypeOK, NoLostWakeup, rows, loop,
     counters
<1>14. CASE Stop
  BY <1>14, QueueAssumption DEF Stop, TypeOK, NoLostWakeup, rows, loop,
     counters
<1>15. ASSUME NEW fresh \in SUBSET {j \in Jobs : status[j] = "running"},
           Restart(fresh)
      PROVE  NoLostWakeup'
  BY <1>15, QueueAssumption DEF Restart, TypeOK, NoLostWakeup, rows,
     loop, counters
<1>16. ASSUME NEW j \in Jobs, RecoverStaleJob(j)
      PROVE  NoLostWakeup'
  BY <1>16, QueueAssumption DEF RecoverStaleJob, RecoveredStatus,
     AttemptLeft, DeadLetter, TypeOK, NoLostWakeup, rows, loop, counters
<1>17. CASE Started
  BY <1>17, QueueAssumption DEF Started, Poke, TypeOK, NoLostWakeup,
     rows, loop, counters
<1>18. CASE UNCHANGED vars
  BY <1>18, QueueAssumption DEF TypeOK, NoLostWakeup, vars, rows, loop,
     counters
<1> QED
  BY <1>1, <1>2, <1>3, <1>4, <1>5, <1>6, <1>7, <1>8, <1>9, <1>10, <1>11,
     <1>12, <1>13, <1>14, <1>15, <1>16, <1>17, <1>18 DEF Next,
     ClientStep, LoopStep, SettleStep, StartStep

-----------------------------------------------------------------------------
(* Every variable keeps its type, whatever the clients do and whenever the *)
(* daemon stops.                                                           *)
THEOREM QueueTypeCorrect == Spec => []TypeOK
<1>1. Init => TypeOK
  BY TypeInit
<1>2. TypeOK /\ [Next]_vars => TypeOK'
  BY TypeStep
<1> QED
  BY <1>1, <1>2, PTL DEF Spec

-----------------------------------------------------------------------------
(* The parts together: each lemma above assumes only those it needs.       *)
QueueInv ==
  TypeOK /\ ActiveInv /\ StaleInv /\ WaiterInv /\ ResultInv /\ BudgetInv
    /\ LetterInv /\ NoLostWakeup

(* An empty queue satisfies the invariant.                                 *)
LEMMA QueueInvInit == Init => QueueInv
<1>1. Init => TypeOK
  BY TypeInit
<1>2. Init /\ TypeOK => ActiveInv /\ StaleInv /\ WaiterInv /\ ResultInv
  BY QueueAssumption
  DEF Init, ActiveInv, OneJobAtATime, StaleInv, WaiterInv,
      WaitersAreNotified, ResultInv, ResultsAreReal
<1>3. Init /\ TypeOK => BudgetInv /\ LetterInv /\ NoLostWakeup
  BY QueueAssumption
  DEF Init, BudgetInv, RetryBudgetKept, LetterInv, FailuresAreDeadLettered,
      NoLostWakeup, TypeOK
<1> QED
  BY <1>1, <1>2, <1>3 DEF QueueInv

(* Every step of clients, loop, clock, recovery and stops preserves it.    *)
LEMMA QueueInvStep == QueueInv /\ [Next]_vars => QueueInv'
  BY TypeStep, ActiveStep, StaleStep, WaiterStep, ResultStep, BudgetStep,
     LetterStep, WakeupStep
  DEF QueueInv

(* The inductive invariant holds throughout.                               *)
THEOREM QueueInvariant == Spec => []QueueInv
  BY QueueInvInit, QueueInvStep, PTL DEF Spec

(* The loop works on one job at a time, and on no job that somebody else   *)
(* has ended: across submissions, pokes, timers, requeues and restarts.    *)
THEOREM OneJobIsProcessed == Spec => []OneJobAtATime
<1>1. QueueInv => OneJobAtATime
  BY DEF QueueInv, ActiveInv
<1> QED
  BY <1>1, QueueInvariant, PTL

(* No caller of submitAndWait sleeps through the end of its job.           *)
THEOREM EveryEndIsNotified == Spec => []WaitersAreNotified
<1>1. QueueInv => WaitersAreNotified
  BY DEF QueueInv, WaiterInv
<1> QED
  BY <1>1, QueueInvariant, PTL

(* A result that a caller got is that of an executed, succeeded job.       *)
THEOREM ResultsStayReal == Spec => []ResultsAreReal
<1>1. QueueInv => ResultsAreReal
  BY DEF QueueInv, ResultInv
<1> QED
  BY <1>1, QueueInvariant, PTL

(* Automatic retries and crash recovery stay within max_attempts; an       *)
(* operator's requeue without a reset exceeds it by at most one.           *)
THEOREM RetryBudgetIsKept == Spec => []RetryBudgetKept
<1>1. QueueInv => RetryBudgetKept
  BY DEF QueueInv, BudgetInv
<1> QED
  BY <1>1, QueueInvariant, PTL

(* One dead letter per failure, none for anything else; a stop between the *)
(* two writes of a failure takes that one letter and no other.             *)
THEOREM DeadLettersMatchFailures == Spec => []FailuresAreDeadLettered
<1>1. QueueInv => FailuresAreDeadLettered
  BY DEF QueueInv, LetterInv
<1> QED
  BY <1>1, QueueInvariant, PTL

(* A sleeping loop with queued jobs has its timer armed.                   *)
THEOREM WakeupsAreNotLost == Spec => []NoLostWakeup
<1>1. QueueInv => NoLostWakeup
  BY DEF QueueInv
<1> QED
  BY <1>1, QueueInvariant, PTL

-----------------------------------------------------------------------------
(* What a step may do to a job whose cancellation was asked for, or that   *)
(* has ended otherwise than by failing.                                    *)
Sticky ==
  \A j \in Jobs :
    /\ status[j] = "cancel_requested" =>
         status'[j] \in {"cancel_requested", "canceled"}
    /\ status[j] \in {"canceled", "succeeded"} => status'[j] = status[j]

(* No step takes back a cancellation or a final status.                    *)
LEMMA StickyStep ==
  ASSUME TypeOK, ActiveInv, StaleInv, [Next]_vars
  PROVE  Sticky
<1>1. ASSUME NEW j \in Jobs, SubmitAndWait(j)
      PROVE  Sticky
  BY <1>1, QueueAssumption DEF SubmitAndWait, Poke, TypeOK, ActiveInv,
     OneJobAtATime, StaleInv, Sticky, InFlight, rows, loop, counters
<1>2. ASSUME NEW j \in Jobs, CancelQueued(j)
      PROVE  Sticky
  BY <1>2, QueueAssumption DEF CancelQueued, Notify, TypeOK, ActiveInv,
     OneJobAtATime, StaleInv, Sticky, InFlight, rows, loop, counters
<1>3. ASSUME NEW j \in Jobs, CancelInFlight(j)
      PROVE  Sticky
  BY <1>3, QueueAssumption DEF CancelInFlight, TypeOK, ActiveInv,
     OneJobAtATime, StaleInv, Sticky, InFlight, rows, loop, counters
<1>4. ASSUME NEW j \in Jobs, NEW reset \in BOOLEAN,
           NEW budget \in Budgets \cup {max_attempts[j]},
           RequeueFailedJob(j, reset, budget)
      PROVE  Sticky
  BY <1>4, QueueAssumption DEF RequeueFailedJob, Notify, Poke, TypeOK,
     ActiveInv, OneJobAtATime, StaleInv, Sticky, InFlight, rows, loop,
     counters
<1>5. ASSUME NEW j \in Jobs, ClaimNextJob(j)
      PROVE  Sticky
  BY <1>5, QueueAssumption DEF ClaimNextJob, AtHead, TypeOK, ActiveInv,
     OneJobAtATime, StaleInv, Sticky, InFlight, rows, loop, counters
<1>6. CASE LoopSleeps
  BY <1>6, QueueAssumption DEF LoopSleeps, ScheduleNextWake, TypeOK,
     ActiveInv, OneJobAtATime, StaleInv, Sticky, InFlight, rows, loop,
     counters
<1>7. CASE AppendDeadLetter
  BY <1>7, QueueAssumption DEF AppendDeadLetter, TypeOK, ActiveInv,
     OneJobAtATime, StaleInv, Sticky, InFlight, rows, loop, counters
<1>8. CASE WakeTimerFires
  BY <1>8, QueueAssumption DEF WakeTimerFires, Poke, TypeOK, ActiveInv,
     OneJobAtATime, StaleInv, Sticky, InFlight, rows, loop, counters
<1>9. ASSUME NEW j \in Jobs, ComesDue(j)
      PROVE  Sticky
  BY <1>9, QueueAssumption DEF ComesDue, TypeOK, ActiveInv,
     OneJobAtATime, StaleInv, Sticky, InFlight, rows, loop, counters
<1>10. ASSUME NEW j \in Jobs, WorkerExecutes(j)
      PROVE  Sticky
  BY <1>10, QueueAssumption DEF WorkerExecutes, TypeOK, ActiveInv,
     OneJobAtATime, StaleInv, Sticky, InFlight, rows, loop, counters
<1>11. ASSUME NEW j \in Jobs, WorkSucceeds(j)
      PROVE  Sticky
  BY <1>11, QueueAssumption DEF WorkSucceeds, Settle, Notify,
     DeadLetter, CancelWanted, TypeOK, ActiveInv, OneJobAtATime,
     StaleInv, Sticky, InFlight, rows, loop, counters
<1>12. ASSUME NEW j \in Jobs, NEW retryable \in BOOLEAN,
           NEW fault \in BOOLEAN, WorkFails(j, retryable, fault)
      PROVE  Sticky
  BY <1>12, QueueAssumption DEF WorkFails, Settle, Notify, DeadLetter,
     CancelWanted, AttemptLeft, TypeOK, ActiveInv, OneJobAtATime,
     StaleInv, Sticky, InFlight, rows, loop, counters
<1>13. CASE Close
  BY <1>13, QueueAssumption DEF Close, TypeOK, ActiveInv, OneJobAtATime,
     StaleInv, Sticky, InFlight, rows, loop, counters
<1>14. CASE Stop
  BY <1>14, QueueAssumption DEF Stop, TypeOK, ActiveInv, OneJobAtATime,
     StaleInv, Sticky, InFlight, rows, loop, counters
<1>15. ASSUME NEW fresh \in SUBSET {j \in Jobs : status[j] = "running"},
           Restart(fresh)
      PROVE  Sticky
  BY <1>15, QueueAssumption DEF Restart, TypeOK, ActiveInv,
     OneJobAtATime, StaleInv, Sticky, InFlight, rows, loop, counters
<1>16. ASSUME NEW j \in Jobs, RecoverStaleJob(j)
      PROVE  Sticky
  BY <1>16, QueueAssumption DEF RecoverStaleJob, RecoveredStatus,
     AttemptLeft, DeadLetter, TypeOK, ActiveInv, OneJobAtATime,
     StaleInv, Sticky, InFlight, rows, loop, counters
<1>17. CASE Started
  BY <1>17, QueueAssumption DEF Started, Poke, TypeOK, ActiveInv,
     OneJobAtATime, StaleInv, Sticky, InFlight, rows, loop, counters
<1>18. CASE UNCHANGED vars
  BY <1>18, QueueAssumption DEF TypeOK, ActiveInv, OneJobAtATime,
     StaleInv, Sticky, InFlight, vars, rows, loop, counters
<1> QED
  BY <1>1, <1>2, <1>3, <1>4, <1>5, <1>6, <1>7, <1>8, <1>9, <1>10, <1>11,
     <1>12, <1>13, <1>14, <1>15, <1>16, <1>17, <1>18 DEF Next,
     ClientStep, LoopStep, SettleStep, StartStep

(* Neither a late result nor an error, a retry, a requeue or a restart     *)
(* undoes a cancellation; a canceled or succeeded job stays as it is.      *)
THEOREM CancellationsAreKept == Spec => CancellationsStick
<1>1. QueueInv /\ [Next]_vars => [Sticky]_vars
  BY StickyStep DEF QueueInv
<1> QED
  BY <1>1, QueueInvariant, PTL DEF Spec, CancellationsStick, Sticky
=============================================================================
