------------------------ MODULE HostedExecutionQueue ------------------------
(***************************************************************************)
(* The queue of hosted MCP jobs (authority-daemon): jobs are rows of the   *)
(* registry, one loop of the daemon claims and runs them one at a time,    *)
(* clients wait for, cancel and requeue them, and a restarted daemon       *)
(* recovers what the last one left running.                                *)
(*                                                                         *)
(* The daemon is one JavaScript thread.  A turn runs to its next await, so *)
(* the steps of one turn (a write, the loop reaching its head, the append  *)
(* of a dead letter) are separate actions only so that the process can die *)
(* between two durable writes; TurnOver keeps every other callback out.    *)
(* wakeRequested is left out: it is read only when the loop leaves by an   *)
(* exception, and an exception there ends the process.  cancel_requested_at*)
(* is set exactly in the statuses cancel_requested and canceled.           *)
(***************************************************************************)
EXTENDS Naturals

CONSTANTS Jobs,          (* hosted jobs; job ids are never reused          *)
          NoJob,
          MaxAttempts,   (* max_attempts of a new job (4 in the code)      *)
          Budgets,       (* max_attempts an operator may give on requeue   *)
          QuickRestarts, (* may a restart find a heartbeat still fresh?    *)
          MaxStops,      (* bound: exits and crashes of the daemon         *)
          MaxFaults,     (* bound: registry writes that fail               *)
          MaxRequeues    (* bound: requeues of one job                     *)

ASSUME QueueAssumption ==
  /\ NoJob \notin Jobs
  /\ MaxAttempts \in Nat \ {0}
  /\ Budgets \subseteq Nat \ {0}
  /\ QuickRestarts \in BOOLEAN
  /\ MaxStops \in Nat
  /\ MaxFaults \in Nat
  /\ MaxRequeues \in Nat

VARIABLES
  status, attempt_count, max_attempts,   (* the job rows                   *)
  due,          (* next_attempt_at has passed                              *)
  claimed_by,   (* nobody, this instance of the queue or a former one      *)
  deadLetters,  (* mcp_hosted_job_dead_lettered events in the journal      *)
  phase,        (* the daemon: down, recovering, up or closing             *)
  stale,        (* jobs recoverStaleJobs has still to recover              *)
  running,      (* processLoop is running                                  *)
  timer,        (* nextWakeTimer is set                                    *)
  active,       (* the job in processClaimedJob                            *)
  worker,       (* what became of the call to the hosted worker            *)
  owed,         (* failed job whose dead letter this turn still appends    *)
  waiter,       (* what the promise of submitAndWait came to               *)
  executed,     (* jobs whose tool call was made (history)                 *)
  unsent,       (* dead letters of a job that a stop cut off (history)     *)
  requeues,     (* requeues of a job so far                                *)
  stops, faults (* stops and failed writes so far                          *)

rows == <<status, attempt_count, max_attempts, due, claimed_by>>
loop == <<running, timer, active, worker>>
counters == <<unsent, requeues, stops, faults>>
vars == <<rows, deadLetters, phase, stale, loop, owed, waiter, executed,
          counters>>

Statuses == {"absent", "queued", "running", "cancel_requested",
             "succeeded", "failed", "canceled"}
Terminal == {"succeeded", "failed", "canceled"}
InFlight == {"running", "cancel_requested"}

TypeOK ==
  /\ status \in [Jobs -> Statuses]
  /\ attempt_count \in [Jobs -> Nat]
  /\ max_attempts \in [Jobs -> Nat \ {0}]
  /\ due \in [Jobs -> BOOLEAN]
  /\ claimed_by \in [Jobs -> {"nobody", "this", "former"}]
  /\ deadLetters \in [Jobs -> Nat]
  /\ phase \in {"down", "recovering", "up", "closing"}
  /\ stale \subseteq Jobs
  /\ running \in BOOLEAN
  /\ timer \in BOOLEAN
  /\ active \in Jobs \cup {NoJob}
  /\ worker \in {"idle", "asked", "executed"}
  /\ owed \in Jobs \cup {NoJob}
  /\ waiter \in [Jobs -> {"none", "waiting", "result", "error", "closed",
                          "gone"}]
  /\ executed \subseteq Jobs
  /\ unsent \in [Jobs -> Nat]
  /\ requeues \in [Jobs -> 0..MaxRequeues]
  /\ stops \in 0..MaxStops
  /\ faults \in 0..MaxFaults

Init ==
  /\ status = [j \in Jobs |-> "absent"]
  /\ attempt_count = [j \in Jobs |-> 0]
  /\ max_attempts = [j \in Jobs |-> MaxAttempts]
  /\ due = [j \in Jobs |-> FALSE]
  /\ claimed_by = [j \in Jobs |-> "nobody"]
  /\ deadLetters = [j \in Jobs |-> 0]
  /\ phase = "up"
  /\ stale = {}
  /\ running = FALSE
  /\ timer = FALSE
  /\ active = NoJob
  /\ worker = "idle"
  /\ owed = NoJob
  /\ waiter = [j \in Jobs |-> "none"]
  /\ executed = {}
  /\ unsent = [j \in Jobs |-> 0]
  /\ requeues = [j \in Jobs |-> 0]
  /\ stops = 0
  /\ faults = 0

-----------------------------------------------------------------------------
(* Faulty variants, each used by a run that shows a property can fail.     *)

(* A poke starts the loop although it is already running.                  *)
AtHeadReentrant == running /\ owed = NoJob

(* The loop goes to sleep without arming the timer.                        *)
WakeUnscheduled == timer' = timer

(* A poke clears the timer and does not start the loop.                    *)
PokeDropped == timer' = FALSE /\ UNCHANGED running

(* The cancellation of a queued job is not notified.                       *)
NotifyUnlessCanceled(j, s) ==
  waiter' = IF waiter[j] = "waiting" /\ s \in {"succeeded", "failed"}
            THEN [waiter EXCEPT ![j] = IF s = "succeeded" THEN "result"
                                       ELSE "error"]
            ELSE waiter

(* The promise settles with the bare status.                               *)
NotifyStatus(j, s) ==
  waiter' = IF waiter[j] = "waiting" /\ s \in Terminal
            THEN [waiter EXCEPT ![j] = s] ELSE waiter

(* Waiters are told of a success only.                                     *)
NotifySuccess(j, s) ==
  waiter' = IF waiter[j] = "waiting" /\ s = "succeeded"
            THEN [waiter EXCEPT ![j] = "result"] ELSE waiter

(* A listener that was woken takes any terminal status for a result.       *)
NotifyAnyResult(j, s) ==
  waiter' = IF waiter[j] = "waiting" /\ s \in Terminal
            THEN [waiter EXCEPT ![j] = "result"] ELSE waiter

(* One attempt too many.                                                   *)
AttemptLeftOffByOne(j) == attempt_count[j] <= max_attempts[j]

(* The commit uses the job as it was claimed, not as it is now.            *)
CancelWantedAtClaim(j) == FALSE

(* The recovery at startup reports no failure.                             *)
DeadLetterOfLoop(j, s) ==
  owed' = IF s = "failed" /\ phase # "recovering" THEN j ELSE owed

-----------------------------------------------------------------------------
(* Helpers.                                                                *)

(* The loop is at its head: it has nothing in hand and claims next.        *)
AtHead == running /\ active = NoJob /\ owed = NoJob

(* No callback of the daemon is in the middle of its turn.                 *)
TurnOver == owed = NoJob /\ ~(running /\ active = NoJob)

(* poke (never called on a closed queue here): the timer is cleared and    *)
(* the loop started unless it runs already.                                *)
Poke == timer' = FALSE /\ running' = TRUE

(* scheduleNextWake: a timer for the earliest retry, if any job is queued. *)
ScheduleNextWake == timer' = (timer \/ \E j \in Jobs : status[j] = "queued")

(* notify, with the listener of waitForTerminal: a terminal job resolves   *)
(* or rejects the promise.                                                 *)
Notify(j, s) ==
  waiter' = IF waiter[j] = "waiting" /\ s \in Terminal
            THEN [waiter EXCEPT ![j] = IF s = "succeeded" THEN "result"
                                       ELSE "error"]
            ELSE waiter

AttemptLeft(j) == attempt_count[j] < max_attempts[j]

CancelWanted(j) == status[j] = "cancel_requested"

(* What recoverStaleJobs makes of a job the last daemon left running.      *)
RecoveredStatus(j) == IF AttemptLeft(j) THEN "queued" ELSE "failed"

(* onTerminalFailure is called for a job that fails for good.              *)
DeadLetter(j, s) == owed' = IF s = "failed" THEN j ELSE owed

-----------------------------------------------------------------------------
(* submitAndWait: the row is inserted, the loop poked, the promise made.   *)
SubmitAndWait(j) ==
  /\ phase = "up" /\ TurnOver
  /\ status[j] = "absent"
  /\ status' = [status EXCEPT ![j] = "queued"]
  /\ due' = [due EXCEPT ![j] = TRUE]
  /\ waiter' = [waiter EXCEPT ![j] = "waiting"]
  /\ Poke
  /\ UNCHANGED <<attempt_count, max_attempts, claimed_by, deadLetters, phase,
                 stale, active, worker, owed, executed, counters>>

(* cancelJob: a queued job is canceled at once; one in flight is marked,   *)
(* and the signal to its worker may or may not stop the call.              *)
CancelQueued(j) ==
  /\ phase = "up" /\ TurnOver
  /\ status[j] = "queued"
  /\ status' = [status EXCEPT ![j] = "canceled"]
  /\ claimed_by' = [claimed_by EXCEPT ![j] = "nobody"]
  /\ Notify(j, "canceled")
  /\ UNCHANGED <<attempt_count, max_attempts, due, deadLetters, phase, stale,
                 loop, owed, executed, counters>>

CancelInFlight(j) ==
  /\ phase = "up" /\ TurnOver
  /\ status[j] \in InFlight
  /\ status' = [status EXCEPT ![j] = "cancel_requested"]
  /\ UNCHANGED <<attempt_count, max_attempts, due, claimed_by, deadLetters,
                 phase, stale, loop, owed, waiter, executed, counters>>

(* requeueFailedJobWithOptions                                             *)
RequeueFailedJob(j, reset, budget) ==
  /\ phase = "up" /\ TurnOver
  /\ requeues[j] < MaxRequeues
  /\ status[j] = "failed"
  /\ reset \/ budget >= attempt_count[j]
  /\ status' = [status EXCEPT ![j] = "queued"]
  /\ attempt_count' = [attempt_count EXCEPT ![j] = IF reset THEN 0 ELSE @]
  /\ max_attempts' = [max_attempts EXCEPT ![j] = budget]
  /\ due' = [due EXCEPT ![j] = TRUE]
  /\ claimed_by' = [claimed_by EXCEPT ![j] = "nobody"]
  /\ requeues' = [requeues EXCEPT ![j] = @ + 1]
  /\ Notify(j, "queued")
  /\ Poke
  /\ UNCHANGED <<deadLetters, phase, stale, active, worker, owed, executed,
                 unsent, stops, faults>>

-----------------------------------------------------------------------------
(* processLoop: claimNextJob, then processClaimedJob up to its await.      *)
(* Among the jobs that are due the code takes the earliest; any is allowed.*)
ClaimNextJob(j) ==
  /\ phase = "up" /\ AtHead
  /\ status[j] = "queued" /\ due[j]
  /\ status' = [status EXCEPT ![j] = "running"]
  /\ attempt_count' = [attempt_count EXCEPT ![j] = @ + 1]
  /\ claimed_by' = [claimed_by EXCEPT ![j] = "this"]
  /\ active' = j
  /\ worker' = "asked"
  /\ UNCHANGED <<max_attempts, due, deadLetters, phase, stale, running, timer,
                 owed, waiter, executed, counters>>

(* processLoop with nothing to claim.                                      *)
LoopSleeps ==
  /\ phase = "up" /\ AtHead
  /\ ~ \E j \in Jobs : status[j] = "queued" /\ due[j]
  /\ running' = FALSE
  /\ ScheduleNextWake
  /\ UNCHANGED <<rows, deadLetters, phase, stale, active, worker, owed,
                 waiter, executed, counters>>

WakeTimerFires ==
  /\ phase = "up" /\ TurnOver
  /\ timer
  /\ Poke
  /\ UNCHANGED <<rows, deadLetters, phase, stale, active, worker, owed,
                 waiter, executed, counters>>

(* The next_attempt_at of a backed off job passes.                         *)
ComesDue(j) ==
  /\ status[j] = "queued" /\ ~due[j]
  /\ due' = [due EXCEPT ![j] = TRUE]
  /\ UNCHANGED <<status, attempt_count, max_attempts, claimed_by,
                 deadLetters, phase, stale, loop, owed, waiter, executed,
                 counters>>

(* The hosted worker makes the tool call.                                  *)
WorkerExecutes(j) ==
  /\ j = active /\ worker = "asked"
  /\ worker' = "executed"
  /\ executed' = executed \cup {j}
  /\ UNCHANGED <<rows, deadLetters, phase, stale, running, timer, active,
                 owed, waiter, counters>>

(* processClaimedJob, after the processor's promise: the row gets status s.*)
(* An open queue then goes back to its head, a closed one leaves the loop. *)
Settle(j, s) ==
  /\ status' = [status EXCEPT ![j] = s]
  /\ due' = [due EXCEPT ![j] = IF s = "queued" THEN FALSE ELSE @]
  /\ claimed_by' = [claimed_by EXCEPT ![j] = "nobody"]
  /\ Notify(j, s)
  /\ DeadLetter(j, s)
  /\ active' = NoJob
  /\ worker' = "idle"
  /\ running' = (phase = "up")
  /\ timer' = IF s = "queued" /\ phase = "up" THEN FALSE ELSE timer
  /\ UNCHANGED <<attempt_count, max_attempts, deadLetters, phase, stale,
                 executed, unsent, requeues, stops>>

(* The processor returned a verified result.                               *)
WorkSucceeds(j) ==
  /\ j = active /\ worker = "executed"
  /\ TurnOver
  /\ Settle(j, IF CancelWanted(j) THEN "canceled" ELSE "succeeded")
  /\ UNCHANGED faults

(* The processor threw, or (a fault) the write of its result did: then the *)
(* error, STORAGE_UNAVAILABLE, is a retryable one.                         *)
WorkFails(j, retryable, fault) ==
  /\ j = active /\ worker \in {"asked", "executed"}
  /\ TurnOver
  /\ fault => /\ worker = "executed" /\ retryable
              /\ faults < MaxFaults
  /\ Settle(j, IF CancelWanted(j) THEN "canceled"
               ELSE IF retryable /\ AttemptLeft(j) THEN "queued"
               ELSE "failed")
  /\ faults' = IF fault THEN faults + 1 ELSE faults

(* onTerminalFailure appends the event in the turn that failed the job.    *)
AppendDeadLetter ==
  /\ owed # NoJob
  /\ deadLetters' = [deadLetters EXCEPT ![owed] = @ + 1]
  /\ owed' = NoJob
  /\ UNCHANGED <<rows, phase, stale, loop, waiter, executed, counters>>

-----------------------------------------------------------------------------
(* close: the timer is cleared, every waiter rejected.                     *)
Close ==
  /\ phase = "up" /\ TurnOver
  /\ stops < MaxStops
  /\ phase' = "closing"
  /\ timer' = FALSE
  /\ waiter' = [j \in Jobs |-> IF waiter[j] = "waiting" THEN "closed"
                               ELSE waiter[j]]
  /\ UNCHANGED <<rows, deadLetters, stale, running, active, worker, owed,
                 executed, counters>>

(* The process ends: a crash, an exception that leaves the loop or start,  *)
(* or the exit after close.  A dead letter still owed is never written.    *)
Stop ==
  /\ phase # "down"
  /\ stops < MaxStops
  /\ stops' = stops + 1
  /\ phase' = "down"
  /\ stale' = {}
  /\ running' = FALSE
  /\ timer' = FALSE
  /\ active' = NoJob
  /\ worker' = "idle"
  /\ owed' = NoJob
  /\ unsent' = [j \in Jobs |-> IF j = owed THEN unsent[j] + 1 ELSE unsent[j]]
  /\ claimed_by' = [j \in Jobs |-> IF claimed_by[j] = "this" THEN "former"
                                   ELSE claimed_by[j]]
  /\ waiter' = [j \in Jobs |-> IF waiter[j] = "waiting" THEN "gone"
                               ELSE waiter[j]]
  /\ UNCHANGED <<status, attempt_count, max_attempts, due, deadLetters,
                 executed, requeues, faults>>

(* start: recoverStaleJobs takes the running jobs whose heartbeat is old.  *)
Restart(fresh) ==
  /\ phase = "down"
  /\ QuickRestarts \/ fresh = {}
  /\ phase' = "recovering"
  /\ stale' = {j \in Jobs : status[j] = "running"} \ fresh
  /\ UNCHANGED <<rows, deadLetters, loop, owed, waiter, executed, counters>>

RecoverStaleJob(j) ==
  /\ phase = "recovering" /\ owed = NoJob
  /\ j \in stale
  /\ stale' = stale \ {j}
  /\ status' = [status EXCEPT ![j] = RecoveredStatus(j)]
  /\ due' = [due EXCEPT ![j] = AttemptLeft(j) \/ @]
  /\ DeadLetter(j, RecoveredStatus(j))
  /\ claimed_by' = [claimed_by EXCEPT ![j] = "nobody"]
  /\ UNCHANGED <<attempt_count, max_attempts, deadLetters, phase, loop,
                 waiter, executed, counters>>

(* start: the poke after the recovery.                                     *)
Started ==
  /\ phase = "recovering" /\ owed = NoJob
  /\ stale = {}
  /\ phase' = "up"
  /\ Poke
  /\ UNCHANGED <<rows, deadLetters, stale, active, worker, owed, waiter,
                 executed, counters>>

-----------------------------------------------------------------------------
ClientStep ==
  \E j \in Jobs :
    \/ SubmitAndWait(j)
    \/ CancelQueued(j)
    \/ CancelInFlight(j)
    \/ \E reset \in BOOLEAN, budget \in Budgets \cup {max_attempts[j]} :
         RequeueFailedJob(j, reset, budget)

SettleStep ==
  \E j \in Jobs :
    \/ WorkSucceeds(j)
    \/ \E retryable, fault \in BOOLEAN : WorkFails(j, retryable, fault)

LoopStep ==
  \/ \E j \in Jobs : ClaimNextJob(j)
  \/ LoopSleeps
  \/ AppendDeadLetter

StartStep ==
  \/ \E fresh \in SUBSET {j \in Jobs : status[j] = "running"} :
       Restart(fresh)
  \/ \E j \in Jobs : RecoverStaleJob(j)
  \/ Started

Next ==
  \/ ClientStep
  \/ LoopStep
  \/ WakeTimerFires
  \/ \E j \in Jobs : ComesDue(j) \/ WorkerExecutes(j)
  \/ SettleStep
  \/ Close
  \/ Stop
  \/ StartStep

Spec == Init /\ [][Next]_vars

(* The thread runs its turns, timers fire, time passes, the call to the    *)
(* worker is answered or fails, a closed daemon exits and a stopped one is *)
(* started again.  Nothing makes a client act or the daemon stop.          *)
FairSpec ==
  /\ Spec
  /\ WF_vars(LoopStep)
  /\ WF_vars(WakeTimerFires)
  /\ \A j \in Jobs : WF_vars(ComesDue(j))
  /\ WF_vars(SettleStep)
  /\ WF_vars(phase = "closing" /\ Stop)
  /\ WF_vars(StartStep)

-----------------------------------------------------------------------------
(* Properties.                                                             *)

(* No lost wake-up: a loop that is asleep while a job is queued has armed  *)
(* the timer that will wake it.  (poke, processLoop, scheduleNextWake.)    *)
NoLostWakeup ==
  phase = "up" /\ ~running /\ (\E j \in Jobs : status[j] = "queued") => timer

(* No missed notification: no caller of submitAndWait waits on a job that  *)
(* has already ended, whoever ended it and when.                           *)
WaitersAreNotified ==
  \A j \in Jobs : waiter[j] = "waiting" => status[j] \notin Terminal

(* A caller got a result only for a job that succeeded, and a job succeeds *)
(* only when its tool call was made.                                       *)
ResultsAreReal ==
  \A j \in Jobs :
    /\ waiter[j] = "result" => status[j] = "succeeded"
    /\ status[j] = "succeeded" => j \in executed

(* The loop runs one job at a time: whatever this instance has claimed and *)
(* not yet settled is the job it is working on, and nobody changes that    *)
(* job's status behind its back except to ask for its cancellation.        *)
OneJobAtATime ==
  \A j \in Jobs :
    /\ claimed_by[j] = "this" => active = j
    /\ active = j => claimed_by[j] = "this" /\ status[j] \in InFlight

(* Retries and crash recovery together never exceed the attempts a job     *)
(* has; a requeue that keeps an exhausted count buys exactly one more.     *)
RetryBudgetKept ==
  \A j \in Jobs :
    /\ attempt_count[j] <= max_attempts[j] + 1
    /\ requeues[j] = 0 => attempt_count[j] <= max_attempts[j]

(* Every failure for good is dead-lettered once, in the loop and in the    *)
(* recovery at startup: never twice, never for a job that will be retried  *)
(* or was canceled, and never not at all, except where the process ended   *)
(* between the two writes of that failure.                                 *)
FailuresAreDeadLettered ==
  \A j \in Jobs :
    deadLetters[j] + unsent[j] =
      requeues[j] + (IF status[j] = "failed" /\ owed # j THEN 1 ELSE 0)

(* A cancellation once asked for is never lost to a late result, a retry,  *)
(* a heartbeat or a restart, and an end other than failure is final.       *)
CancellationsStick ==
  [][\A j \in Jobs :
       /\ status[j] = "cancel_requested" =>
            status'[j] \in {"cancel_requested", "canceled"}
       /\ status[j] \in {"canceled", "succeeded"} => status'[j] = status[j]]_vars

(* Every queued job is eventually claimed or canceled, across back-offs,   *)
(* sleeps of the loop and restarts.                                        *)
QueuedJobsAreClaimed ==
  \A j \in Jobs : status[j] = "queued" ~> status[j] # "queued"

(* Every caller of submitAndWait is answered, or dies with the daemon.     *)
WaitersAreAnswered ==
  \A j \in Jobs : waiter[j] = "waiting" ~> waiter[j] # "waiting"

(* What the recovery at startup is for: a job that was in flight when the  *)
(* daemon stopped does not stay so for ever.                               *)
InterruptedJobsSettle ==
  \A j \in Jobs : status[j] \in InFlight ~> status[j] \notin InFlight
=============================================================================
