---------------------------- MODULE CommandSync ----------------------------
(***************************************************************************)
(* Commands the cloud sends to a connector: rows of the control plane, the *)
(* pull and acknowledge endpoints (apps/agentgit-cloud), and the sync loop *)
(* of one connector process (packages/cloud-connector) with its durable    *)
(* command receipts.                                                       *)
(*                                                                         *)
(* A handler of the control plane has no await, so it is one action, cut   *)
(* short only when the server stops.  The connector waits for the answer   *)
(* of each request before it goes on: a request it gave up on may still be *)
(* on its way, and reaches the control plane late or never.  Every call    *)
(* has a fresh requestId, so the receipts the control plane keeps of       *)
(* requests are never met again and are left out.  Messages, results and   *)
(* timestamps are left out; a lease, a retry window and an expiry are what *)
(* is left of a timestamp once it is compared with now.                    *)
(***************************************************************************)
EXTENDS Naturals

CONSTANTS Commands,      (* commands of one connector                      *)
          NoCommand,
          AutoRetried,   (* those of a type that is retried automatically  *)
          RetryDelays,   (* length of AUTOMATIC_RETRY_DELAYS_MINUTES (3)   *)
          MaxReplays,    (* bound: retries an operator asks for            *)
          MaxFaults      (* bound: crashes and lost answers                *)

ASSUME CommandSyncAssumption ==
  /\ NoCommand \notin Commands
  /\ AutoRetried \subseteq Commands
  /\ RetryDelays \in Nat
  /\ MaxReplays \in Nat
  /\ MaxFaults \in Nat

VARIABLES
  row,          (* the command rows of the control plane                   *)
  issuedAt,     (* when a command was queued; 0: it was not                *)
  now,          (* the last time a command was queued at                   *)
  revoked,      (* the connector's tokens are revoked                      *)
  stuck,        (* no publication of the machine succeeds any more         *)
  pc,           (* where the connector is in its cycle                     *)
  batch,        (* commands pulled and not finished, the current included  *)
  current,      (* the command it works on                                 *)
  result,       (* of the command executed in this pass, in memory         *)
  receipt,      (* command receipts in the connector's state store         *)
  late,         (* acknowledgements it gave up on, still on their way      *)
  runs,         (* executions of a command (history)                       *)
  cut,          (* executions whose receipt was never written (history)    *)
  accepted,     (* commands once recorded as completed (history)           *)
  replays, faults

cloud == <<row, issuedAt, now, revoked, stuck, accepted>>
process == <<pc, batch, current, result>>
history == <<runs, cut>>
counters == <<replays, faults>>
vars == <<cloud, process, receipt, late, history, counters>>

Statuses == {"absent", "pending", "acked", "completed", "failed", "expired"}
Outcomes == {"completed", "failed"}
Acks == {"acked"} \cup Outcomes

(* attempts stops at RetryDelays + 1: beyond the last delay it is compared *)
(* with nothing.                                                           *)
Rows == [status : Statuses,
         lease : {"none", "active", "over"},
         attempts : 0..RetryDelays + 1,
         next : {"none", "waiting", "due"},
         overdue : BOOLEAN]

AbsentRow == [status |-> "absent", lease |-> "none", attempts |-> 0,
              next |-> "none", overdue |-> FALSE]

TypeOK ==
  /\ row \in [Commands -> Rows]
  /\ issuedAt \in [Commands -> Nat]
  /\ now \in Nat
  /\ revoked \in BOOLEAN
  /\ stuck \in BOOLEAN
  /\ pc \in {"idle", "pulling", "announcing", "executing", "recording",
             "reporting", "publishing"}
  /\ batch \subseteq Commands
  /\ IF pc \in {"idle", "pulling"} THEN batch = {} ELSE current \in batch
  /\ current \in Commands \cup {NoCommand}
  /\ result \in {"none"} \cup Outcomes
  /\ receipt \in [Commands -> {"none"} \cup Outcomes]
  /\ late \in [Commands -> [Acks -> Nat]]
  /\ runs \in [Commands -> Nat]
  /\ cut \in [Commands -> Nat]
  /\ accepted \subseteq Commands
  /\ replays \in 0..MaxReplays
  /\ faults \in 0..MaxFaults

Init ==
  /\ row = [c \in Commands |-> AbsentRow]
  /\ issuedAt = [c \in Commands |-> 0]
  /\ now = 0
  /\ revoked = FALSE
  /\ stuck = FALSE
  /\ pc = "idle"
  /\ batch = {}
  /\ current = NoCommand
  /\ result = "none"
  /\ receipt = [c \in Commands |-> "none"]
  /\ late = [c \in Commands |-> [s \in Acks |-> 0]]
  /\ runs = [c \in Commands |-> 0]
  /\ cut = [c \in Commands |-> 0]
  /\ accepted = {}
  /\ replays = 0
  /\ faults = 0

-----------------------------------------------------------------------------
(* Faulty variants, each used to show that a property can fail.            *)

(* A lease that ran out is not reclaimed.                                  *)
DispatchableUnleased(r) ==
  /\ r.status \notin {"absent", "completed"}
  /\ ~r.overdue
  /\ r.status \in {"failed", "expired"} => r.next = "due"
  /\ r.status \in {"pending", "acked"} => r.lease = "none"

(* The batch is processed in any order.                                    *)
AnyOf(S) == S

(* The batch is left as it was when a request fails.                       *)
BatchKept ==
  /\ pc' = "idle"
  /\ result' = "none"
  /\ UNCHANGED <<batch, current>>

-----------------------------------------------------------------------------
(* The control plane.                                                      *)

(* claimDispatchableCommands: what makes a row dispatchable.               *)
Dispatchable(r) ==
  /\ r.status \notin {"absent", "completed"}
  /\ ~r.overdue
  /\ r.status \in {"failed", "expired"} => r.next = "due"
  /\ r.status \in {"pending", "acked"} => r.lease # "active"

Attempt(n) == IF n > RetryDelays THEN n ELSE n + 1

(* The row after the dispatch loop: a row past its expiry expires whatever *)
(* its status, a dispatchable one is leased.                               *)
Claimed(r) ==
  CASE r.status # "absent" /\ r.overdue ->
         [r EXCEPT !.status = "expired", !.lease = "none"]
    [] Dispatchable(r) ->
         [r EXCEPT !.status = "pending", !.lease = "active", !.next = "none",
                   !.attempts = Attempt(@)]
    [] OTHER -> r

(* The claimed rows when the loop got as far as the rows in S.             *)
ClaimIn(S) ==
  row' = [c \in Commands |-> IF c \in S THEN Claimed(row[c]) ELSE row[c]]

(* An acknowledgement that only repeats what the row already says.         *)
Repeats(r, s) ==
  \/ s = "completed" /\ r.status = s
  \/ s = "failed" /\ r.status = s /\ r.next = "none"

RetryScheduled(c) == c \in AutoRetried /\ row[c].attempts \in 1..RetryDelays

(* acknowledgeConnectorCommand: the status is overwritten whatever it was; *)
(* scheduleCommandRetry renews the expiry of a command it schedules.       *)
Acknowledged(c, s) ==
  LET r == [row[c] EXCEPT !.status = s, !.next = "none",
                          !.lease = IF s = "acked" THEN "active" ELSE "none"]
  IN IF Repeats(row[c], s) THEN row[c]
     ELSE IF s = "failed" /\ RetryScheduled(c)
          THEN [r EXCEPT !.next = "waiting", !.overdue = FALSE]
          ELSE r

Acknowledge(c, s) ==
  /\ ~revoked
  /\ row' = [row EXCEPT ![c] = Acknowledged(c, s)]
  /\ accepted' = IF s = "completed" THEN accepted \cup {c} ELSE accepted
  /\ UNCHANGED <<issuedAt, now, revoked, stuck>>

-----------------------------------------------------------------------------
(* Operators of the web application, and time.                             *)

(* queueConnectorCommand: refused for a connector that is not active.      *)
Queue(c) ==
  /\ ~revoked
  /\ row[c].status = "absent"
  /\ row' = [row EXCEPT ![c].status = "pending"]
  /\ now' = now + 1
  /\ issuedAt' = [issuedAt EXCEPT ![c] = now']
  /\ UNCHANGED <<revoked, stuck, accepted, process, receipt, late, history,
                 counters>>

(* retryConnectorCommand and retryCommand: an operator replays a command   *)
(* that failed, expired, or whose lease ran out; its expiry is renewed.    *)
Replayable(r) ==
  \/ r.status \in {"failed", "expired"}
  \/ r.status \in {"pending", "acked"} /\ r.lease = "over"

Replay(c) ==
  /\ replays < MaxReplays
  /\ Replayable(row[c])
  /\ row' = [row EXCEPT ![c].status = "pending", ![c].lease = "none",
                        ![c].next = "none", ![c].overdue = FALSE]
  /\ replays' = replays + 1
  /\ UNCHANGED <<issuedAt, now, revoked, stuck, accepted, process, receipt,
                 late, history, faults>>

(* revokeWorkspaceConnector: every token of the connector is refused.      *)
Revoke ==
  /\ ~revoked
  /\ revoked' = TRUE
  /\ UNCHANGED <<row, issuedAt, now, stuck, accepted, process, receipt, late,
                 history, counters>>

LeaseRunsOut(c) ==
  /\ row[c].lease = "active"
  /\ row' = [row EXCEPT ![c].lease = "over"]
  /\ UNCHANGED <<issuedAt, now, revoked, stuck, accepted, process, receipt,
                 late, history, counters>>

RetryComesDue(c) ==
  /\ row[c].next = "waiting"
  /\ row' = [row EXCEPT ![c].next = "due"]
  /\ UNCHANGED <<issuedAt, now, revoked, stuck, accepted, process, receipt,
                 late, history, counters>>

(* The day a command is given ends.                                        *)
ExpiryPasses(c) ==
  /\ row[c].status # "absent"
  /\ ~row[c].overdue
  /\ row' = [row EXCEPT ![c].overdue = TRUE]
  /\ UNCHANGED <<issuedAt, now, revoked, stuck, accepted, process, receipt,
                 late, history, counters>>

-----------------------------------------------------------------------------
(* The connector: syncCycle and processCommands.                           *)

Oldest(S) == {c \in S : \A d \in S : issuedAt[c] <= issuedAt[d]}

(* Faulty: the receipt of a command is not looked up.                      *)
GoOnWithoutReceipts(S) ==
  /\ batch' = S
  /\ result' = "none"
  /\ IF S = {} THEN pc' = "idle" /\ UNCHANGED current
     ELSE \E c \in Oldest(S) : current' = c /\ pc' = "announcing"

(* The loop goes on with the commands in S, oldest first: a command with a *)
(* receipt is only reported, any other is announced and executed.          *)
GoOn(S) ==
  /\ batch' = S
  /\ result' = "none"
  /\ IF S = {} THEN pc' = "idle" /\ UNCHANGED current
     ELSE \E c \in Oldest(S) :
            /\ current' = c
            /\ pc' = IF receipt[c] = "none" THEN "announcing" ELSE "reporting"

(* An await rejects: the rest of the batch is left to its leases.          *)
DropBatch ==
  /\ batch' = {}
  /\ pc' = "idle"
  /\ result' = "none"
  /\ UNCHANGED current

Fault == faults < MaxFaults /\ faults' = faults + 1

(* No publication succeeds any more: a batch of the outbox is refused      *)
(* whenever it is sent, a file is too large or broken to be collected, the *)
(* registration has expired (EventOutbox).  What fails for a while only is *)
(* a cycle that has not begun, or a fault.                                 *)
Stick ==
  /\ ~stuck
  /\ stuck' = TRUE
  /\ UNCHANGED <<row, issuedAt, now, revoked, accepted, process, receipt, late,
                 history, counters>>

(* The heartbeat and the publication a cycle begins with succeed: only     *)
(* then are commands pulled.                                               *)
Synchronize ==
  /\ pc = "idle" /\ ~revoked /\ ~stuck
  /\ pc' = "pulling"
  /\ UNCHANGED <<cloud, batch, current, result, receipt, late, history,
                 counters>>

Pull ==
  /\ pc = "pulling" /\ ~revoked
  /\ ClaimIn(Commands)
  /\ GoOn({c \in Commands : Dispatchable(row[c])})
  /\ UNCHANGED <<issuedAt, now, revoked, stuck, accepted, receipt, late,
                 history, counters>>

(* The answer of a pull is lost, or the server stops among the rows.       *)
PullUnanswered ==
  /\ pc = "pulling" /\ ~revoked
  /\ Fault
  /\ \E c \in Commands :
       ClaimIn({d \in Commands : issuedAt[d] <= issuedAt[c]})
  /\ DropBatch
  /\ UNCHANGED <<issuedAt, now, revoked, stuck, accepted, receipt, late,
                 history, replays>>

(* Faulty: a command is reported as completed when it is received.         *)
AnnounceCompletion ==
  /\ pc = "announcing"
  /\ Acknowledge(current, "completed")
  /\ pc' = "executing"
  /\ UNCHANGED <<batch, current, result, receipt, late, history, counters>>

(* The control plane has recorded "acked".                                 *)
Announce ==
  /\ pc = "announcing"
  /\ Acknowledge(current, "acked")
  /\ pc' = "executing"
  /\ UNCHANGED <<batch, current, result, receipt, late, history, counters>>

(* executeCommand: an exception is a failure.                              *)
Execute(o) ==
  /\ pc = "executing"
  /\ runs' = [runs EXCEPT ![current] = @ + 1]
  /\ result' = o
  /\ pc' = "recording"
  /\ UNCHANGED <<cloud, batch, current, receipt, late, cut, counters>>

SaveReceipt ==
  /\ pc = "recording"
  /\ receipt' = [receipt EXCEPT ![current] = result]
  /\ pc' = "reporting"
  /\ UNCHANGED <<cloud, batch, current, result, late, history, counters>>

(* The final status is recorded.  A command executed in this pass and      *)
(* completed is followed by a publication of the local state.              *)
Report ==
  /\ pc = "reporting"
  /\ Acknowledge(current, receipt[current])
  /\ IF result = "completed"
     THEN pc' = "publishing" /\ UNCHANGED <<batch, current, result>>
     ELSE GoOn(batch \ {current})
  /\ UNCHANGED <<receipt, late, history, counters>>

Publish ==
  /\ pc = "publishing" /\ ~stuck
  /\ GoOn(batch \ {current})
  /\ UNCHANGED <<cloud, receipt, late, history, counters>>

(* 401: the connector was revoked.  A publication that cannot succeed and  *)
(* an expired registration end the cycle as well; only the second refuses  *)
(* a pull or an acknowledgement, and the model leaves open which it is.    *)
Refused ==
  /\ revoked \/ stuck
  /\ pc \in {"pulling", "announcing", "reporting", "publishing"}
  /\ DropBatch
  /\ UNCHANGED <<cloud, receipt, late, history, counters>>

Requested == IF pc = "announcing" THEN "acked" ELSE receipt[current]

(* The connector crashes, a write of its store fails, or a request gets no *)
(* answer.  The request it waited for may still be on its way; an          *)
(* execution without a receipt is forgotten.                               *)
GiveUp ==
  /\ pc # "idle"
  /\ Fault
  /\ DropBatch
  /\ late' = IF pc \in {"announcing", "reporting"}
             THEN [late EXCEPT ![current][Requested] = @ + 1] ELSE late
  /\ cut' = IF pc = "recording" THEN [cut EXCEPT ![current] = @ + 1] ELSE cut
  /\ UNCHANGED <<cloud, receipt, runs, replays>>

(* The server stops between the status and the schedule of a retry.        *)
AckCutShort ==
  /\ pc = "reporting" /\ ~revoked
  /\ Fault
  /\ receipt[current] = "failed" /\ RetryScheduled(current)
  /\ row' = [row EXCEPT ![current].status = "failed",
                        ![current].lease = "none", ![current].next = "none"]
  /\ DropBatch
  /\ UNCHANGED <<issuedAt, now, revoked, stuck, accepted, receipt, late,
                 history, replays>>

LateAck(c, s) ==
  /\ late[c][s] > 0
  /\ late' = [late EXCEPT ![c][s] = @ - 1]
  /\ Acknowledge(c, s)
  /\ UNCHANGED <<process, receipt, history, counters>>

LateAckLost(c, s) ==
  /\ late[c][s] > 0
  /\ late' = [late EXCEPT ![c][s] = @ - 1]
  /\ UNCHANGED <<cloud, process, receipt, history, counters>>

-----------------------------------------------------------------------------
Next ==
  \/ \E c \in Commands :
       \/ Queue(c) \/ Replay(c)
       \/ LeaseRunsOut(c) \/ RetryComesDue(c) \/ ExpiryPasses(c)
       \/ \E s \in Acks : LateAck(c, s) \/ LateAckLost(c, s)
  \/ \E o \in Outcomes : Execute(o)
  \/ Revoke \/ Stick \/ Synchronize \/ Pull \/ PullUnanswered \/ Announce
  \/ SaveReceipt \/ Report \/ Publish \/ Refused \/ GiveUp \/ AckCutShort

Spec == Init /\ [][Next]_vars

(* The connector's loop begins a cycle again and again, and one of them    *)
(* publishes what it has to, unless the machine is stuck; and time passes. *)
(* Nothing makes an operator act, a command expire or a late request       *)
(* arrive.                                                                 *)
Fairness ==
  /\ WF_vars(Synchronize) /\ WF_vars(Pull) /\ WF_vars(Announce)
  /\ WF_vars(\E o \in Outcomes : Execute(o)) /\ WF_vars(SaveReceipt)
  /\ WF_vars(Report) /\ WF_vars(Publish) /\ WF_vars(Refused)
  /\ \A c \in Commands : WF_vars(LeaseRunsOut(c)) /\ WF_vars(RetryComesDue(c))

FairSpec == Spec /\ Fairness

-----------------------------------------------------------------------------
(* Properties.                                                             *)

(* The control plane never shows an outcome the machine did not reach: a   *)
(* row that says completed or failed agrees with the connector's receipt,  *)
(* and so does every acknowledgement still on its way.                     *)
OutcomesAreTrue ==
  \A c \in Commands :
    /\ row[c].status \in Outcomes => receipt[c] = row[c].status
    /\ \A s \in Outcomes : late[c][s] > 0 => receipt[c] = s

(* A command is executed once, and once more only for each execution that  *)
(* was cut before its receipt: neither redelivery after a lease, nor a     *)
(* scheduled retry, nor an operator's replay executes it again.  So a      *)
(* failed command is never tried anew: the text an operator reads before a *)
(* replay, "the command failed before a durable result was recorded", is   *)
(* wrong, for a row says failed only when its receipt does                 *)
(* (OutcomesAreTrue), and all a replay does is report that receipt again.  *)
ExecutedOncePerReceipt ==
  \A c \in Commands :
    runs[c] = cut[c] + (IF \/ receipt[c] # "none"
                           \/ pc = "recording" /\ current = c
                        THEN 1 ELSE 0)

(* As long as nothing fails and nothing is replayed, commands execute in   *)
(* the order they were queued in, whatever leases run out meanwhile.       *)
InIssueOrder ==
  pc = "executing" /\ faults = 0 /\ replays = 0 =>
    \A c \in Commands :
      issuedAt[c] \in 1..issuedAt[current] - 1 =>
        receipt[c] # "none" \/ row[c].status = "expired"

Shown == [c \in Commands |-> IF row[c].status \in Outcomes \cup {"expired"}
                             THEN row[c].status ELSE "open"]

Promise == INSTANCE CommandPromise WITH outcome <- receipt, shown <- Shown

(* CommandSync implements CommandPromise: the outcome of a command is      *)
(* decided once, and only that outcome is ever shown.                      *)
KeepsPromise == Promise!Spec

Settled(c) ==
  \/ row[c].status \in {"completed", "expired"}
  \/ row[c].status = "failed" /\ row[c].next = "none"

(* Every queued command settles, unless the connector is revoked or stuck: *)
(* across lost answers, crashes, expired leases, late acknowledgements and *)
(* scheduled retries.  A machine that cannot publish never pulls again.    *)
CommandsSettle ==
  \A c \in Commands :
    row[c].status # "absent" ~> (Settled(c) \/ revoked \/ stuck)

(* What retryConnectorCommand is tested for: an operator cannot replay a   *)
(* command the control plane recorded as completed.                        *)
CompletedIsNotReplayed ==
  [][\A c \in accepted : ~Replay(c)]_vars
=============================================================================
