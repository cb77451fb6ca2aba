# agentgit: TLA+ models, checks and proofs

agentgit puts a local *authority daemon* between an AI agent and the world. An
agent submits action attempts; the daemon normalises them, asks a policy,
captures a recovery boundary (a snapshot), executes the action through an
adapter, and records everything in a journal from which runs can be explained
and undone. Clients retry, operators approve, hosted jobs run on a worker
process, the daemon crashes and is restarted, and a cloud control plane sends
commands to a connector. The modules here model that control logic.

All source paths below are relative to `src/packages/` unless they start with
`src/`.

## The system

| Component | State it keeps | Operations | Talks to |
|---|---|---|---|
| Run journal (`run-journal`) | SQLite: runs, run events, approval requests, idempotent mutations, artifacts | append event, create/resolve approval, claim/complete/lock key, budget usage, retention | written by every handler, read by recovery, policy, timeline |
| Request dispatch (`authority-daemon/src/app/authority-service.ts`) | none but the journal | `handleRequest` around each method | socket, all handlers |
| Submit, approvals, execution (`handlers/submit-action.ts`, `app/handlers/approvals.ts`, `services/action-execution.ts`) | continuations of awaiting handlers | evaluate, ask, snapshot, verify, execute, record | policy, journal, snapshots, adapters, hosted queue |
| Startup and maintenance (`app/bootstrap.ts`, `authority-service.ts`) | - | recover interrupted actions and keys, retention, compaction | journal |
| Hosted queue (`hosted-execution-queue.ts`) | job rows in the registry; loop, timer, waiters in memory | submit and wait, cancel, requeue, claim, settle, recover, close | MCP registry, hosted worker, journal |
| Hosted worker (`hosted-mcp-worker`) | active executions | execute, cancel, attest | hosted queue over a socket |
| Policy engine (`policy-engine`) | rules, thresholds | evaluate | pure, reads budget usage |
| Snapshot engine, workspace index (`snapshot-engine`, `workspace-index`) | snapshots, layers, anchors | create, verify unchanged, restore, compact | submit, recovery |
| Recovery engine (`recovery-engine`) | - | plan, execute | snapshots, compensations |
| Execution adapters (`execution-adapters`) | MCP concurrency leases | preconditions, execute | the world |
| MCP registry, credential broker | servers, profiles, trust decisions, bindings, leases, secrets | lifecycle operations | queue, adapters |
| Control plane (`control-plane-state`, `src/apps/agentgit-cloud/.../connectors.ts`) | connectors, commands, events, receipts | queue, dispatch with leases, acknowledge, retry, ingest | connector over HTTP |
| Cloud connector (`cloud-connector`) | outbox, command receipts | publish, pull, execute, acknowledge | control plane, daemon |
| Runtime integration, SDKs, CLI, inspector, timeline, normaliser, schemas | client or derived state | setup, requests, projections | daemon |

What makes it hard:

- *Interleaving.* The daemon is one JavaScript thread: a handler runs alone up
  to its next `await`, where every other request may run. Approvals, retries,
  maintenance and executions meet there.
- *Crash and restart.* Each journal write is a transaction of its own, and the
  process may end between any two of them, or between an effect and its event.
- *Retries.* A client that saw no answer sends its request again under the same
  idempotency key; a hosted job is attempted up to four times; the control
  plane and the connector retry commands and batches.
- *Partial failure.* A full disk makes a write throw in a handler whose side
  effects have happened.
- *Wake-ups and waiting.* The queue sleeps on a timer and its clients on
  listeners; a missed poke or notification is a hang.

What makes each component correct:

- ledger: a key runs its request once; every answer for it is the recorded one;
  a key never stays in progress;
- execution: an effect is authorised, announced before it happens, behind the
  boundary it needs, reported as success only when done, and never lost by a
  crash; recovery flags what was interrupted, once, and nothing else;
- queue: no lost wake-up, no forgotten waiter, one job at a time, attempts
  within budget, cancellations final, failures dead-lettered once, nothing left
  in flight by a restart;
- control plane and connector: a command ends once, its completion is final,
  each event is ingested once and in order;
- snapshots: a restore gives back the captured bytes, compaction keeps every
  anchored snapshot, a baseline moves only by compare-and-swap.

The hazards behind these, each at its line, are listed under `hazards` in
`PROJECT.json`.

## Modules

| Module | Content |
|---|---|
| `KeyedMutation` | abstract: what an idempotency key promises |
| `IdempotencyLedger` | the `idempotent_mutations` table and its operations |
| `RunJournal` | events of actions, approvals, policy outcomes, what recovery and budgets read |
| `AuthorityDaemon` | dispatch, submit, approvals, execution, maintenance, faults, crash, startup; composes the two above; all daemon properties; refinement mapping to `KeyedMutation` |
| `AuthorityDaemonProofs` | type correctness and three safety theorems |
| `AuthorityDaemonJournalProofs` | seven safety theorems about effects, journal and recovery; two about what repairs a refuted property |
| `AuthorityDaemonRefinement` | `Spec => Promise!Spec` |
| `HostedExecutionQueue` | the queue of hosted MCP jobs |
| `HostedExecutionQueueProofs` | type correctness, the safety invariants and the action property |
| `CommandPromise` | abstract: what the control plane promises about a command |
| `CommandSync` | commands of the cloud: control plane and connector together; refinement mapping to `CommandPromise` |
| `CommandSyncProofs` | type correctness, four safety theorems, `Spec => Promise!Spec` |
| `EventOutbox` | events of the connectors: outboxes, batches, ingestion |
| `EventOutboxProofs` | type correctness and three safety theorems |
| `SnapshotLayers` | layered snapshots: capture, restore, garbage collection, compaction, rebasing |
| `SnapshotLayersProofs` | type correctness, three safety theorems, what a compaction takes |
| `SnapshotAnchorsProofs` | anchors stay recoverable, restores are exact |
| `MC...` | what TLC needs besides; the `.cfg` files give the instances |

### IdempotencyLedger and RunJournal

`ledger[k]` is the row of key `k`: state (`absent`, `pending`, `completed`,
`outcome_unknown`), the method and payload that used it, and the request whose
response is stored. `ClaimStatus` is what the claim transaction finds,
`InsertPending` what it writes; `CompleteMutation`, `MarkOutcomeUnknown` and
`ReconcilePending` are the three updates with exactly their WHERE clauses
(completion has none on the state, locking spares completed rows). One session
is modelled: the primary key is (session, key), so sessions do not meet.

`journal[a][e]` counts the events of type `e` of action `a`. Recovery and the
budget read only existence and number; the order inside an action is the order
of the daemon's steps. `execution.simulated`, which recovery accepts as an end,
is appended by no code and left out.

### AuthorityDaemon

A request `r` is a handler with a program counter. Sync stages (`dispatch`,
`asking`, `announcing`, `recording`, `reconciling`) hold the thread: `LoopFree`
keeps every other handler's continuation out until an `await` is reached, while
`Crash` and `StorageFault` may come between any two writes. The other stages
are awaits of `executeGovernedAction`:

| Stage | Waiting for | Code in `action-execution.ts` |
|---|---|---|
| `snapshotting` / `captured` | `createSnapshot` | 178-204 |
| `verifying` | `verifyTargetUnchanged` | 227-239 |
| `checking` | `verifyPreconditions` | 241-266 |
| `running` / `effected` | the adapter or the hosted queue, before and after its effect | 268-304 |
| `finishing` / `failing` | the end of `handleRequest` | `authority-service.ts` 2894-2950 |

The policy rules are abstracted to a free choice of the outcome (`\E v \in
Verdicts`), cut by the budget as `withBudgetEffects` does. "deny" stands for
every outcome that neither asks nor executes. `preimage[r]` is the target as
captured; `Target` is the set of effects on it so far. `held` and `executed`
are history: who claimed a key, and whose adapter changed the world.
The daemon reads neither. `outstanding` holds the calls whose work another
process does (a shell command, an MCP server, a hosted worker): the timeout of
the shell adapter rejects after a SIGTERM without waiting for the exit, that of
the MCP adapter only stops waiting, and a crash leaves the other process alone.
`LateEffect` is their effect after the daemon gave up on them, however late. An
effect is counted once per request; how often a hosted job is attempted is the
queue's matter (`RetryBudgetKept`). `Unlayered` are the attempts whose snapshot
may have no layered manifest; for them `verifyTargetUnchanged` compares nothing
(`snapshot-engine` 1198-1200).

`outcome = "lost"` is a client whose connection was closed, by itself or by the
end of the daemon. A crash keeps the durable variables and ends every handler;
`StartupActions` and `StartupKeys` are the two reconciliations run before the
daemon listens again.

`NoSilentExecution` counts executions, not actions: what started is at most the
events that end an action and the clients that were told it failed (`Ends`)
plus the handlers a crash cut off. The last term is there because recovery looks for *an* end of
an action. Where one approval is executed twice (disagreement 1) and a crash
cuts off the second execution after the first one completed, the second is
silent in the journal; that is a consequence of the disagreement, and the
first conjunct says that a crash never leaves an action without any end.
`UnknownIsTruthful` names two causes, a handler cut off and a handler that
failed: a precondition that is rejected behind a snapshot leaves no end in the
journal, and the next restart reports it.

### HostedExecutionQueue

Rows (`status`, `attempt_count`, `max_attempts`, `due`, `claimed_by`) are
durable; `running`, `timer`, `active`, `waiter` are the instance's memory.
Steps of one turn of the thread (settling a row, the loop reaching its head,
appending the dead letter) are separate actions so that the process may end
between two writes, and `TurnOver` keeps all other callbacks out of the turn.
`due` abstracts `next_attempt_at`; among due jobs the code takes the earliest
and the model any. A heartbeat only matters at a restart, as the set `fresh` of
running jobs whose heartbeat is not older than 2000 ms. `unsent` is history:
the letters that were owed when the process ended between the row and the
letter. `FailuresAreDeadLettered` is an equation over them, so a path that
failed a job without a letter, in the loop or in the recovery at startup, would
break it after a stop as well as before.

### CommandSync and CommandPromise

`row[c]` is a command row of the control plane
(`src/apps/agentgit-cloud/src/lib/backend/control-plane/connectors.ts`,
`control-plane-state`): its status, what is left of the lease, the retry window
and the expiry once they are compared with now, and the attempts as far as a
retry compares them. `Claimed` is what one pass of `claimDispatchableCommands`
makes of a row, in the code's order: expire first, whatever the status, then
lease. `Acknowledged` overwrites the status as the code does, whatever it was.

The connector (`cloud-connector`) is one process with a program counter along
`syncCycle` and `processCommands`: once a heartbeat and a publication have
succeeded (`Synchronize`), a batch is pulled, and each command in order of issue is
announced, executed, recorded in the durable receipts, reported, and, when it
completed, followed by a publication. `GiveUp` is a crash, a failed write or a
request without an answer; the request it waited for stays in `late` and
reaches the control plane later (`LateAck`) or never. `runs` and `cut` are
history: executions, and executions whose receipt was never written. A machine
whose publication fails for good (`stuck`: the ways are those of `EventOutbox`)
never comes to a pull again; an acknowledgement may be refused as well, when
the reason is its registration. The liveness of commands exempts it, as it does
a revoked one.

`CommandPromise` has no lease, request or crash: the machine decides the
outcome of a command once, and the control plane shows that outcome or none.
It may show a decided command as open or expired again, and the code does.

### EventOutbox

`outbox[m]` are the rows of a connector's outbox, `nextSequence[m]` its
counter; claiming a number and writing the row are two writes. `ingested` is
the control plane's store, keyed by an event id that is a hash of the fact
alone. `Stops` are the events `ingestConnectorEvents` throws at, `Appended`
what is stored before it does, `Accepted` whether the answer is a success; the
connector marks its rows only then. A registration gives the machine a new
connector id and leaves the outbox as it is.

A fact that `Happen`s may `Pass` before a cycle comes to it, unless it is one of
`Lasting`: the collectors read the present state. `trouble[m]` is what keeps a
machine from publishing although its outbox is in order: a registration that
expired or was revoked ("barred", until it registers again) and a file the
collectors throw at ("broken", until somebody mends it). The outbox itself is
`Stuck` in four ways, none of which the code gets out of: a pending event of a
former registration (403), one that another connector stored first under the
same id (`appendEvent` throws), more pending events than the schema of a batch admits, and a
body larger than the route accepts (413, `events/route.ts` 9, 21-24;
`WithinBody`). All pending events go as one batch or not at all, so one such
event stops them all. `FactsAreSubmitted` says that these and a fact that
passed are the only ways a fact is not submitted, once the machine's trouble is
over. "Hosted ingest should be idempotent on these IDs"
(`src/engineering-docs/support-architecture/07-sync-and-hosted-boundary.md:204`)
holds for batches sent again by the connector that stored them, which is what
`SubmittedIsIngested` needs; for a fact another machine has stored it does not,
and that is one of the four ways.

### SnapshotLayers

`layer[s]` is a row of the index database (`workspace-index`) with the files
that differ from its parent, `blob[s]` the snapshot's directory, `index` and
`revision` the baseline, `manifest[s]` the manifest in the directory, which
every restore reads first. A capture is a task with the revision it started from:
`Scan`, `StatAnchor`, `Copy` and `Commit` are the stretches between its awaits.
The anchor is looked at before anything is copied and copied last, so it may
change in between like any file between scan and copy; `Commit`
compares the revision. A capture of an action waits for the engine's lock, as
garbage collection does; a restore and the capture after it do not. A restore
plans (`PlanRestore`), applies (`ApplyRestore`) and is captured in turn.
Compaction clears the parent of the oldest snapshot it keeps and repoints
anchors (`StartCompaction`, or `BreakCompaction` when a write fails on the way)
and then removes the others one by one; a removal deletes the rows of the files
and the row of the snapshot in two transactions, and `StopCompaction` may fall
between them. Rebasing removes a copy and records its new source in two steps.

The abstract view is in the history `recorded[s]`, what the scan of a snapshot
saw, and in the anchor state of its row: `SnapshotsRecoverable` and
`RestoreIsExact` compare the layers with them. `harmed` holds the copies that
were lost or spoilt, each by a step of the model:

- a file edited between the scan that hashed it, or the look at the anchor, and
  the copy (the hash is not compared again): `Copy`;
- a disk that fills up when the manifest is rewritten after the commit, which
  removes the directory: `CommitUnwritten`;
- a garbage collection that is scoped to another workspace, or runs while a
  restore is being captured: `Collect`;
- a rebase that ends between its two steps, and a compaction that ends among
  its removals: `Crash`, `StopCompaction`;
- a removal that ends between its two deletes: the snapshot is still listed and
  has no rows of files, so a restore takes them from its parent (recorded as
  `<<s, NoPath>>`): `StopCompaction`;
- a rebase that races a compaction: `PersistAnchorSource`.

A copy made of a harmed copy is harmed. The properties exempt exactly those
copies and so say that nothing else suffers. A manifest is rewritten in place,
after a commit, by a rebase and by a compaction; a write that is cut off leaves
it torn, and a restore of that snapshot is refused until it is written anew.
That is no wrong restore, and `RestoreIsExact` is about those that are applied;
`ManifestsKept` says that a manifest is missing only with the whole directory.
A scan swallows the errors of walking, stating and reading (`Views`): it may
take a file for deleted or for unchanged. `recorded` is what it took, so the
properties compare with that; the same step stands for a file that an edit of
the ignore file has hidden.

The compaction that ends among its removals was found by proving: the invariant
of anchors could not be
carried through a crash amid a compaction. The removals go from the newest
doomed snapshot to the oldest. If the newest, which tracked the anchor's file,
is gone and an older one is left, the next rebase no longer sees the layer that
made the copies in between superfluous: it takes the left-over for the source
and removes the copy that a kept snapshot still borrows. That snapshot has no
copy until the same pass repoints it, and for good if the pass is cut too. The
same attempt made `AnchorsRecoverable` stronger: of the copy it exempts, only
the snapshot's own and its source's may be harmed.

Abstractions: the files of one step are taken at once (the properties speak of
each file on its own); the writes of a compaction up to its removals are one
step, cut off after any of them by `BreakCompaction`, and one compaction runs at
a time; `Tracked` is what the ignore file admits at all; two states of a file differ in size,
mode or modification time, which is what the scan compares.

## Runs

| Run | Instance | Result |
|---|---|---|
| `daemon_safety` | 3 requests, 1 key or none, 1 crash, submit and resolve of shell commands with late effects | 1,335,663 states; eight safety invariants hold |
| `daemon_recovery` | 2 requests, 1 key or none, 1 crash, 1 failed write, live maintenance, a file or a command, fairness | 404,018 states; type, reconciliation, refinement and liveness hold |
| `approval_race` | 3 requests, submit and resolve | violated: two resolutions execute one approval twice |
| `live_reconcile` | 2 requests, submit and maintenance | violated: live work is flagged as interrupted by a restart |
| `stale_preimage` | 2 submissions for one file | violated: the file changes between its check and the execution |
| `queue` | 2 jobs of 2 attempts, 1 stop, 1 failed commit, 1 requeue, fairness | 451,987 states; ten properties hold |
| `queue_restart` | 1 job, 1 stop | violated: a cancel_requested job stays in flight after a restart |
| `command_sync` | 2 commands, one retried automatically, 1 replay, 1 fault, revocation, a publication that fails for good, fairness | 586,994 states; type, truth of outcomes, executions, order, refinement and liveness hold |
| `command_replay` | 1 command, 1 replay, no fault | violated: a completed command expires and is accepted for replay |
| `outbox` | 2 machines that share a fact, 3 facts of which 1 may pass, batches of 2, bodies that do not hold two of them together, a second registration, 1 fault or trouble, fairness | 239,234 states; ingestion is a prefix, numbers do not clash, facts are submitted unless they passed or the outbox is stuck |
| `snapshots` | a tracked and an ignored file, 3 snapshots of which compaction keeps 1, 2 events, 1 fault | 2,782,079 states; baseline, chain, recoverability and restores hold |
| `snapshot_compaction` | 2 snapshots, compaction keeps 1 | violated: compaction takes the layers a kept snapshot restores from |

What the passing runs show, property by property, is stated above each
definition in the module of the component. Each has a faulty
variant (operators named `...Released`, `...NoFingerprint`, `...OffByOne` and
so on, beside the definitions they replace) under which TLC finds it violated
in the same instance.

### The disagreements

1. *An approval can be executed twice.* `resolveApproval` leaves a resolved
   request as it is and `handleResolveApproval` executes whenever the status it
   reads back is `approved`. Any further `resolve_approval` that is not a
   replay of the same key, even a denial, executes again. The audit plan says
   approvals cannot be raced.
2. *Maintenance takes live work for crashed work.* The
   `startup_reconcile_recoveries` job may be requested from a serving daemon and
   records "Daemon restarted ..." for actions in execution. The keys it locks
   are repaired by the completion, which overwrites `outcome_unknown`; the
   journal event stays.
3. *The stale-state check is not at the execution.* Preconditions and the
   adapter are awaited after the check, and another request may write the file.
4. *Restart recovery of hosted jobs is partial.* Only `running` jobs with an
   old heartbeat are recovered: a `cancel_requested` job, or a job whose daemon
   came back within two seconds, is not looked at again. In the `queue` run
   such jobs exist (`QuickRestarts`), which is why `InterruptedJobsSettle` is
   not among its properties; `queue_restart` excludes the quick restart to show
   that the cancelled job alone suffices.
5. *A completed command can be replayed.* The dispatch loop turns every row
   past its expiry into an expired one before it looks at the status, and an
   expired command may be replayed. The control plane's own test says that a
   completed command is refused. The connector's receipt keeps the command from
   being executed again, which `command_sync` shows (`ExecutedOncePerReceipt`).
   There is a second route without the expiry: a late `acked` of an earlier
   attempt turns the completed row back into an acknowledged one, whose lease
   runs out. `CompletionsAreFinal` shows that there is no third.
6. *Compaction takes what a kept snapshot restores from.* The proposal flattens
   the removed layers into one; the code only clears the parent of the oldest
   kept snapshot. A kept snapshot then has no copy of a file that last changed
   in a removed layer, and its restore removes the file. This is why the
   recoverability of files is stated for chains that were not cut (`CutOff`).
7. *A replay of a failed command executes nothing.* The control plane tells the
   operator "Replay is safe because the command failed before a durable result
   was recorded."
   (`src/apps/agentgit-cloud/src/lib/backend/control-plane/connectors.ts:290`).
   It is the other way round: a row says failed only after the connector wrote
   the failure to its durable receipts (`OutcomesAreTrue`), and a receipt is
   reported again, whatever the attempt (`cloud-connector` 1602). A replay, and
   the automatic retry of a failed command, are safe for that reason, and run
   nothing: `ExecutedOncePerReceipt` says so for every retry and replay. It is
   a passing property, since what it shows is what the code does; the text is
   what is wrong, and an operator who relies on it waits for a second attempt
   that never comes. Six of the seven have a run of their own in which the
   claim is violated; this one is visible in `command_sync`.

### Bounds

`MaxCrashes`, `MaxFaults` (daemon); `MaxStops`, `MaxFaults`, `MaxRequeues`
(queue), `MaxReplays`, `MaxFaults` (commands), `MaxRegistrations`, `MaxFaults`
(outbox), `MaxSnapshots`, `MaxEvents`, `MaxFaults` (snapshots). They bound
environment events only, and stand in the guards of the
actions they bound. Three requests are a submission, one resolution of its
approval and a competitor (a second resolution, or a retry under the key): a
race between two handlers about a third one's action. A request is sent once;
a retry is another request with the same `call`. One crash and one fault
suffice to cut each handler at each write, and a crash may hit the startup as
well as a handler. `MaxMutating = 1` makes the budget both open and spent. Two
jobs make one wait while the other runs; two attempts give a first failure that is retried and a
last one that is not; a requeue keeps or resets the count and gives a budget
of 1 or 2. The requests of `daemon_safety` and `approval_race` are
interchangeable and the runs have only invariants, so they use symmetry.

`RetryDelays` is 1 instead of 3: a first failure with and a second without a
delay left. Two commands make an order and a batch that is cut after one of
them; one fault is a crash or a lost answer at each point of both loops, and
its request may come late at any time after. A machine gets stuck at any point,
once. In `outbox` the batch limit of 2
stands for 1000: three pending facts exceed it; `NotBothLarge` makes two facts
too large for one body (`WithinBody`), so that the limit of 413 is met below
the limit of the batch. One machine registers a second time and one fact is
seen by both, so that each of the four ways an outbox gets stuck (`Stuck`)
happens. The one fault is a crash, a lost answer, an expired registration or a
broken file; the last is mended any time later, or never. One fact may pass,
two last.
`KeepLast` is 1 instead of 20, so that two snapshots suffice for a compaction
and three for one that cuts a chain of two. `MaxEvents` counts edits, restores,
maintenance and rebases together, `MaxFaults` full disks, torn manifests,
unreadable files, removals that fail and crashes. Two events and a fault make
every pair race that is named above: an edit inside a capture, a restore during
a collection, a rebase during a compaction. Longer sequences (a left-over of a
compaction taken for a copy by the next rebase, say) are the proofs' matter,
which bound nothing. `Uniform` starts the workspace with every file there or
none. Contents are
interchangeable, and symmetry over them is sound: no formula names one and the
run has no liveness.

`CHECK_DEADLOCK FALSE` is given for the queue, which rests when its jobs are
done and its counters spent, and likewise for `CommandSync`, `EventOutbox` and
`SnapshotLayers`, whose environment has then used up its bounds. The daemon's
end, with all requests answered, is
the explicit stutter `Quiet`, so that deadlock is checked there.

### Fairness

Daemon: `WF(Continue(r))` for each request, and `WF(Startup)`. An awaited
promise (snapshot engine, adapter, hosted queue) settles and the event loop
runs its continuation: shell commands, MCP calls and worker requests have
timeouts. A daemon that went down is started again, which is assumed of its
user. No fairness for clients, crashes, failing writes or late effects.
`Continue(r)` includes failing, so nothing assumes success.

Queue: the loop's steps, the timer, the passing of time for each backed-off
job, the settlement of the call to the worker (it answers or fails), the exit
after close and the start after a stop. No fairness for clients, nor that a
call succeeds.

Commands and outbox: the connector's loop polls for ever and, after an error,
backs off and polls again (`CloudConnectorDaemon`), so each of its steps is
weakly fair; leases run out and retry windows come due with time. Nothing makes
an operator act, a command expire, a late request arrive, a machine register or
somebody mend a file. A cycle pulls commands only after its publication, so the
pull is not fair by itself: `Synchronize`, the heartbeat and the publication, is
fair only on a machine whose publications succeed, and a machine where they do
not for good is `stuck`. That this happens is what `EventOutbox` shows, and so
`CommandsSettle` exempts connectors that are revoked or stuck;
`FactsAreSubmitted` exempts outboxes that are `Stuck` for good and speaks of
machines whose trouble has ended. No liveness is stated of snapshots: their tasks either
commit or fail, and a failed one is not tried again.

## Proofs

All theorems are for arbitrary constants: any requests, keys, attempts, jobs
and bounds, from the named assumptions (`LedgerAssumption`, `DaemonAssumption`,
`CallAssumption`, `QueueAssumption`), which say that the null values are not
members and that bounds are naturals; `CommandSyncAssumption`,
`EventOutboxAssumption` and `SnapshotLayersAssumption` say the same of their
modules.

- `TypeCorrect`: `TypeOK` of the daemon, one lemma per operator (`GotoType`,
  `ReplyType`, `LedgerType`, ...), then one step per action.
- `KeysRunOnce`, `RepliesAreRecorded`: neither property is inductive. `KeyInv`
  adds who may hold a row (`HolderHasRow`, `OneHolder`, `RowHasHolder`), that
  whoever works or has had an effect under a key holds it (`WorkerHolds`), that
  a stored response is from a finished holder (`ResultIsFinal`), and that
  nothing happened to a request not yet received (`Untouched`). `KeyMove`
  covers the many steps that move a handler without touching keys; claim,
  answer, crash and startup have lemmas of their own.
- `EffectsAreAuthorized`: `AuthorityInv` says approvals exist only for actions
  the policy asked about, each stage fits its method and decision, and every
  handler in an execution stage, like every effect, has its permission; a
  resolution cannot be taken back because `ResolvedStatus` keeps what is
  resolved.
- `DaemonKeepsPromise`: initial states map to initial states and each step to a
  step of `KeyedMutation` or a stutter. `Receive` maps to `Begin` or `Replay`,
  `ApplyEffect` and `LateEffect` to `Apply`, `AnswerOk` to `Publish`, locking a key and both
  reconciliations to `Lose`. It needs `KeyInv` and `EffectIsLast` (an effect
  comes once to a request, and one that is still to come finds the row of its
  key open: only `AnswerOk` completes a row, after the effect).
- Queue: `TypeOK`, then `QueueInv`, a conjunction of `NoLostWakeup`,
  `ActiveInv`, `StaleInv`, `WaiterInv`, `ResultInv`, `BudgetInv` and
  `LetterInv`, each a checked property with what makes it inductive. For
  instance the budget needs that a queued job has an attempt left unless it was
  requeued, and the equation of dead letters that a letter is owed only for a
  job that failed. `CancellationsAreKept` proves the action property from
  the same invariant.

- The seven theorems of `AuthorityDaemonJournalProofs` cover the other safety
  properties of the daemon. `DaemonInv` adds `JournalInv`: the daemon at rest
  has no handler in work (`DownIsQuiet`); the handlers that have started, or
  have captured, are no more than the events of their action
  (`StartsAreAnnounced`, `StartsHaveBoundary`; that these sets are finite is
  part of the invariant, since nothing says there are finitely many clients); an
  action without an end in the journal has a handler at work or a client that
  was told (`OpenIsAttended`); its starts are no more than
  the events that end it and its handlers at work, failed or cut off (`StartsAreSettled`); a
  success stands behind a completed execution (`SuccessIsReal`); a stage
  remembers what was done before it (`StagesRemember`). `FlagsAreTruthful`
  assumes that no client asks for maintenance: with it `UnknownIsTruthful` is
  refuted by `live_reconcile`.
- `CommandSyncProofs`: everything follows the receipt. `PlaceInv` says what the
  connector's place in its loop implies for the receipt of its command; with it
  statuses, late requests and the count of executions are inductive.
  `IssueOrderIsKept` needs `OrderInv`: while nothing fails and nothing is
  replayed, a lease that runs belongs to the batch or to a command that is over
  (`LeasesHeld`), so a pull leaves out only what is over (`BatchIsPrefix`).
  `CommandSyncKeepsPromise` is the refinement.
- `EventOutboxProofs`: the numbers of one machine are distinct and below its
  counter, also while a number is claimed and has no row (`NumberInv`); a batch,
  in flight or late, leaves out no earlier row but submitted ones (`BatchInv`);
  what the store has of a connector is in its outbox under the same number
  (`StoredInv`). With these, prefix and submission are inductive.
- `SnapshotLayersProofs`: a capture that is still current has seen the
  difference to the index and has the newest snapshot for a parent; a stale one
  is refused by the comparison of revisions (`CaptureOk`). From it
  `CommittedInv` (baseline), `LayerInv` and `RemovingInv` (chain) and `FilesInv`
  (what a layer says, and what its parent recorded otherwise) are inductive.
  `Supplier` is a recursive function over parents: that it exists, that the
  newest and the oldest of a set of snapshots exist, and that every file is
  found along the parents are inductions done through least elements of sets of
  numbers (`LeastNumber`), which the prover accepts where an induction scheme
  over an operator is out of its reach.
- `SnapshotAnchorsProofs`: an anchor is copied once, shared by the snapshots
  that have the same one, and moved about by rebases and compactions, so its
  invariant relates snapshots to each other. `OrderInv`: directories are
  numbered in the order of revisions. `TailInv`: what a compaction has still to
  remove are the oldest snapshots, and the oldest kept one has no parent.
  `BorrowOk`: a source is the snapshot itself or an older one with the same
  anchor. `BackedOk`: a snapshot that no layer supplies has its copy at its
  source, or the source is being rebased, or the loss is known. That a rebase
  never removes the copy somebody else borrows needs more: the source of a
  borrower is `Firm` (its layer says what the file is, or no copy of the anchor
  comes before it in the pass, `Calm`, but for copies that a compaction in
  progress is about to remove, `Passing`), and a snapshot that outlives its
  source is known to have lost its copy (`LeavingOk`). `AnchorSource` is a
  recursive function along the pass over the snapshots; `AnchorSourceFound`
  says what it finds, again by least elements. TLC checked the invariant on an
  instance of four snapshots before it was proved. `AnchorsStayRecoverable` and
  `SnapshotsStayRecoverable` follow, and with `FilesRecoverable` so does
  `RestoresAreExact`: each file of a scope is supplied by a layer, is the
  anchor, or is said nothing of, one lemma for each.
- `CompactionCutsSuppliers` (in `SnapshotLayersProofs`): the walk from a kept
  snapshot ends where it did, or nowhere if that layer is removed. Removed
  layers are supplied by removed layers (`RemovedSuppliers`) and only the oldest
  kept snapshot loses its parent (`OnlyOldestIsCut`).

Five theorems say what repairs a refuted property; their hypotheses are about
the environment or about the step at fault, and the code does not establish
them.

| Refuted | Theorem | Hypothesis |
|---|---|---|
| `ApprovalRunsOnce` (1) | `KeyedApprovalsRunOnce` | all resolutions of an approval carry one idempotency key |
| `UnknownIsTruthful` (2) | `FlagsAreTruthful` | nobody asks for maintenance of a serving daemon |
| `FreshPreimage` (3) | `SoleWritersAreFresh` | its snapshot is layered, and from its comparison to its effect a file action has its target to itself |
| `CompletedIsNotReplayed` (5) | `CompletionsAreFinal` | the expiry of a completed command does not pass, no acknowledgement of an earlier attempt is on its way |
| `CompactionKeepsRestores` (6) | `FlatteningKeepsRestores` | no kept snapshot reads a file from a layer that goes |

The first needs that an effect of an approved action belongs to a resolution
(`ApprovedByResolution`), so that `KeysRunOnce` applies. In the third, states
with two guarded effects are reachable under the hypothesis. Disagreement 4 is
a matter of liveness and has no theorem.

Only model-checked: the six liveness properties of the passing runs
(`EveryRequestEnds`, `PendingKeysSettle`, `QueuedJobsAreClaimed`,
`WaitersAreAnswered`, `CommandsSettle`, `FactsAreSubmitted`) and the refuted
`InterruptedJobsSettle`: they rest on fairness, whose ENABLED is beyond the
prover. Every other property of every run is stated by a theorem.

## Not modelled

The policy's rules, the normaliser and the adapters are nondeterministic
choices inside `AuthorityDaemon`. Sessions, authorisation of socket peers,
framing and latency metrics do not influence the properties. Read-only handlers
(timeline, helper, listings) change nothing. Timeline, schemas, SDKs, CLI and
inspector are projections or clients. Of the snapshots, previews, statistics,
integrity checks and the formats without layers are left out; of the control
plane, registration tokens, heartbeats, audit entries and the web application;
of the connector, what a command does to the repository.

The models cover the control logic and not most of the lines: the bulk of this
repository is schemas and validators, display projections, command-line
formatting, translation of tool payloads, adapters around file system and
processes, and the pages and routes of the web application. They have no state
that interleaves, and a model of them would restate them.

Parts with state of their own that are not modelled yet are in the plan.

## Plan

1. `ConcurrencyLease` (`execution-adapters`): acquisition, heartbeat, expiry
   and release by several processes; active calls never exceed the limit while
   leases are kept.
2. `ServerProfile` (`mcp-registry` and its handlers): candidate, trust
   decision, binding, activation, quarantine, revocation.
3. `HostedWorker`: active executions keyed by job, composed with the queue's
   re-queueing after a restart.
4. Policy decisions as operators against a reference definition; checkpoints
   of runs on top of `SnapshotLayers`.
5. Proofs about the modules above, and of `CommandPromise` and `KeyedMutation`
   themselves: what their promises imply for a client that sees only answers.

## Running

`tlc -config MCAuthorityDaemonSafety.cfg MCAuthorityDaemon` and likewise for
the other configurations; `tlapm AuthorityDaemonProofs.tla` and likewise for
the other modules whose name ends in `Proofs` or `Refinement`. The longest runs
are `snapshots`, `outbox` (about two minutes each) and `daemon_recovery` (over
one and a half); the longest proof
is `SnapshotAnchorsProofs`, then `SnapshotLayersProofs` (some minutes each).
