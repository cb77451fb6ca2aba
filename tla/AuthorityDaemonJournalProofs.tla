-------------------- MODULE AuthorityDaemonJournalProofs --------------------
(***************************************************************************)
(* Theorems about what the journal of AuthorityDaemon and its clients are  *)
(* told of executions: effects are announced and have their boundaries,    *)
(* a success was executed, nothing ends in silence, and reconciliation     *)
(* flags an action once; for any number of requests, keys, crashes and     *)
(* refused writes.                                                         *)
(***************************************************************************)
EXTENDS AuthorityDaemonProofs, FiniteSetTheorems

(* A count of requests stays below a count of events, when fewer are       *)
(* counted, or one more of each.                                           *)
Within(S, n) == IsFiniteSet(S) /\ Cardinality(S) <= n

LEMMA CountKept ==
  ASSUME NEW S, NEW T, T \subseteq S, NEW n \in Nat, NEW m \in Nat, n <= m,
         Within(S, n)
  PROVE  Within(T, m)
  <1>1. IsFiniteSet(T) /\ Cardinality(T) <= Cardinality(S)
    BY FS_Subset DEF Within
  <1>2. Cardinality(T) \in Nat /\ Cardinality(S) \in Nat /\ Cardinality(S) <= n
    BY <1>1, FS_CardinalityType DEF Within
  <1> QED BY <1>1, <1>2 DEF Within

LEMMA CountAdded ==
  ASSUME NEW S, NEW T, NEW x, T \subseteq S \cup {x},
         NEW n \in Nat, NEW m \in Nat, m = n + 1, Within(S, n)
  PROVE  Within(T, m)
  <1>1. /\ IsFiniteSet(S \cup {x})
        /\ \/ Cardinality(S \cup {x}) = Cardinality(S)
           \/ Cardinality(S \cup {x}) = Cardinality(S) + 1
    BY FS_AddElement DEF Within
  <1>2. Cardinality(S) \in Nat /\ Cardinality(S) <= n
    BY FS_CardinalityType DEF Within
  <1>3. Within(S \cup {x}, m)
    BY <1>1, <1>2 DEF Within
  <1> QED BY <1>3, CountKept

LEMMA CountNothing == Within({}, 0)
  BY FS_EmptySet DEF Within

-----------------------------------------------------------------------------
(* The invariants.                                                         *)

(* A daemon that is not up works on nothing.                               *)
DownIsQuiet == daemon # "up" => \A r \in Requests : ~Live(r)

(* The requests that an execution.started event of action a stands for:    *)
(* their adapters run, ran, or may still have their effect.                *)
Started(a) ==
  {r \in Requests : ActionOf(r) = a /\ (Ran(r) \/ pc[r] = "running")}

StartsAreAnnounced ==
  \A a \in Requests : Within(Started(a), journal[a]["execution.started"])

(* The requests that went past the boundary an action needs.               *)
PastBoundary(r) == Ran(r) \/ pc[r] \in {"verifying", "checking", "running"}

Protected(a) == {r \in Requests : ActionOf(r) = a /\ PastBoundary(r)}

StartsHaveBoundary ==
  \A a \in Requests :
    verdict[a].snapshot => Within(Protected(a), journal[a]["snapshot.created"])

(* An execution without an end in the journal.                             *)
Open(a) ==
  /\ journal[a]["execution.started"] > 0
  /\ TerminalEvents(a) = 0
  /\ journal[a]["execution.outcome_unknown"] = 0

(* Somebody works on it, or told a client that it failed.                  *)
Attended(a) ==
  \E r \in Requests :
    /\ ActionOf(r) = a
    /\ pc[r] \in {"running", "effected", "failing"} \/ outcome[r] = "failed"

OpenIsAttended ==
  /\ daemon = "up" => \A a \in Requests : Open(a) => Attended(a)
  /\ daemon = "recovered" => \A a \in Requests : ~Open(a)

(* The requests on an action that may stand for an execution without an    *)
(* event of its end: at work, failed, or cut off.                          *)
Unsettled(a) ==
  {r \in Requests :
     /\ ActionOf(r) = a
     /\ \/ pc[r] \in {"running", "effected", "failing"}
        \/ outcome[r] \in {"failed", "lost"}}

Received == {r \in Requests : pc[r] # "idle"}

StartsAreSettled ==
  /\ IsFiniteSet(Received)
  /\ \A a \in Requests :
       journal[a]["execution.started"] <=
         TerminalEvents(a) + Cardinality(Unsettled(a))

(* A request that is about to be answered with success, or was: its client *)
(* or the row of its key has its result.                                   *)
ReportedOk(x) ==
  \/ \E r \in Requests : outcome[r] = "ok" /\ answer[r] = x
  \/ \E k \in Keys : ledger[k].state = "completed" /\ ledger[k].response = x

Succeeds(x) == pc[x] = "finishing" \/ ReportedOk(x)

DoneAsClaimed(x) ==
  ClaimsExecution(x) =>
    x \in executed /\ journal[ActionOf(x)]["execution.completed"] > 0

(* What it claims cannot change any more: an approval it resolved stays.   *)
ClaimSettled(x) ==
  Is(x, "resolve_approval") =>
    approval[call[x].approval] \in {"approved", "denied"}

SuccessIsReal ==
  /\ \A x \in Requests : Succeeds(x) => ClaimSettled(x) /\ DoneAsClaimed(x)
  /\ \A x \in Requests : ReportedOk(x) => pc[x] = "done"
  /\ \A r \in Requests : outcome[r] = "ok" => answer[r] \in Requests

(* Stages know what their handlers did before.                             *)
StagesRemember ==
  \A x \in Requests :
    /\ pc[x] = "effected" => x \in executed
    /\ pc[x] = "reconciling" => Is(x, "run_maintenance")
    /\ pc[x] = "recording" => ClaimSettled(x)

JournalInv ==
  /\ DownIsQuiet /\ StartsAreAnnounced /\ StartsHaveBoundary
  /\ OpenIsAttended /\ StartsAreSettled /\ SuccessIsReal /\ StagesRemember
  /\ ReconciledOnce /\ InProgressIsTrue

DaemonInv == TypeOK /\ KeyInv /\ AuthorityInv /\ JournalInv

-----------------------------------------------------------------------------
(* What single steps do.                                                   *)

(* A received request keeps its method and its action.                     *)
LEMMA ActionsKept ==
  ASSUME TypeOK, [Next]_vars, NEW q \in Requests, pc[q] # "idle"
  PROVE  /\ call'[q] = call[q]
         /\ ActionOf(q)' = ActionOf(q)
         /\ \A m : Is(q, m)' <=> Is(q, m)
  <1>1. call'[q] = call[q]
    <2>1. ASSUME NEW r \in Requests, NEW c \in Calls, Receive(r, c)
          PROVE  call'[q] = call[q]
      BY <2>1 DEF Receive, TypeOK
    <2>2. ASSUME NEW r \in Requests,
                 Continue(r) \/ StorageFault(r) \/ LateEffect(r)
          PROVE  call'[q] = call[q]
      <3>1. CASE Continue(r) /\ ~AnswerOk(r) /\ ~AnswerError(r)
        BY <3>1, HandlerMoves
      <3> QED BY <2>2, <3>1, FaultMoves DEF AnswerOk, AnswerError, LateEffect
    <2>3. CASE Crash \/ Startup \/ UNCHANGED vars
      BY <2>3 DEF Crash, Startup, StartupActions, StartupKeys, vars
    <2> QED BY <2>1, <2>2, <2>3 DEF Next, Quiet
  <1> QED BY <1>1 DEF ActionOf, Is

(* What a handler's step leaves to the others, and where it may go.        *)
LEMMA ContinueShape ==
  ASSUME TypeOK, NEW r \in Requests, Continue(r)
  PROVE  /\ Live(r)
         /\ UNCHANGED <<call, held, daemon, crashes, faults>>
         /\ \A q \in Requests \ {r} :
              /\ pc'[q] = pc[q]
              /\ outcome'[q] = outcome[q]
              /\ answer'[q] = answer[q]
         /\ pc'[r] \in LiveStages \cup {"done"}
         /\ pc'[r] = "done" <=> AnswerOk(r) \/ AnswerError(r)
  <1>1. CASE AnswerOk(r) \/ AnswerError(r)
    BY <1>1, Names
    DEF AnswerOk, AnswerError, Finished, Reply, Goto, Live, TypeOK
  <1>2. CASE ~AnswerOk(r) /\ ~AnswerError(r)
    <2>1. /\ Live(r) /\ UNCHANGED <<call, held, outcome, answer>>
          /\ \E s \in LiveStages : Goto(r, s)
      BY <1>2, HandlerMoves
    <2>2. UNCHANGED <<daemon, crashes, faults>>
      BY <1>2
      DEF Continue, EvaluatePolicy, CreateApproval, AnnounceApproval,
          ResolveApproval, RecordResolution, MaintainActions, MaintainKeys,
          CaptureSnapshot, RecordSnapshot, VerifyTarget, PreflightFails,
          StartExecution, ApplyEffect, CompleteExecution, FailExecution
    <2> QED BY <1>2, <2>1, <2>2, Names DEF Goto, TypeOK
  <1> QED BY <1>1, <1>2

(* So for a refused write.                                                 *)
LEMMA FaultShape ==
  ASSUME TypeOK, NEW r \in Requests, StorageFault(r)
  PROVE  /\ Live(r)
         /\ daemon = "up"
         /\ faults' > 0
         /\ UNCHANGED <<ledger, approval, verdict, call, held, executed,
                        outstanding, daemon>>
         /\ \A q \in Requests \ {r} :
              /\ pc'[q] = pc[q]
              /\ outcome'[q] = outcome[q]
              /\ answer'[q] = answer[q]
         /\ \/ pc'[r] = "failing" /\ outcome'[r] = outcome[r]
            \/ pc'[r] = "done" /\ outcome'[r] = "failed"
         /\ answer'[r] \in {answer[r], NoRequest}
  <1>1. /\ daemon = "up" /\ UNCHANGED daemon /\ faults' = faults + 1
    BY DEF StorageFault
  <1>2. faults' > 0
    BY <1>1, DaemonAssumption DEF TypeOK
  <1> QED BY <1>1, <1>2, FaultMoves DEF Reply, Goto, TypeOK

(* A client's request is answered at once or dispatched.                   *)
LEMMA ReceiveShape ==
  ASSUME TypeOK, KeyInv, NEW r \in Requests, NEW c \in Calls, Receive(r, c)
  PROVE  /\ pc[r] = "idle" /\ ~Ran(r) /\ ~held[r] /\ daemon = "up"
         /\ UNCHANGED <<journal, approval, verdict, executed, outstanding,
                        daemon, faults>>
         /\ \A q \in Requests \ {r} :
              /\ pc'[q] = pc[q]
              /\ outcome'[q] = outcome[q]
              /\ answer'[q] = answer[q]
              /\ held'[q] = held[q]
         /\ pc'[r] \in {"dispatch", "done"}
         /\ outcome'[r] = "ok" =>
              /\ c.key \in Keys
              /\ ledger[c.key].state = "completed"
              /\ answer'[r] = ledger[c.key].response
  <1>1. /\ pc[r] = "idle" /\ ~Ran(r) /\ ~held[r] /\ outcome[r] = "none"
    BY DEF Receive, KeyInv, Untouched
  <1>2. /\ daemon = "up"
        /\ UNCHANGED <<journal, approval, verdict, executed, outstanding,
                       daemon, faults>>
    BY DEF Receive, LoopFree
  <1>3. /\ \A q \in Requests \ {r} :
             /\ pc'[q] = pc[q]
             /\ outcome'[q] = outcome[q]
             /\ answer'[q] = answer[q]
             /\ held'[q] = held[q]
        /\ pc'[r] \in {"dispatch", "done"}
    BY DEF Receive, Reply, Goto, TypeOK
  <1>4. outcome'[r] = "ok" =>
          /\ c.key \in Keys
          /\ ledger[c.key].state = "completed"
          /\ answer'[r] = ledger[c.key].response
    BY <1>1, ClaimStatusFacts DEF Receive, Reply, TypeOK
  <1> QED BY <1>1, <1>2, <1>3, <1>4

(* A crash ends every handler without an answer.                           *)
LEMMA CrashShape ==
  ASSUME TypeOK, Crash
  PROVE  /\ daemon' = "down"
         /\ UNCHANGED <<ledger, approval, verdict, call, held, executed,
                        outstanding, answer>>
         /\ \A q \in Requests :
              /\ ~Live(q)'
              /\ pc'[q] = pc[q] \/ (Live(q) /\ pc'[q] = "done")
              /\ outcome'[q] = outcome[q] \/ (Live(q) /\ outcome'[q] = "lost")
  BY Names DEF Crash, TypeOK, Live

(* How the journal grows: by an event of a handler, or by the flags of a   *)
(* reconciliation.                                                         *)
HandlerEvents == EventTypes \ {"execution.outcome_unknown"}

LEMMA JournalMoves ==
  ASSUME TypeOK, [Next]_vars
  PROVE  \/ UNCHANGED journal
         \/ \E a \in Requests, e \in HandlerEvents : AppendRunEvent(a, e)
         \/ \E done : RecoverInterrupted(done)
  <1>1. ASSUME NEW r \in Requests, Continue(r)
        PROVE  \/ UNCHANGED journal
               \/ \E a \in Requests, e \in HandlerEvents : AppendRunEvent(a, e)
               \/ \E done : RecoverInterrupted(done)
    <2>1. ActionOf(r) \in Requests
      BY ActionOfType
    <2>2. {"approval.requested", "approval.resolved", "snapshot.created",
           "execution.started", "execution.completed", "execution.failed"}
            \subseteq HandlerEvents
      BY DEF HandlerEvents, EventTypes
    <2>3. CASE \/ AnnounceApproval(r) \/ RecordResolution(r)
               \/ RecordSnapshot(r) \/ StartExecution(r)
               \/ CompleteExecution(r) \/ FailExecution(r)
      BY <2>1, <2>2, <2>3
      DEF AnnounceApproval, RecordResolution, RecordSnapshot, StartExecution,
          CompleteExecution, FailExecution, FailureEvent
    <2>4. CASE MaintainActions(r)
      BY <2>4 DEF MaintainActions
    <2>5. CASE \/ EvaluatePolicy(r) \/ CreateApproval(r) \/ ResolveApproval(r)
               \/ MaintainKeys(r) \/ CaptureSnapshot(r) \/ VerifyTarget(r)
               \/ PreflightFails(r) \/ ApplyEffect(r)
               \/ AnswerOk(r) \/ AnswerError(r)
      BY <2>5
      DEF EvaluatePolicy, CreateApproval, ResolveApproval, MaintainKeys,
          CaptureSnapshot, VerifyTarget, PreflightFails, ApplyEffect, AnswerOk,
          AnswerError, durable
    <2> QED BY <1>1, <2>3, <2>4, <2>5 DEF Continue
  <1>2. ASSUME NEW r \in Requests, StorageFault(r)
        PROVE  UNCHANGED journal \/ \E done : RecoverInterrupted(done)
    BY <1>2 DEF StorageFault, PartlyRecovered
  <1>3. ASSUME NEW r \in Requests, NEW c \in Calls, Receive(r, c)
        PROVE  UNCHANGED journal
    BY <1>3 DEF Receive
  <1>4. CASE Crash \/ Startup
    BY <1>4 DEF Crash, PartlyRecovered, Startup, StartupActions, StartupKeys
  <1>5. ASSUME NEW r \in Requests, LateEffect(r) PROVE UNCHANGED journal
    BY <1>5 DEF LateEffect
  <1>6. CASE UNCHANGED vars
    BY <1>6 DEF vars, durable
  <1> QED BY <1>1, <1>2, <1>3, <1>4, <1>5, <1>6 DEF Next, Quiet

(* No event is ever taken out of it, and a flag is set on top of another   *)
(* one never.                                                              *)
LEMMA JournalGrows ==
  ASSUME TypeOK, [Next]_vars, NEW a \in Requests
  PROVE  /\ \A e \in EventTypes : /\ journal[a][e] \in Nat
                                  /\ journal'[a][e] \in Nat
                                  /\ journal[a][e] <= journal'[a][e]
         /\ \/ journal'[a]["execution.outcome_unknown"] =
                  journal[a]["execution.outcome_unknown"]
            \/ journal'[a]["execution.outcome_unknown"] = 1
  <1>1. journal \in [Requests -> [EventTypes -> Nat]]
    BY DEF TypeOK, JournalTypeOK
  <1>2. CASE UNCHANGED journal
    BY <1>1, <1>2
  <1>3. ASSUME NEW b \in Requests, NEW e \in HandlerEvents,
               AppendRunEvent(b, e)
        PROVE  /\ \A f \in EventTypes : /\ journal[a][f] \in Nat
                                        /\ journal'[a][f] \in Nat
                                        /\ journal[a][f] <= journal'[a][f]
               /\ journal'[a]["execution.outcome_unknown"] =
                    journal[a]["execution.outcome_unknown"]
    BY <1>1, <1>3, Names DEF AppendRunEvent, HandlerEvents
  <1>4. ASSUME NEW done, RecoverInterrupted(done)
        PROVE  /\ \A f \in EventTypes : /\ journal[a][f] \in Nat
                                        /\ journal'[a][f] \in Nat
                                        /\ journal[a][f] <= journal'[a][f]
               /\ \/ journal'[a]["execution.outcome_unknown"] =
                        journal[a]["execution.outcome_unknown"]
                  \/ journal'[a]["execution.outcome_unknown"] = 1
    <2>1. CASE a \in done /\ Interrupted(a)
      <3>1. /\ journal[a]["execution.outcome_unknown"] = 0
            /\ journal'[a] = [journal[a] EXCEPT !["execution.outcome_unknown"] =
                                @ + 1]
        BY <1>4, <2>1 DEF RecoverInterrupted, Interrupted
      <3> QED BY <1>1, <3>1, Names
    <2>2. CASE ~(a \in done /\ Interrupted(a))
      BY <1>1, <1>4, <2>2 DEF RecoverInterrupted
    <2> QED BY <2>1, <2>2
  <1> QED BY <1>2, <1>3, <1>4, JournalMoves

(* Whoever may have an effect after a step could before, or is started by  *)
(* this step.                                                              *)
LEMMA RunsKept ==
  ASSUME TypeOK, KeyInv, [Next]_vars, NEW q \in Requests,
         Ran(q)' \/ pc'[q] = "running"
  PROVE  Ran(q) \/ pc[q] = "running" \/ StartExecution(q)
  <1>1. ASSUME NEW r \in Requests, Continue(r)
        PROVE  Ran(q) \/ pc[q] = "running" \/ StartExecution(q)
    <2>1. CASE StartExecution(r)
      BY <2>1 DEF StartExecution, Goto, TypeOK, Ran
    <2>2. CASE ApplyEffect(r)
      BY <2>2 DEF ApplyEffect, CanApply, Goto, TypeOK, Ran
    <2>3. CASE ~StartExecution(r) /\ ~ApplyEffect(r)
      <3>1. UNCHANGED <<executed, outstanding>>
        BY <1>1, <2>3
        DEF Continue, EvaluatePolicy, CreateApproval, AnnounceApproval,
            ResolveApproval, RecordResolution, MaintainActions, MaintainKeys,
            CaptureSnapshot, RecordSnapshot, VerifyTarget, PreflightFails,
            CompleteExecution, FailExecution, AnswerOk, AnswerError, durable
      <3>2. \E s : pc' = [pc EXCEPT ![r] = s] /\ s # "running"
        BY <1>1, <2>3
        DEF Continue, EvaluatePolicy, CreateApproval, AnnounceApproval,
            ResolveApproval, RecordResolution, MaintainActions, MaintainKeys,
            CaptureSnapshot, RecordSnapshot, VerifyTarget, PreflightFails,
            CompleteExecution, FailExecution, AnswerOk, AnswerError, Goto,
            Reply, FirstAwait
      <3> QED BY <3>1, <3>2 DEF Ran, TypeOK
    <2> QED BY <2>1, <2>2, <2>3
  <1>2. ASSUME NEW r \in Requests, StorageFault(r)
        PROVE  Ran(q) \/ pc[q] = "running"
    BY <1>2, FaultShape DEF Ran
  <1>3. ASSUME NEW r \in Requests, NEW c \in Calls, Receive(r, c)
        PROVE  Ran(q) \/ pc[q] = "running"
    BY <1>3, ReceiveShape DEF Ran
  <1>4. ASSUME NEW r \in Requests, LateEffect(r)
        PROVE  Ran(q) \/ pc[q] = "running"
    BY <1>4 DEF LateEffect, Ran
  <1>5. CASE Crash
    BY <1>5, CrashShape DEF Ran
  <1>6. CASE Startup \/ UNCHANGED vars
    BY <1>6 DEF Startup, StartupActions, StartupKeys, vars, durable, Ran
  <1> QED BY <1>1, <1>2, <1>3, <1>4, <1>5, <1>6 DEF Next, Quiet

-----------------------------------------------------------------------------
(* The steps of the invariants.                                            *)

LEMMA QuietStep ==
  ASSUME TypeOK, KeyInv, DownIsQuiet, [Next]_vars PROVE DownIsQuiet'
  <1>1. ASSUME NEW r \in Requests, Continue(r) PROVE DownIsQuiet'
    BY <1>1, ContinueShape DEF DownIsQuiet
  <1>2. ASSUME NEW r \in Requests, StorageFault(r) PROVE DownIsQuiet'
    BY <1>2, FaultShape DEF DownIsQuiet
  <1>3. ASSUME NEW r \in Requests, NEW c \in Calls, Receive(r, c)
        PROVE  DownIsQuiet'
    BY <1>3, ReceiveShape DEF DownIsQuiet
  <1>4. CASE Crash
    BY <1>4, CrashShape DEF DownIsQuiet
  <1>5. CASE Startup \/ (\E r \in Requests : LateEffect(r)) \/ UNCHANGED vars
    BY <1>5 DEF Startup, StartupActions, StartupKeys, LateEffect, vars,
                DownIsQuiet, Live
  <1> QED BY <1>1, <1>2, <1>3, <1>4, <1>5 DEF Next, Quiet

LEMMA ReconcileStep ==
  ASSUME TypeOK, ReconciledOnce, [Next]_vars PROVE ReconciledOnce'
  <1> SUFFICES ASSUME NEW a \in Requests
               PROVE  journal'[a]["execution.outcome_unknown"] <= 1
    BY DEF ReconciledOnce
  <1>1. journal[a]["execution.outcome_unknown"] <= 1
    BY DEF ReconciledOnce
  <1> QED BY <1>1, JournalGrows, Names

LEMMA AnnouncedStep ==
  ASSUME TypeOK, KeyInv, StartsAreAnnounced, [Next]_vars
  PROVE  StartsAreAnnounced'
  <1> SUFFICES ASSUME NEW a \in Requests
               PROVE  Within(Started(a)', journal'[a]["execution.started"])
    BY DEF StartsAreAnnounced, Within
  <1> DEFINE n == journal[a]["execution.started"]
             m == journal'[a]["execution.started"]
  <1>1. n \in Nat /\ m \in Nat /\ n <= m
    BY JournalGrows, Names
  <1>2. Within(Started(a), n)
    BY DEF StartsAreAnnounced
  <1>3. \A q \in Started(a)' : q \in Started(a) \/ StartExecution(q)
    <2> SUFFICES ASSUME NEW q \in Requests, ActionOf(q)' = a,
                        Ran(q)' \/ pc'[q] = "running", ~StartExecution(q)
                 PROVE  ActionOf(q) = a /\ (Ran(q) \/ pc[q] = "running")
      BY DEF Started
    <2>1. Ran(q) \/ pc[q] = "running"
      BY RunsKept
    <2>2. pc[q] # "idle"
      BY <2>1 DEF KeyInv, Untouched
    <2> QED BY <2>1, <2>2, ActionsKept
  <1>4. CASE Started(a)' \subseteq Started(a)
    BY <1>1, <1>2, <1>4, CountKept
  <1>5. ASSUME NEW q \in Started(a)', StartExecution(q)
        PROVE  Within(Started(a)', m)
    <2>1. q \in Requests /\ ActionOf(q)' = a
      BY DEF Started
    <2>2. /\ pc[q] = "checking" /\ pc' = [pc EXCEPT ![q] = "running"]
          /\ AppendRunEvent(ActionOf(q), "execution.started")
      BY <1>5 DEF StartExecution, Goto
    <2>3. ActionOf(q) = a
      BY <2>1, <2>2, ActionsKept
    <2>4. m = n + 1
      BY <2>2, <2>3, Names DEF AppendRunEvent, TypeOK, JournalTypeOK
    <2>5. \A r \in Requests : StartExecution(r) => r = q
      BY <2>1, <2>2 DEF StartExecution, Goto, TypeOK
    <2>6. Started(a)' \subseteq Requests
      BY DEF Started
    <2>7. Started(a)' \subseteq Started(a) \cup {q}
      BY <1>3, <2>5, <2>6
    <2> QED BY <1>1, <1>2, <2>4, <2>7, CountAdded
  <1> QED BY <1>3, <1>4, <1>5

(* Who passes the boundary stage: an action without one goes on at once,   *)
(* and one with a boundary has it recorded.                                *)
LEMMA PassingBoundary ==
  ASSUME TypeOK, KeyInv, [Next]_vars, NEW q \in Requests, PastBoundary(q)'
  PROVE  \/ PastBoundary(q)
         \/ RecordSnapshot(q)
         \/ pc'[q] = "checking" /\ EvaluatePolicy(q)
         \/ pc'[q] = "checking" /\ RecordResolution(q)
  <1>1. CASE Ran(q)' \/ pc'[q] = "running"
    BY <1>1, RunsKept DEF PastBoundary, StartExecution
  <1>2. CASE pc'[q] \in {"verifying", "checking"}
    <2>1. ASSUME NEW r \in Requests, Continue(r)
          PROVE  \/ PastBoundary(q)
                 \/ RecordSnapshot(q)
                 \/ pc'[q] = "checking" /\ EvaluatePolicy(q)
                 \/ pc'[q] = "checking" /\ RecordResolution(q)
      <3>1. CASE q # r
        BY <1>2, <2>1, <3>1, ContinueShape DEF PastBoundary
      <3>2. CASE q = r
        <4>1. pc'[r] \in {"verifying", "checking"}
          BY <1>2, <3>2
        <4>2. \/ RecordSnapshot(r) \/ VerifyTarget(r)
              \/ pc'[r] = "checking" /\ (EvaluatePolicy(r) \/ RecordResolution(r))
          BY <2>1, <4>1
          DEF Continue, EvaluatePolicy, CreateApproval, AnnounceApproval,
              ResolveApproval, RecordResolution, MaintainActions, MaintainKeys,
              CaptureSnapshot, RecordSnapshot, VerifyTarget, PreflightFails,
              StartExecution, ApplyEffect, CompleteExecution, FailExecution,
              AnswerOk, AnswerError, Goto, Reply, FirstAwait, TypeOK
        <4> QED BY <3>2, <4>2 DEF VerifyTarget, PastBoundary
      <3> QED BY <3>1, <3>2
    <2>2. ASSUME NEW r \in Requests, StorageFault(r) PROVE PastBoundary(q)
      BY <1>2, <2>2, FaultShape DEF PastBoundary
    <2>3. ASSUME NEW r \in Requests, NEW c \in Calls, Receive(r, c)
          PROVE  PastBoundary(q)
      BY <1>2, <2>3, ReceiveShape DEF PastBoundary
    <2>4. CASE Crash
      BY <1>2, <2>4, CrashShape DEF PastBoundary
    <2>5. CASE Startup \/ (\E r \in Requests : LateEffect(r)) \/ UNCHANGED vars
      BY <1>2, <2>5
      DEF Startup, StartupActions, StartupKeys, LateEffect, vars, PastBoundary
    <2> QED BY <2>1, <2>2, <2>3, <2>4, <2>5 DEF Next, Quiet
  <1> QED BY <1>1, <1>2 DEF PastBoundary

(* A verdict is written by its own request only.                           *)
LEMMA VerdictsKept ==
  ASSUME TypeOK, [Next]_vars, NEW a \in Requests, ~EvaluatePolicy(a)
  PROVE  verdict'[a] = verdict[a]
  <1>1. ASSUME NEW r \in Requests, EvaluatePolicy(r)
        PROVE  verdict'[a] = verdict[a]
    <2>1. r # a
      BY <1>1
    <2> QED BY <1>1, <2>1 DEF EvaluatePolicy, TypeOK, JournalTypeOK
  <1>2. ASSUME NEW r \in Requests, Continue(r), ~EvaluatePolicy(r)
        PROVE  UNCHANGED verdict
    BY <1>2
    DEF Continue, CreateApproval, AnnounceApproval,
        ResolveApproval, RecordResolution, MaintainActions, MaintainKeys,
        CaptureSnapshot, RecordSnapshot, VerifyTarget, PreflightFails,
        StartExecution, ApplyEffect, CompleteExecution, FailExecution,
        AnswerOk, AnswerError, durable
  <1>3. ASSUME NEW r \in Requests, NEW c \in Calls, Receive(r, c)
        PROVE  UNCHANGED verdict
    BY <1>3 DEF Receive
  <1>4. ASSUME NEW r \in Requests, StorageFault(r) \/ LateEffect(r)
        PROVE  UNCHANGED verdict
    BY <1>4 DEF StorageFault, LateEffect
  <1>5. CASE Crash \/ Startup \/ UNCHANGED vars
    BY <1>5 DEF Crash, Startup, StartupActions, StartupKeys, vars, durable
  <1> QED BY <1>1, <1>2, <1>3, <1>4, <1>5 DEF Next, Quiet

(* An action whose verdict is being written has not run, and goes on       *)
(* without a boundary only when it needs none.                             *)
LEMMA NewVerdict ==
  ASSUME TypeOK, AuthorityInv, [Next]_vars, NEW a \in Requests,
         EvaluatePolicy(a), verdict'[a].snapshot
  PROVE  Protected(a)' = {}
  <1>1. /\ pc[a] = "dispatch" /\ Is(a, "submit_action_attempt")
        /\ UNCHANGED <<call, approval, executed, outstanding>>
        /\ \A q \in Requests \ {a} : pc'[q] = pc[q]
    BY DEF EvaluatePolicy, Goto, TypeOK
  <1>2. pc'[a] \in {"asking", "finishing", "snapshotting"}
    <2>1. PICK v \in Verdicts :
            LET b == BudgetedVerdict(a, v)
            IN /\ verdict' = [verdict EXCEPT ![a] = b]
               /\ \/ b.decision = "ask" /\ Goto(a, "asking")
                  \/ b.decision = "deny" /\ Goto(a, "finishing")
                  \/ /\ b.decision \notin {"ask", "deny"}
                     /\ Goto(a, FirstAwait(b))
      BY DEF EvaluatePolicy
    <2>2. verdict'[a] = BudgetedVerdict(a, v)
      BY <2>1 DEF TypeOK, JournalTypeOK
    <2>3. FirstAwait(BudgetedVerdict(a, v)) = "snapshotting"
      BY <2>2 DEF FirstAwait
    <2> QED BY <2>1, <2>3 DEF Goto, TypeOK
  <1>3. approval[a] = "none" /\ ~Ran(a)
    BY <1>1 DEF AuthorityInv, ApprovalsWereAsked, WorkersPermitted
  <1>4. ASSUME NEW q \in Requests, ActionOf(q)' = a, PastBoundary(q)'
        PROVE  FALSE
    <2>1. q # a
      BY <1>1, <1>2, <1>3, <1>4 DEF PastBoundary, Ran
    <2>2. PastBoundary(q) /\ ActionOf(q) = a
      BY <1>1, <1>4, <2>1 DEF PastBoundary, Ran, ActionOf, Is
    <2>3. Permitted(q) /\ Is(q, "resolve_approval") /\ call[q].approval = a
      BY <2>1, <2>2
      DEF AuthorityInv, WorkersPermitted, PastBoundary, ExecutionStages,
          ActionOf
    <2>4. approval[a] = "approved"
      BY <2>3 DEF Permitted, Is
    <2> QED BY <1>3, <2>4
  <1> QED BY <1>4 DEF Protected

LEMMA BoundaryStep ==
  ASSUME TypeOK, KeyInv, AuthorityInv, StartsHaveBoundary, [Next]_vars
  PROVE  StartsHaveBoundary'
  <1> SUFFICES ASSUME NEW a \in Requests, verdict'[a].snapshot
               PROVE  Within(Protected(a)', journal'[a]["snapshot.created"])
    BY DEF StartsHaveBoundary, Within
  <1> DEFINE n == journal[a]["snapshot.created"]
             m == journal'[a]["snapshot.created"]
  <1>1. n \in Nat /\ m \in Nat /\ n <= m
    BY JournalGrows, Names
  <1>2. CASE EvaluatePolicy(a)
    <2>1. Protected(a)' = {}
      BY <1>2, NewVerdict
    <2>2. 0 \in Nat /\ 0 <= m
      BY <1>1
    <2> QED BY <1>1, <2>1, <2>2, CountNothing, CountKept
  <1>3. CASE ~EvaluatePolicy(a)
    <2>1. verdict'[a] = verdict[a]
      BY <1>3, VerdictsKept
    <2>2. Within(Protected(a), n)
      BY <2>1 DEF StartsHaveBoundary
    <2>3. \A q \in Protected(a)' : q \in Protected(a) \/ RecordSnapshot(q)
      <3> SUFFICES ASSUME NEW q \in Requests, ActionOf(q)' = a,
                          PastBoundary(q)', ~RecordSnapshot(q)
                   PROVE  ActionOf(q) = a /\ PastBoundary(q)
        BY DEF Protected
      <3>1. \/ PastBoundary(q)
            \/ pc'[q] = "checking" /\ EvaluatePolicy(q)
            \/ pc'[q] = "checking" /\ RecordResolution(q)
        BY PassingBoundary
      <3>2. pc[q] # "idle"
        BY <3>1
        DEF PastBoundary, EvaluatePolicy, RecordResolution, KeyInv, Untouched
      <3>3. ActionOf(q) = a
        BY <3>2, ActionsKept
      <3>4. ~EvaluatePolicy(q)
        BY <1>3, <3>3 DEF EvaluatePolicy, ActionOf, Is
      <3>5. RecordResolution(q) => pc'[q] # "checking"
        BY <2>1, <3>3 DEF RecordResolution, Goto, FirstAwait, TypeOK
      <3> QED BY <3>1, <3>3, <3>4, <3>5
    <2>4. CASE Protected(a)' \subseteq Protected(a)
      BY <1>1, <2>2, <2>4, CountKept
    <2>5. ASSUME NEW q \in Protected(a)', RecordSnapshot(q)
          PROVE  Within(Protected(a)', m)
      <3>1. q \in Requests /\ ActionOf(q)' = a
        BY DEF Protected
      <3>2. /\ pc[q] = "captured"
            /\ \E s \in {"verifying", "checking"} : pc' = [pc EXCEPT ![q] = s]
            /\ AppendRunEvent(ActionOf(q), "snapshot.created")
        BY <2>5 DEF RecordSnapshot, Goto
      <3>3. ActionOf(q) = a
        BY <3>1, <3>2, ActionsKept
      <3>4. m = n + 1
        BY <3>2, <3>3, Names DEF AppendRunEvent, TypeOK, JournalTypeOK
      <3>5. \A r \in Requests : RecordSnapshot(r) => r = q
        BY <3>1, <3>2 DEF RecordSnapshot, Goto, TypeOK
      <3>6. Protected(a)' \subseteq Requests
        BY DEF Protected
      <3>7. Protected(a)' \subseteq Protected(a) \cup {q}
        BY <2>3, <3>5, <3>6
      <3> QED BY <1>1, <2>2, <3>4, <3>7, CountAdded
    <2> QED BY <2>3, <2>4, <2>5
  <1> QED BY <1>2, <1>3

(* An attended action stays attended, or comes to its end.                 *)
LEMMA AttendedKept ==
  ASSUME TypeOK, KeyInv, [Next]_vars, daemon = "up", daemon' = "up",
         NEW a \in Requests, Attended(a)
  PROVE  Attended(a)' \/ TerminalEvents(a)' > 0
  <1>1. PICK q \in Requests :
          /\ ActionOf(q) = a
          /\ pc[q] \in {"running", "effected", "failing"} \/ outcome[q] = "failed"
    BY DEF Attended
  <1>2. /\ pc[q] # "idle"
        /\ outcome[q] = "failed" => ~Live(q)
    BY <1>1, LiveIsNotOver DEF KeyInv, Untouched
  <1>3. ActionOf(q)' = a
    BY <1>1, <1>2, ActionsKept
  <1>4. ASSUME NEW r \in Requests, r # q,
               Continue(r) \/ StorageFault(r) \/ \E c \in Calls : Receive(r, c)
        PROVE  Attended(a)'
    <2>1. pc'[q] = pc[q] /\ outcome'[q] = outcome[q]
      BY <1>4, ContinueShape, FaultShape, ReceiveShape
    <2> QED BY <1>1, <1>3, <2>1 DEF Attended
  <1>5. CASE Continue(q)
    <2>1. Live(q) /\ pc[q] \in {"running", "effected", "failing"}
      BY <1>1, <1>2, <1>5, ContinueShape
    <2>2. CASE ApplyEffect(q) \/ AnswerError(q)
      <3>1. pc'[q] = "effected" \/ outcome'[q] = "failed"
        BY <2>2 DEF ApplyEffect, AnswerError, Reply, Goto, TypeOK
      <3> QED BY <1>3, <3>1 DEF Attended
    <2>3. CASE CompleteExecution(q) \/ FailExecution(q)
      <3>1. \/ AppendRunEvent(a, "execution.completed")
            \/ AppendRunEvent(a, "execution.failed")
        BY <1>1, <2>3 DEF CompleteExecution, FailExecution, FailureEvent
      <3>2. /\ journal[a]["execution.completed"] \in Nat
            /\ journal[a]["execution.failed"] \in Nat
            /\ \/ /\ journal'[a]["execution.completed"] =
                       journal[a]["execution.completed"] + 1
                  /\ journal'[a]["execution.failed"] =
                       journal[a]["execution.failed"]
               \/ /\ journal'[a]["execution.failed"] =
                       journal[a]["execution.failed"] + 1
                  /\ journal'[a]["execution.completed"] =
                       journal[a]["execution.completed"]
        BY <3>1, Names DEF AppendRunEvent, TypeOK, JournalTypeOK
      <3> QED BY <3>2 DEF TerminalEvents
    <2>4. \/ ApplyEffect(q) \/ AnswerError(q)
          \/ CompleteExecution(q) \/ FailExecution(q)
      BY <1>5, <2>1
      DEF Continue, EvaluatePolicy, CreateApproval, AnnounceApproval,
          ResolveApproval, RecordResolution, MaintainActions, MaintainKeys,
          CaptureSnapshot, RecordSnapshot, VerifyTarget, PreflightFails,
          StartExecution, AnswerOk, Finished
    <2> QED BY <2>2, <2>3, <2>4
  <1>6. CASE StorageFault(q)
    BY <1>3, <1>6, FaultShape DEF Attended
  <1>7. ASSUME NEW c \in Calls, Receive(q, c) PROVE FALSE
    BY <1>2, <1>7 DEF Receive
  <1>8. CASE (\E r \in Requests : LateEffect(r)) \/ UNCHANGED vars
    <2>1. UNCHANGED <<pc, outcome>>
      BY <1>8 DEF LateEffect, vars
    <2> QED BY <1>1, <1>3, <2>1 DEF Attended
  <1>9. ~Crash /\ ~Startup
    BY DEF Crash, Startup, StartupActions, StartupKeys
  <1> QED BY <1>4, <1>5, <1>6, <1>7, <1>8, <1>9 DEF Next, Quiet

(* An execution of an action is started by a handler.                      *)
LEMMA Starting ==
  ASSUME TypeOK, [Next]_vars, NEW a \in Requests,
         journal'[a]["execution.started"] # journal[a]["execution.started"]
  PROVE  \E r \in Requests : StartExecution(r) /\ ActionOf(r) = a
  <1>2. journal'[a]["execution.started"] # journal[a]["execution.started"]
    OBVIOUS
  <1>3. ASSUME NEW r \in Requests, Continue(r)
        PROVE  StartExecution(r) /\ ActionOf(r) = a
    <2>1. CASE StartExecution(r)
      BY <1>2, <2>1, ActionOfType, Names
      DEF StartExecution, AppendRunEvent, TypeOK, JournalTypeOK
    <2>2. CASE AnnounceApproval(r) \/ RecordResolution(r) \/ RecordSnapshot(r)
               \/ CompleteExecution(r) \/ FailExecution(r)
      <3>1. \E b \in Requests, e \in EventTypes \ {"execution.started"} :
              AppendRunEvent(b, e)
        BY <2>2, ActionOfType, Names
        DEF AnnounceApproval, RecordResolution, RecordSnapshot,
            CompleteExecution, FailExecution, FailureEvent
      <3> QED BY <1>2, <3>1, Names DEF AppendRunEvent, TypeOK, JournalTypeOK
    <2>3. CASE MaintainActions(r)
      BY <1>2, <2>3, Names
      DEF MaintainActions, RecoverInterrupted, TypeOK, JournalTypeOK
    <2>4. CASE \/ EvaluatePolicy(r) \/ CreateApproval(r) \/ ResolveApproval(r)
               \/ MaintainKeys(r) \/ CaptureSnapshot(r) \/ VerifyTarget(r)
               \/ PreflightFails(r) \/ ApplyEffect(r)
               \/ AnswerOk(r) \/ AnswerError(r)
      BY <1>2, <2>4
      DEF EvaluatePolicy, CreateApproval, ResolveApproval, MaintainKeys,
          CaptureSnapshot, VerifyTarget, PreflightFails, ApplyEffect, AnswerOk,
          AnswerError, durable
    <2> QED BY <1>3, <2>1, <2>2, <2>3, <2>4 DEF Continue
  <1>4. ASSUME \/ UNCHANGED journal
               \/ \E done : RecoverInterrupted(done)
        PROVE  FALSE
    <2>1. PICK done : RecoverInterrupted(done)
      BY <1>2, <1>4
    <2>2. journal[a] \in [EventTypes -> Nat]
      BY DEF TypeOK, JournalTypeOK
    <2>3. \/ journal'[a] = journal[a]
          \/ journal'[a] = [journal[a] EXCEPT !["execution.outcome_unknown"] =
                              @ + 1]
      BY <2>1 DEF RecoverInterrupted
    <2>4. journal'[a]["execution.started"] = journal[a]["execution.started"]
      BY <2>2, <2>3, Names
    <2> QED BY <1>2, <2>4
  <1>5. ASSUME NEW r \in Requests,
               StorageFault(r) \/ LateEffect(r) \/ \E c \in Calls : Receive(r, c)
        PROVE  FALSE
    BY <1>4, <1>5 DEF StorageFault, PartlyRecovered, LateEffect, Receive
  <1>6. CASE Crash \/ Startup \/ UNCHANGED vars
    BY <1>4, <1>6
    DEF Crash, PartlyRecovered, Startup, StartupActions, StartupKeys, vars,
        durable
  <1> QED BY <1>3, <1>5, <1>6 DEF Next, Quiet

(* An action comes to be open by the start of its execution.               *)
LEMMA Opening ==
  ASSUME TypeOK, [Next]_vars, NEW a \in Requests, ~Open(a), Open(a)'
  PROVE  \E r \in Requests : StartExecution(r) /\ ActionOf(r) = a
  <1>1. \A e \in EventTypes : /\ journal[a][e] \in Nat
                             /\ journal'[a][e] \in Nat
                             /\ journal[a][e] <= journal'[a][e]
    BY JournalGrows
  <1>2. /\ journal[a]["execution.started"] = 0
        /\ journal'[a]["execution.started"] > 0
    BY <1>1, Names DEF Open, TerminalEvents
  <1> QED BY <1>2, Starting

LEMMA OpenStep ==
  ASSUME TypeOK, KeyInv, DownIsQuiet, OpenIsAttended, [Next]_vars
  PROVE  OpenIsAttended'
  <1>1. ASSUME daemon' = "up", NEW a \in Requests, Open(a)'
        PROVE  Attended(a)'
    <2>1. CASE daemon = "up" /\ Open(a)
      <3>1. Attended(a)
        BY <2>1 DEF OpenIsAttended
      <3>2. TerminalEvents(a)' = 0
        BY <1>1 DEF Open
      <3> QED BY <1>1, <2>1, <3>1, <3>2, AttendedKept
    <2>2. CASE ~Open(a)
      <3>1. PICK r \in Requests : StartExecution(r) /\ ActionOf(r) = a
        BY <1>1, <2>2, Opening
      <3>2. pc[r] = "checking" /\ pc'[r] = "running"
        BY <3>1 DEF StartExecution, Goto, TypeOK
      <3>3. ActionOf(r)' = a
        BY <3>1, <3>2, ActionsKept
      <3> QED BY <3>2, <3>3 DEF Attended
    <2>3. CASE daemon # "up" /\ Open(a)
      <3>1. StartupKeys
        <4>1. ASSUME NEW r \in Requests PROVE ~Continue(r)
          BY <2>3, ContinueShape DEF DownIsQuiet
        <4>2. ASSUME NEW r \in Requests
              PROVE  ~StorageFault(r) /\ \A c \in Calls : ~Receive(r, c)
          BY <2>3 DEF StorageFault, Receive, LoopFree
        <4>3. ASSUME NEW r \in Requests PROVE ~LateEffect(r)
          BY <1>1, <2>3 DEF LateEffect
        <4>4. ~Crash /\ ~StartupActions /\ ~UNCHANGED vars
          BY <1>1, <2>3 DEF Crash, StartupActions, vars
        <4> QED BY <4>1, <4>2, <4>3, <4>4 DEF Next, Startup, Quiet
      <3> QED BY <2>3, <3>1 DEF StartupKeys, OpenIsAttended
    <2> QED BY <2>1, <2>2, <2>3
  <1>2. ASSUME daemon' = "recovered", NEW a \in Requests PROVE ~Open(a)'
    <2>1. CASE StartupActions
      <3>1. CASE Interrupted(a)
        <4>1. journal'[a] = [journal[a] EXCEPT !["execution.outcome_unknown"] =
                              @ + 1]
          BY <2>1, <3>1 DEF StartupActions, RecoverInterrupted
        <4>2. journal'[a]["execution.outcome_unknown"] = 1
          BY <3>1, <4>1, Names DEF Interrupted, TypeOK, JournalTypeOK
        <4> QED BY <4>2 DEF Open
      <3>2. CASE ~Interrupted(a)
        <4>1. journal'[a] = journal[a]
          BY <2>1, <3>2 DEF StartupActions, RecoverInterrupted
        <4> QED BY <3>2, <4>1 DEF Interrupted, Open, TerminalEvents
      <3> QED BY <3>1, <3>2
    <2>2. CASE ~StartupActions
      <3>1. daemon = "recovered" /\ UNCHANGED journal
        <4>1. ASSUME NEW r \in Requests PROVE ~Continue(r)
          BY <1>2, ContinueShape DEF DownIsQuiet
        <4>2. ASSUME NEW r \in Requests
              PROVE  ~StorageFault(r) /\ \A c \in Calls : ~Receive(r, c)
          BY <1>2 DEF StorageFault, Receive, LoopFree
        <4>3. ~Crash /\ ~StartupKeys
          BY <1>2 DEF Crash, StartupKeys
        <4>4. (\E r \in Requests : LateEffect(r)) \/ UNCHANGED vars
          BY <2>2, <4>1, <4>2, <4>3 DEF Next, Startup, Quiet
        <4> QED BY <1>2, <4>4 DEF LateEffect, vars, durable
      <3> QED BY <3>1 DEF OpenIsAttended, Open, TerminalEvents
    <2> QED BY <2>1, <2>2
  <1> QED BY <1>1, <1>2 DEF OpenIsAttended

(* What a client was told, it was told for good.                           *)
LEMMA OutcomesKept ==
  ASSUME TypeOK, KeyInv, [Next]_vars, NEW q \in Requests, outcome[q] # "none"
  PROVE  outcome'[q] = outcome[q] /\ pc[q] = "done"
  <1>1. pc[q] = "done"
    BY DEF KeyInv, Untouched
  <1>2. ~Live(q)
    BY <1>1, LiveIsNotOver
  <1>3. ASSUME NEW r \in Requests, Continue(r) \/ StorageFault(r)
        PROVE  outcome'[q] = outcome[q]
    <2>1. q # r
      BY <1>2, <1>3, ContinueShape, FaultShape
    <2> QED BY <1>3, <2>1, ContinueShape, FaultShape
  <1>4. ASSUME NEW r \in Requests, NEW c \in Calls, Receive(r, c)
        PROVE  outcome'[q] = outcome[q]
    BY <1>1, <1>4, ReceiveShape
  <1>5. CASE \/ \E r \in Requests : LateEffect(r)
             \/ Startup \/ UNCHANGED vars
    BY <1>1, <1>5 DEF LateEffect, Startup, StartupActions, StartupKeys, vars
  <1>6. CASE Crash
    BY <1>1, <1>2, <1>6, CrashShape
  <1> QED BY <1>1, <1>3, <1>4, <1>5, <1>6 DEF Next, Quiet

(* A request stays unsettled until its execution is completed.             *)
LEMMA UnsettledKept ==
  ASSUME TypeOK, KeyInv, [Next]_vars, NEW a \in Requests, NEW q \in Unsettled(a)
  PROVE  q \in Unsettled(a)' \/ CompleteExecution(q)
  <1>1. /\ q \in Requests /\ ActionOf(q) = a
        /\ \/ pc[q] \in {"running", "effected", "failing"}
           \/ outcome[q] \in {"failed", "lost"}
    BY DEF Unsettled
  <1>2. pc[q] # "idle"
    BY <1>1 DEF KeyInv, Untouched
  <1>3. ActionOf(q)' = a
    BY <1>1, <1>2, ActionsKept
  <1>4. CASE outcome[q] \in {"failed", "lost"}
    BY <1>1, <1>3, <1>4, OutcomesKept DEF Unsettled
  <1>5. CASE pc[q] \in {"running", "effected", "failing"}
    <2>1. ASSUME NEW r \in Requests, r # q,
                 Continue(r) \/ StorageFault(r) \/ \E c \in Calls : Receive(r, c)
          PROVE  pc'[q] = pc[q]
      BY <1>1, <2>1, ContinueShape, FaultShape, ReceiveShape
    <2>2. CASE Continue(q)
      <3>1. \/ ApplyEffect(q) \/ AnswerError(q)
            \/ CompleteExecution(q) \/ FailExecution(q)
        BY <1>5, <2>2
        DEF Continue, EvaluatePolicy, CreateApproval, AnnounceApproval,
            ResolveApproval, RecordResolution, MaintainActions, MaintainKeys,
            CaptureSnapshot, RecordSnapshot, VerifyTarget, PreflightFails,
            StartExecution, AnswerOk, Finished
      <3>2. \/ CompleteExecution(q)
            \/ pc'[q] \in {"effected", "failing"}
            \/ outcome'[q] = "failed"
        BY <1>1, <3>1
        DEF ApplyEffect, AnswerError, FailExecution, Reply, Goto, TypeOK
      <3> QED BY <1>1, <1>3, <3>2 DEF Unsettled
    <2>3. CASE StorageFault(q)
      BY <1>1, <1>3, <2>3, FaultShape DEF Unsettled
    <2>4. ASSUME NEW c \in Calls, Receive(q, c) PROVE FALSE
      BY <1>2, <2>4 DEF Receive
    <2>5. CASE (\E r \in Requests : LateEffect(r)) \/ Startup \/ UNCHANGED vars
      <3>1. UNCHANGED pc
        BY <2>5 DEF LateEffect, Startup, StartupActions, StartupKeys, vars
      <3> QED BY <1>1, <1>3, <1>5, <3>1 DEF Unsettled
    <2>6. CASE Crash
      <3>1. Live(q)
        BY <1>5, Names DEF Live
      <3>2. outcome'[q] = "lost"
        BY <1>1, <2>6, <3>1 DEF Crash, TypeOK
      <3> QED BY <1>1, <1>3, <3>2 DEF Unsettled
    <2> QED BY <1>1, <1>3, <1>5, <2>1, <2>2, <2>3, <2>4, <2>5, <2>6
        DEF Next, Quiet, Unsettled
  <1> QED BY <1>1, <1>4, <1>5

(* Requests come one at a time.                                            *)
LEMMA ReceivedStep ==
  ASSUME TypeOK, KeyInv, [Next]_vars, IsFiniteSet(Received)
  PROVE  IsFiniteSet(Received')
  <1>1. ASSUME NEW r \in Requests,
               Continue(r) \/ StorageFault(r) \/ \E c \in Calls : Receive(r, c)
        PROVE  \A q \in Requests \ {r} : pc'[q] = pc[q]
    BY <1>1, ContinueShape, FaultShape, ReceiveShape
  <1>2. CASE \/ \E r \in Requests : LateEffect(r)
             \/ Crash \/ Startup \/ UNCHANGED vars
    <2>1. \A q \in Requests : pc[q] = "idle" => pc'[q] = "idle"
      BY <1>2, CrashShape, Names
      DEF LateEffect, Startup, StartupActions, StartupKeys, vars, Live
    <2>2. Received' \subseteq Received
      BY <2>1 DEF Received
    <2> QED BY <2>2, FS_Subset
  <1>3. ASSUME NEW r \in Requests, \A q \in Requests \ {r} : pc'[q] = pc[q]
        PROVE  IsFiniteSet(Received')
    <2>1. Received' \subseteq Received \cup {r}
      BY <1>3 DEF Received
    <2>2. IsFiniteSet(Received \cup {r})
      BY FS_AddElement
    <2> QED BY <2>1, <2>2, FS_Subset
  <1> QED BY <1>1, <1>2, <1>3 DEF Next, Quiet

(* The unsettled requests are as many after a step, one more for a start,  *)
(* one less for a completed event.                                         *)
LEMMA SettledStep ==
  ASSUME TypeOK, KeyInv, StartsAreSettled, [Next]_vars
  PROVE  StartsAreSettled'
  <1>1. IsFiniteSet(Received) /\ IsFiniteSet(Received')
    BY ReceivedStep DEF StartsAreSettled
  <1> SUFFICES ASSUME NEW a \in Requests
               PROVE  journal'[a]["execution.started"] <=
                        TerminalEvents(a)' + Cardinality(Unsettled(a)')
    BY <1>1 DEF StartsAreSettled
  <1> DEFINE U == Unsettled(a)
             V == Unsettled(a)'
  <1>2. IsFiniteSet(U) /\ IsFiniteSet(V)
    <2>1. U \subseteq Received
      BY DEF Unsettled, Received, KeyInv, Untouched
    <2>2. KeyInv'
      BY KeyStep
    <2>3. V \subseteq Received'
      BY <2>2 DEF Unsettled, Received, KeyInv, Untouched
    <2> QED BY <1>1, <2>1, <2>3, FS_Subset
  <1>3. Cardinality(U) \in Nat /\ Cardinality(V) \in Nat
    BY <1>2, FS_CardinalityType
  <1>4. /\ journal[a]["execution.started"] \in Nat
        /\ journal'[a]["execution.started"] \in Nat
        /\ TerminalEvents(a) \in Nat /\ TerminalEvents(a)' \in Nat
        /\ TerminalEvents(a) <= TerminalEvents(a)'
        /\ journal[a]["execution.started"] <= TerminalEvents(a) + Cardinality(U)
    <2>1. \A e \in EventTypes : /\ journal[a][e] \in Nat
                               /\ journal'[a][e] \in Nat
                               /\ journal[a][e] <= journal'[a][e]
      BY JournalGrows
    <2> QED BY <2>1, Names DEF StartsAreSettled, TerminalEvents
  <1>5. ASSUME NEW q \in U, CompleteExecution(q)
        PROVE  /\ TerminalEvents(a)' = TerminalEvents(a) + 1
               /\ journal'[a]["execution.started"] = journal[a]["execution.started"]
               /\ Cardinality(U) <= Cardinality(V) + 1
    <2>1. q \in Requests /\ AppendRunEvent(a, "execution.completed")
      BY <1>5 DEF CompleteExecution, Unsettled
    <2>2. /\ journal'[a]["execution.completed"] = journal[a]["execution.completed"] + 1
          /\ journal'[a]["execution.failed"] = journal[a]["execution.failed"]
          /\ journal'[a]["execution.started"] = journal[a]["execution.started"]
          /\ journal[a]["execution.completed"] \in Nat
          /\ journal[a]["execution.failed"] \in Nat
      BY <2>1, Names DEF AppendRunEvent, TypeOK, JournalTypeOK
    <2>3. \A r \in Requests : CompleteExecution(r) => r = q
      BY <1>5, <2>1, Names DEF CompleteExecution, Goto, TypeOK
    <2>4. U \subseteq Requests
      BY DEF Unsettled
    <2>5. U \subseteq V \cup {q}
      <3> SUFFICES ASSUME NEW r \in U PROVE r \in V \cup {q}
        OBVIOUS
      <3>1. r \in V \/ CompleteExecution(r)
        BY UnsettledKept
      <3> QED BY <2>3, <2>4, <3>1
    <2>6. IsFiniteSet(V \cup {q}) /\ Cardinality(V \cup {q}) \in Nat
          /\ Cardinality(V \cup {q}) <= Cardinality(V) + 1
      <3>1. /\ IsFiniteSet(V \cup {q})
            /\ \/ Cardinality(V \cup {q}) = Cardinality(V)
               \/ Cardinality(V \cup {q}) = Cardinality(V) + 1
        BY <1>2, FS_AddElement
      <3> QED BY <1>3, <3>1
    <2>7. Cardinality(U) <= Cardinality(V \cup {q})
      BY <2>5, <2>6, FS_Subset
    <2>8. Cardinality(U) <= Cardinality(V) + 1
      BY <1>3, <2>6, <2>7
    <2> QED BY <2>2, <2>8 DEF TerminalEvents
  <1>6. ASSUME U \subseteq V PROVE Cardinality(U) <= Cardinality(V)
    BY <1>2, <1>6, FS_Subset
  <1>7. ASSUME NEW q \in Requests, StartExecution(q), ActionOf(q) = a
        PROVE  /\ U \subseteq V
               /\ journal'[a]["execution.started"] =
                    journal[a]["execution.started"] + 1
               /\ Cardinality(U) + 1 <= Cardinality(V)
    <2>1. /\ pc[q] = "checking" /\ pc' = [pc EXCEPT ![q] = "running"]
          /\ AppendRunEvent(a, "execution.started")
          /\ UNCHANGED outcome
      BY <1>7 DEF StartExecution, Goto
    <2>2. ActionOf(q)' = a
      BY <1>7, <2>1, ActionsKept
    <2>3. journal'[a]["execution.started"] = journal[a]["execution.started"] + 1
      BY <2>1, Names DEF AppendRunEvent, TypeOK, JournalTypeOK
    <2>4. \A r \in Requests : ~CompleteExecution(r)
      BY <2>1 DEF CompleteExecution, Goto, TypeOK
    <2>5. U \subseteq Requests
      BY DEF Unsettled
    <2>6. U \subseteq V
      BY <2>4, <2>5, UnsettledKept
    <2>7. q \in V
      BY <2>1, <2>2 DEF Unsettled, TypeOK
    <2>8. q \notin U
      BY <2>1, Names DEF Unsettled, KeyInv, Untouched
    <2>9. IsFiniteSet(U \cup {q}) /\ Cardinality(U \cup {q}) = Cardinality(U) + 1
      BY <1>2, <2>8, FS_AddElement
    <2>10. U \cup {q} \subseteq V
      BY <2>6, <2>7
    <2>11. Cardinality(U \cup {q}) <= Cardinality(V)
      BY <1>2, <2>10, FS_Subset
    <2> QED BY <2>3, <2>6, <2>9, <2>11
  <1>8. CASE \E q \in U : CompleteExecution(q)
    BY <1>3, <1>4, <1>5, <1>8
  <1>9. CASE /\ \A q \in U : ~CompleteExecution(q)
             /\ journal'[a]["execution.started"] = journal[a]["execution.started"]
    <2>1. U \subseteq V
      BY <1>9, UnsettledKept
    <2> QED BY <1>3, <1>4, <1>6, <1>9, <2>1
  <1>10. CASE journal'[a]["execution.started"] # journal[a]["execution.started"]
    BY <1>3, <1>4, <1>7, <1>10, Starting
  <1> QED BY <1>8, <1>9, <1>10

(* A resolved approval is never resolved again, nor asked for again.       *)
LEMMA ApprovalsKept ==
  ASSUME TypeOK, AuthorityInv, [Next]_vars, NEW a \in Requests,
         approval[a] \in {"approved", "denied"}
  PROVE  approval'[a] = approval[a]
  <1>1. ASSUME NEW r \in Requests, CreateApproval(r)
        PROVE  approval'[a] = approval[a]
    <2>1. pc[r] = "asking" /\ approval[r] = "none"
      BY <1>1 DEF CreateApproval, AuthorityInv, ApprovalsWereAsked
    <2> QED BY <1>1, <2>1 DEF CreateApproval, TypeOK, JournalTypeOK
  <1>2. ASSUME NEW r \in Requests, ResolveApproval(r)
        PROVE  approval'[a] = approval[a]
    BY <1>2 DEF ResolveApproval, ResolvedStatus, TypeOK, JournalTypeOK
  <1>3. ASSUME NEW r \in Requests, Continue(r),
               ~CreateApproval(r), ~ResolveApproval(r)
        PROVE  UNCHANGED approval
    BY <1>3
    DEF Continue, EvaluatePolicy, AnnounceApproval,
        RecordResolution, MaintainActions, MaintainKeys,
        CaptureSnapshot, RecordSnapshot, VerifyTarget, PreflightFails,
        StartExecution, ApplyEffect, CompleteExecution, FailExecution,
        AnswerOk, AnswerError, durable
  <1>4. ASSUME NEW r \in Requests,
               StorageFault(r) \/ LateEffect(r) \/ \E c \in Calls : Receive(r, c)
        PROVE  UNCHANGED approval
    BY <1>4 DEF StorageFault, LateEffect, Receive
  <1>5. CASE Crash \/ Startup \/ UNCHANGED vars
    BY <1>5 DEF Crash, Startup, StartupActions, StartupKeys, vars, durable
  <1> QED BY <1>1, <1>2, <1>3, <1>4, <1>5 DEF Next, Quiet

(* What changed the world stays so.                                        *)
LEMMA ExecutedGrows ==
  ASSUME TypeOK, [Next]_vars PROVE executed \subseteq executed'
  <1>1. ASSUME NEW r \in Requests, Continue(r)
        PROVE  executed \subseteq executed'
    BY <1>1
    DEF Continue, EvaluatePolicy, CreateApproval, AnnounceApproval,
        ResolveApproval, RecordResolution, MaintainActions, MaintainKeys,
        CaptureSnapshot, RecordSnapshot, VerifyTarget, PreflightFails,
        StartExecution, ApplyEffect, CompleteExecution, FailExecution,
        AnswerOk, AnswerError, durable
  <1>2. ASSUME NEW r \in Requests,
               StorageFault(r) \/ LateEffect(r) \/ \E c \in Calls : Receive(r, c)
        PROVE  executed \subseteq executed'
    BY <1>2 DEF StorageFault, LateEffect, Receive
  <1>3. CASE Crash \/ Startup \/ UNCHANGED vars
    BY <1>3 DEF Crash, Startup, StartupActions, StartupKeys, vars, durable
  <1> QED BY <1>1, <1>2, <1>3 DEF Next, Quiet

(* An ended request stays ended.                                           *)
LEMMA DoneStays ==
  ASSUME TypeOK, [Next]_vars, NEW x \in Requests, pc[x] = "done"
  PROVE  pc'[x] = "done"
  <1>0. ~Live(x)
    BY LiveIsNotOver
  <1>1. ASSUME NEW r \in Requests, Continue(r) \/ StorageFault(r)
        PROVE  pc'[x] = "done"
    <2>1. x # r
      BY <1>0, <1>1, ContinueShape, FaultShape
    <2> QED BY <1>1, <2>1, ContinueShape, FaultShape
  <1>2. ASSUME NEW r \in Requests, NEW c \in Calls, Receive(r, c)
        PROVE  pc'[x] = "done"
    BY <1>2 DEF Receive, Reply, Goto, TypeOK
  <1>3. CASE \/ \E r \in Requests : LateEffect(r)
             \/ Startup \/ UNCHANGED vars
    BY <1>3 DEF LateEffect, Startup, StartupActions, StartupKeys, vars
  <1>4. CASE Crash
    BY <1>0, <1>4, CrashShape
  <1> QED BY <1>1, <1>2, <1>3, <1>4 DEF Next, Quiet

(* A settled claim stays as it is, and so does what was done for it.       *)
LEMMA ClaimKept ==
  ASSUME TypeOK, AuthorityInv, [Next]_vars, NEW x \in Requests,
         pc[x] \in {"finishing", "done"}, ClaimSettled(x), DoneAsClaimed(x)
  PROVE  ClaimSettled(x)' /\ DoneAsClaimed(x)'
  <1>1. /\ call'[x] = call[x] /\ ActionOf(x)' = ActionOf(x)
        /\ \A m : Is(x, m)' <=> Is(x, m)
    BY ActionsKept
  <1>2. verdict'[x] = verdict[x]
    BY VerdictsKept DEF EvaluatePolicy
  <1>3. Is(x, "resolve_approval") =>
          /\ call[x].approval \in Requests
          /\ approval'[call[x].approval] = approval[call[x].approval]
    <2>1. Is(x, "resolve_approval") => call[x].approval \in Requests
      BY DEF Is, TypeOK, AllCalls, SubmitCalls, ResolveCalls, MaintenanceCalls
    <2> QED BY <2>1, ApprovalsKept DEF ClaimSettled
  <1>4. ClaimSettled(x)'
    BY <1>1, <1>3 DEF ClaimSettled
  <1>5. ClaimsExecution(x)' <=> ClaimsExecution(x)
    BY <1>1, <1>2, <1>3 DEF ClaimsExecution
  <1>6. /\ ActionOf(x) \in Requests
        /\ executed \subseteq executed'
        /\ journal[ActionOf(x)]["execution.completed"] > 0 =>
             journal'[ActionOf(x)]["execution.completed"] > 0
    BY ActionOfType, ExecutedGrows, JournalGrows, Names
  <1>7. DoneAsClaimed(x)'
    BY <1>1, <1>5, <1>6 DEF DoneAsClaimed
  <1> QED BY <1>4, <1>7

(* A handler that comes to its end has done what it will claim.            *)
LEMMA Finishing ==
  ASSUME TypeOK, KeyInv, AuthorityInv, StagesRemember, [Next]_vars,
         NEW x \in Requests, pc[x] # "finishing", pc'[x] = "finishing"
  PROVE  ClaimSettled(x)' /\ DoneAsClaimed(x)'
  <1>1. Continue(x)
    <2>1. ASSUME NEW r \in Requests, r # x, Continue(r) PROVE FALSE
      BY <2>1, ContinueShape
    <2>2. ASSUME NEW r \in Requests,
                 StorageFault(r) \/ \E c \in Calls : Receive(r, c)
          PROVE  FALSE
      BY <2>2, FaultShape, ReceiveShape
    <2>3. ~Crash
      BY CrashShape
    <2>4. CASE \/ \E r \in Requests : LateEffect(r)
               \/ Startup \/ UNCHANGED vars
      BY <2>4 DEF LateEffect, Startup, StartupActions, StartupKeys, vars
    <2> QED BY <2>1, <2>2, <2>3, <2>4 DEF Next, Quiet
  <1>2. /\ call'[x] = call[x] /\ ActionOf(x)' = ActionOf(x)
        /\ \A m : Is(x, m)' <=> Is(x, m)
    <2>1. pc[x] # "idle"
      BY <1>1, ContinueShape, LiveIsNotOver
    <2> QED BY <2>1, ActionsKept
  <1>3. CASE EvaluatePolicy(x)
    <2>1. PICK v \in Verdicts :
            LET b == BudgetedVerdict(x, v)
            IN /\ verdict' = [verdict EXCEPT ![x] = b]
               /\ \/ b.decision = "ask" /\ Goto(x, "asking")
                  \/ b.decision = "deny" /\ Goto(x, "finishing")
                  \/ /\ b.decision \notin {"ask", "deny"}
                     /\ Goto(x, FirstAwait(b))
      BY <1>3 DEF EvaluatePolicy
    <2>2. verdict'[x].decision = "deny" /\ Is(x, "submit_action_attempt")
      BY <1>3, <2>1
      DEF EvaluatePolicy, Goto, FirstAwait, TypeOK, JournalTypeOK
    <2> QED BY <1>2, <2>2 DEF ClaimSettled, DoneAsClaimed, ClaimsExecution, Is
  <1>4. CASE AnnounceApproval(x)
    <2>1. /\ Is(x, "submit_action_attempt") /\ verdict[x].decision = "ask"
          /\ UNCHANGED verdict
      BY <1>4 DEF AnnounceApproval, AuthorityInv, StagesFit
    <2> QED BY <1>2, <2>1 DEF ClaimSettled, DoneAsClaimed, ClaimsExecution, Is
  <1>5. CASE RecordResolution(x)
    <2>1. /\ Is(x, "resolve_approval") /\ ClaimSettled(x)
          /\ UNCHANGED approval
      BY <1>5
      DEF RecordResolution, AuthorityInv, StagesFit, StagesRemember
    <2>2. approval[call[x].approval] # "approved"
      BY <1>5, <2>1
      DEF RecordResolution, Authorized, ActionOf, Goto, FirstAwait, TypeOK
    <2> QED BY <1>2, <2>1, <2>2 DEF ClaimSettled, DoneAsClaimed,
                                    ClaimsExecution, Is
  <1>6. CASE MaintainKeys(x)
    <2>1. Is(x, "run_maintenance")
      BY <1>6 DEF MaintainKeys, StagesRemember
    <2> QED BY <1>2, <2>1 DEF ClaimSettled, DoneAsClaimed, ClaimsExecution, Is
  <1>7. CASE CompleteExecution(x)
    <2>1. /\ x \in executed /\ UNCHANGED <<approval, verdict, executed>>
          /\ Permitted(x)
          /\ AppendRunEvent(ActionOf(x), "execution.completed")
      BY <1>7
      DEF CompleteExecution, StagesRemember, AuthorityInv, WorkersPermitted,
          ExecutionStages
    <2>2. journal'[ActionOf(x)]["execution.completed"] > 0
      <3>1. /\ ActionOf(x) \in Requests
            /\ journal[ActionOf(x)]["execution.completed"] \in Nat
            /\ journal'[ActionOf(x)]["execution.completed"] =
                 journal[ActionOf(x)]["execution.completed"] + 1
        BY <2>1, ActionOfType, Names
        DEF AppendRunEvent, TypeOK, JournalTypeOK
      <3> QED BY <3>1
    <2>3. ClaimSettled(x)'
      BY <1>2, <2>1 DEF ClaimSettled, Permitted, Is
    <2> QED BY <1>2, <2>1, <2>2, <2>3 DEF DoneAsClaimed
  <1>8. \/ EvaluatePolicy(x) \/ AnnounceApproval(x) \/ RecordResolution(x)
        \/ MaintainKeys(x) \/ CompleteExecution(x)
    BY <1>1
    DEF Continue, CreateApproval, ResolveApproval, MaintainActions,
        CaptureSnapshot, RecordSnapshot, VerifyTarget, PreflightFails,
        StartExecution, ApplyEffect, FailExecution, AnswerOk, AnswerError,
        Goto, Reply, TypeOK
  <1> QED BY <1>3, <1>4, <1>5, <1>6, <1>7, <1>8

(* A success is reported by AnswerOk, or was reported before.              *)
LEMMA Reporting ==
  ASSUME TypeOK, KeyInv, [Next]_vars, NEW x \in Requests, ReportedOk(x)'
  PROVE  ReportedOk(x) \/ AnswerOk(x)
  <1>1. ASSUME NEW r \in Requests, outcome'[r] = "ok", answer'[r] = x
        PROVE  ReportedOk(x) \/ AnswerOk(x)
    <2>1. ASSUME outcome[r] = "ok", answer[r] = answer'[r] PROVE ReportedOk(x)
      BY <1>1, <2>1 DEF ReportedOk
    <2>2. CASE Continue(r)
      <3>1. CASE AnswerOk(r)
        BY <1>1, <3>1 DEF AnswerOk, Reply, TypeOK
      <3>2. CASE AnswerError(r)
        BY <1>1, <3>2 DEF AnswerError, Reply, TypeOK
      <3>3. CASE ~AnswerOk(r) /\ ~AnswerError(r)
        BY <1>1, <2>1, <2>2, <3>3, HandlerMoves
      <3> QED BY <3>1, <3>2, <3>3
    <2>3. CASE StorageFault(r)
      <3>1. outcome[r] = "none"
        BY <2>3, FaultShape, LiveIsNotOver DEF KeyInv, Untouched
      <3> QED BY <1>1, <2>3, <3>1, FaultShape
    <2>4. ASSUME NEW c \in Calls, Receive(r, c) PROVE ReportedOk(x)
      BY <1>1, <2>4, ReceiveShape DEF ReportedOk
    <2>5. ASSUME NEW q \in Requests, q # r,
                 \/ Continue(q) \/ StorageFault(q)
                 \/ \E c \in Calls : Receive(q, c)
          PROVE  ReportedOk(x)
      BY <1>1, <2>1, <2>5, ContinueShape, FaultShape, ReceiveShape
    <2>6. CASE \/ \E q \in Requests : LateEffect(q)
               \/ Startup \/ UNCHANGED vars
      BY <1>1, <2>1, <2>6
      DEF LateEffect, Startup, StartupActions, StartupKeys, vars
    <2>7. CASE Crash
      BY <1>1, <2>1, <2>7, CrashShape
    <2> QED BY <2>2, <2>3, <2>4, <2>5, <2>6, <2>7 DEF Next, Quiet
  <1>2. ASSUME NEW k \in Keys,
               ledger'[k].state = "completed", ledger'[k].response = x
        PROVE  ReportedOk(x) \/ AnswerOk(x)
    <2>1. ASSUME ledger'[k] = ledger[k] PROVE ReportedOk(x)
      BY <1>2, <2>1 DEF ReportedOk
    <2>2. ASSUME ReconcilePending \/ UNCHANGED ledger PROVE ReportedOk(x)
      <3>1. ledger'[k] = ledger[k]
        BY <1>2, <2>2 DEF ReconcilePending, TypeOK, Row
      <3> QED BY <2>1, <3>1
    <2>3. ASSUME NEW r \in Requests, Continue(r)
          PROVE  ReportedOk(x) \/ AnswerOk(x)
      <3>1. CASE AnswerOk(r)
        <4>1. ledger'[k] = ledger[k] \/ ledger'[k].response = r
          BY <3>1 DEF AnswerOk, CompleteMutation, TypeOK, Row
        <4> QED BY <1>2, <2>1, <3>1, <4>1
      <3>2. CASE AnswerError(r)
        <4>1. ledger'[k] = ledger[k]
          BY <1>2, <3>2
          DEF AnswerError, LockKey, MarkOutcomeUnknown, TypeOK, Row
        <4> QED BY <2>1, <4>1
      <3>3. CASE ~AnswerOk(r) /\ ~AnswerError(r)
        BY <2>2, <2>3, <3>3, HandlerMoves
      <3> QED BY <3>1, <3>2, <3>3
    <2>4. ASSUME NEW r \in Requests, NEW c \in Calls, Receive(r, c)
          PROVE  ReportedOk(x)
      <3>1. ledger'[k] = ledger[k]
        BY <1>2, <2>4 DEF Receive, InsertPending, TypeOK
      <3> QED BY <2>1, <3>1
    <2>5. ASSUME NEW r \in Requests, StorageFault(r) \/ LateEffect(r)
          PROVE  ReportedOk(x)
      BY <2>2, <2>5 DEF StorageFault, LateEffect
    <2>6. CASE Crash \/ Startup \/ UNCHANGED vars
      BY <2>2, <2>6
      DEF Crash, Startup, StartupActions, StartupKeys, vars, durable
    <2> QED BY <2>3, <2>4, <2>5, <2>6 DEF Next, Quiet
  <1> QED BY <1>1, <1>2 DEF ReportedOk

LEMMA SuccessStep ==
  ASSUME TypeOK, KeyInv, AuthorityInv, SuccessIsReal, StagesRemember,
         [Next]_vars
  PROVE  SuccessIsReal'
  <1>1. ASSUME NEW x \in Requests, ReportedOk(x)'
        PROVE  pc'[x] = "done" /\ Succeeds(x)
    <2>1. CASE AnswerOk(x)
      BY <2>1 DEF AnswerOk, Finished, Reply, Goto, Succeeds, TypeOK
    <2>2. CASE ReportedOk(x)
      BY <2>2, DoneStays DEF SuccessIsReal, Succeeds
    <2> QED BY <1>1, <2>1, <2>2, Reporting
  <1>2. ASSUME NEW x \in Requests, Succeeds(x)
        PROVE  ClaimSettled(x)' /\ DoneAsClaimed(x)'
    <2>1. pc[x] \in {"finishing", "done"}
      BY <1>2 DEF SuccessIsReal, Succeeds
    <2> QED BY <1>2, <2>1, ClaimKept DEF SuccessIsReal
  <1>3. ASSUME NEW x \in Requests, Succeeds(x)'
        PROVE  ClaimSettled(x)' /\ DoneAsClaimed(x)'
    <2>1. CASE ReportedOk(x)' \/ pc[x] = "finishing"
      BY <1>1, <1>2, <2>1 DEF Succeeds
    <2>2. CASE pc'[x] = "finishing" /\ pc[x] # "finishing"
      BY <2>2, Finishing
    <2> QED BY <1>3, <2>1, <2>2 DEF Succeeds
  <1>4. ASSUME NEW r \in Requests, outcome'[r] = "ok"
        PROVE  answer'[r] \in Requests
    <2>1. ASSUME outcome[r] = "ok", answer'[r] = answer[r]
          PROVE  answer'[r] \in Requests
      BY <2>1 DEF SuccessIsReal
    <2>2. CASE Continue(r)
      <3>1. CASE AnswerOk(r) \/ AnswerError(r)
        BY <1>4, <3>1 DEF AnswerOk, AnswerError, Reply, TypeOK
      <3>2. CASE ~AnswerOk(r) /\ ~AnswerError(r)
        BY <1>4, <2>1, <2>2, <3>2, HandlerMoves
      <3> QED BY <3>1, <3>2
    <2>3. CASE StorageFault(r)
      <3>1. outcome[r] = "none"
        BY <2>3, FaultShape, LiveIsNotOver DEF KeyInv, Untouched
      <3> QED BY <1>4, <2>3, <3>1, FaultShape
    <2>4. ASSUME NEW c \in Calls, Receive(r, c)
          PROVE  answer'[r] \in Requests
      BY <1>4, <2>4, ReceiveShape DEF KeyInv, ResultIsFinal
    <2>5. ASSUME NEW q \in Requests, q # r,
                 \/ Continue(q) \/ StorageFault(q)
                 \/ \E c \in Calls : Receive(q, c)
          PROVE  answer'[r] \in Requests
      BY <1>4, <2>1, <2>5, ContinueShape, FaultShape, ReceiveShape
    <2>6. CASE \/ \E q \in Requests : LateEffect(q)
               \/ Startup \/ UNCHANGED vars
      BY <1>4, <2>1, <2>6
      DEF LateEffect, Startup, StartupActions, StartupKeys, vars
    <2>7. CASE Crash
      BY <1>4, <2>1, <2>7, CrashShape
    <2> QED BY <2>2, <2>3, <2>4, <2>5, <2>6, <2>7 DEF Next, Quiet
  <1> QED BY <1>1, <1>3, <1>4 DEF SuccessIsReal

LEMMA StagesStep ==
  ASSUME TypeOK, KeyInv, AuthorityInv, StagesRemember, [Next]_vars
  PROVE  StagesRemember'
  <1> SUFFICES ASSUME NEW x \in Requests
               PROVE  /\ pc'[x] = "effected" => x \in executed'
                      /\ pc'[x] = "reconciling" => Is(x, "run_maintenance")'
                      /\ pc'[x] = "recording" => ClaimSettled(x)'
    BY DEF StagesRemember
  <1>1. CASE pc'[x] = pc[x]
    <2>1. pc[x] = "effected" => x \in executed'
      BY ExecutedGrows DEF StagesRemember
    <2>2. pc[x] = "reconciling" => Is(x, "run_maintenance")'
      BY ActionsKept DEF StagesRemember
    <2>3. pc[x] = "recording" => ClaimSettled(x)'
      <3>1. SUFFICES ASSUME pc[x] = "recording" PROVE ClaimSettled(x)'
        OBVIOUS
      <3>2. /\ call'[x] = call[x] /\ Is(x, "resolve_approval")
            /\ ClaimSettled(x)
        BY <3>1, ActionsKept DEF AuthorityInv, StagesFit, StagesRemember
      <3>3. call[x].approval \in Requests
        BY <3>2 DEF Is, TypeOK, AllCalls, SubmitCalls, ResolveCalls,
                    MaintenanceCalls
      <3> QED BY <3>2, <3>3, ApprovalsKept DEF ClaimSettled
    <2> QED BY <1>1, <2>1, <2>2, <2>3
  <1>2. CASE Continue(x)
    <2>1. pc'[x] = "effected" => x \in executed'
      <3>1. pc'[x] = "effected" => ApplyEffect(x)
        BY <1>2
        DEF Continue, EvaluatePolicy, CreateApproval, AnnounceApproval,
            ResolveApproval, RecordResolution, MaintainActions, MaintainKeys,
            CaptureSnapshot, RecordSnapshot, VerifyTarget, PreflightFails,
            StartExecution, CompleteExecution, FailExecution, AnswerOk,
            AnswerError, Goto, Reply, FirstAwait, TypeOK
      <3> QED BY <3>1 DEF ApplyEffect
    <2>2. pc'[x] = "reconciling" => Is(x, "run_maintenance")'
      <3>1. pc'[x] = "reconciling" => MaintainActions(x)
        BY <1>2
        DEF Continue, EvaluatePolicy, CreateApproval, AnnounceApproval,
            ResolveApproval, RecordResolution, MaintainKeys,
            CaptureSnapshot, RecordSnapshot, VerifyTarget, PreflightFails,
            StartExecution, ApplyEffect, CompleteExecution, FailExecution,
            AnswerOk, AnswerError, Goto, Reply, FirstAwait, TypeOK
      <3> QED BY <3>1 DEF MaintainActions, Is
    <2>3. pc'[x] = "recording" => ClaimSettled(x)'
      <3>1. pc'[x] = "recording" => ResolveApproval(x)
        BY <1>2
        DEF Continue, EvaluatePolicy, CreateApproval, AnnounceApproval,
            RecordResolution, MaintainActions, MaintainKeys,
            CaptureSnapshot, RecordSnapshot, VerifyTarget, PreflightFails,
            StartExecution, ApplyEffect, CompleteExecution, FailExecution,
            AnswerOk, AnswerError, Goto, Reply, FirstAwait, TypeOK
      <3>2. SUFFICES ASSUME pc'[x] = "recording" PROVE ClaimSettled(x)'
        OBVIOUS
      <3>3. /\ call'[x] = call[x] /\ Is(x, "resolve_approval")
            /\ approval[call[x].approval] # "none"
            /\ approval' = [approval EXCEPT ![call[x].approval] =
                              ResolvedStatus(call[x].approval,
                                             call[x].resolution)]
        BY <3>1, <3>2 DEF ResolveApproval, Goto, TypeOK
      <3>4. /\ call[x].approval \in Requests
            /\ call[x].resolution \in {"approved", "denied"}
        BY <3>3 DEF Is, TypeOK, AllCalls, SubmitCalls, ResolveCalls,
                    MaintenanceCalls
      <3>5. approval[call[x].approval] \in ApprovalStates
        BY <3>4 DEF TypeOK, JournalTypeOK
      <3> QED BY <3>3, <3>4, <3>5
          DEF ClaimSettled, ResolvedStatus, ApprovalStates, TypeOK,
              JournalTypeOK
    <2> QED BY <2>1, <2>2, <2>3
  <1>3. ASSUME ~Continue(x), pc'[x] # pc[x]
        PROVE  pc'[x] \in {"failing", "done", "dispatch"}
    <2>1. ASSUME NEW r \in Requests, r # x, Continue(r) PROVE FALSE
      BY <1>3, <2>1, ContinueShape
    <2>2. ASSUME NEW r \in Requests,
                 StorageFault(r) \/ \E c \in Calls : Receive(r, c)
          PROVE  pc'[x] \in {"failing", "done", "dispatch"}
      BY <1>3, <2>2, FaultShape, ReceiveShape
    <2>3. CASE Crash
      BY <1>3, <2>3, CrashShape
    <2>4. CASE \/ \E r \in Requests : LateEffect(r)
               \/ Startup \/ UNCHANGED vars
      BY <1>3, <2>4 DEF LateEffect, Startup, StartupActions, StartupKeys, vars
    <2> QED BY <1>3, <2>1, <2>2, <2>3, <2>4 DEF Next, Quiet
  <1> QED BY <1>1, <1>2, <1>3

(* Who keeps a pending key in progress truthfully.                         *)
Keeper(r, k) ==
  /\ held[r] /\ Key(r) = k
  /\ Live(r) \/ (faults > 0 /\ outcome[r] = "failed")

(* Pending rows have their keepers, whatever one handler does.             *)
LEMMA KeeperKept ==
  ASSUME TypeOK, KeyInv, NEW q \in Requests, NEW k \in Keys, Keeper(q, k),
         UNCHANGED <<held, faults>>, call'[q] = call[q],
         pc'[q] = pc[q], outcome'[q] = outcome[q]
  PROVE  Keeper(q, k)'
  BY DEF Keeper, Key, Live

LEMMA ProgressStep ==
  ASSUME TypeOK, KeyInv, DownIsQuiet, InProgressIsTrue, [Next]_vars
  PROVE  InProgressIsTrue'
  <1>0. SUFFICES ASSUME daemon' = "up", NEW k \in Keys,
                        ledger'[k].state = "pending"
                 PROVE  \E q \in Requests : Keeper(q, k)'
    BY DEF InProgressIsTrue, Keeper
  <1>1. ASSUME daemon = "up", ledger[k].state = "pending"
        PROVE  \E q \in Requests : Keeper(q, k)
    BY <1>1 DEF InProgressIsTrue, Keeper
  <1>2. ASSUME NEW r \in Requests, Continue(r)
        PROVE  \E q \in Requests : Keeper(q, k)'
    <2>1. /\ Live(r) /\ UNCHANGED <<call, held, daemon, crashes, faults>>
          /\ \A q \in Requests \ {r} :
               pc'[q] = pc[q] /\ outcome'[q] = outcome[q]
      BY <1>2, ContinueShape
    <2>2. ledger[k].state = "pending"
      <3>1. CASE AnswerOk(r) \/ AnswerError(r)
        BY <1>0, <3>1
        DEF AnswerOk, CompleteMutation, AnswerError, LockKey,
            MarkOutcomeUnknown, TypeOK, Row
      <3>2. CASE ~AnswerOk(r) /\ ~AnswerError(r)
        <4>1. ReconcilePending \/ UNCHANGED ledger
          BY <1>2, <3>2, HandlerMoves
        <4> QED BY <1>0, <4>1 DEF ReconcilePending, TypeOK, Row
      <3> QED BY <3>1, <3>2
    <2>3. PICK q \in Requests : Keeper(q, k)
      BY <1>0, <1>1, <2>1, <2>2
    <2>4. CASE q # r
      <3>1. /\ UNCHANGED <<held, faults>> /\ call'[q] = call[q]
            /\ pc'[q] = pc[q] /\ outcome'[q] = outcome[q]
        BY <2>1, <2>4
      <3> QED BY <2>3, <3>1, KeeperKept
    <2>5. CASE q = r
      <3>1. held[r] /\ Key(r) = k
        BY <2>3, <2>5 DEF Keeper
      <3>2. ~AnswerOk(r) /\ ~AnswerError(r)
        BY <1>0, <3>1
        DEF AnswerOk, CompleteMutation, AnswerError, LockKey,
            MarkOutcomeUnknown, TypeOK, Row
      <3>3. pc'[r] \in LiveStages
        BY <1>2, <3>2, ContinueShape
      <3>4. Keeper(r, k)'
        BY <2>1, <3>1, <3>3 DEF Keeper, Key, Live
      <3> QED BY <3>4
    <2> QED BY <2>4, <2>5
  <1>3. ASSUME NEW r \in Requests, StorageFault(r)
        PROVE  \E q \in Requests : Keeper(q, k)'
    <2>1. /\ Live(r) /\ daemon = "up" /\ faults' > 0
          /\ UNCHANGED <<ledger, call, held, daemon>>
          /\ \A q \in Requests \ {r} :
               pc'[q] = pc[q] /\ outcome'[q] = outcome[q]
          /\ \/ pc'[r] = "failing"
             \/ outcome'[r] = "failed"
      BY <1>3, FaultShape
    <2>2. PICK q \in Requests : Keeper(q, k)
      BY <1>0, <1>1, <2>1
    <2>3. held'[q] /\ Key(q)' = k
      BY <2>1, <2>2 DEF Keeper, Key
    <2>4. Live(q)' \/ outcome'[q] = "failed"
      BY <2>1, <2>2, Names DEF Keeper, Live
    <2> QED BY <2>1, <2>3, <2>4 DEF Keeper
  <1>4. ASSUME NEW r \in Requests, NEW c \in Calls, Receive(r, c)
        PROVE  \E q \in Requests : Keeper(q, k)'
    <2>1. /\ pc[r] = "idle" /\ ~held[r] /\ daemon = "up" /\ UNCHANGED faults
          /\ \A q \in Requests \ {r} : /\ pc'[q] = pc[q]
                                       /\ outcome'[q] = outcome[q]
                                       /\ held'[q] = held[q]
          /\ call' = [call EXCEPT ![r] = c]
      BY <1>4, ReceiveShape DEF Receive
    <2>2. CASE ledger[k].state = "pending"
      <3>1. PICK q \in Requests : Keeper(q, k)
        BY <1>1, <2>1, <2>2
      <3>2. q # r
        BY <2>1, <3>1 DEF Keeper
      <3>3. held'[q] /\ Key(q)' = k
        BY <2>1, <3>1, <3>2 DEF Keeper, Key, TypeOK
      <3>4. Live(q)' \/ (faults' > 0 /\ outcome'[q] = "failed")
        BY <2>1, <3>1, <3>2 DEF Keeper, Live
      <3> QED BY <3>3, <3>4 DEF Keeper
    <2>3. CASE ledger[k].state # "pending"
      <3>1. /\ c.key = k /\ held' = [held EXCEPT ![r] = TRUE]
            /\ Goto(r, "dispatch")
        BY <1>0, <1>4, <2>3 DEF Receive, InsertPending, TypeOK
      <3>2. held'[r] /\ Key(r)' = k /\ pc'[r] = "dispatch"
        BY <2>1, <3>1 DEF Key, Goto, TypeOK
      <3>3. Keeper(r, k)'
        BY <3>2, Names DEF Keeper, Live
      <3> QED BY <3>3
    <2> QED BY <2>2, <2>3
  <1>5. CASE Crash
    BY <1>0, <1>5, CrashShape
  <1>6. CASE Startup
    <2>1. StartupKeys
      BY <1>0, <1>6 DEF Startup, StartupActions
    <2> QED BY <1>0, <2>1 DEF StartupKeys, ReconcilePending, TypeOK, Row
  <1>7. CASE (\E r \in Requests : LateEffect(r)) \/ UNCHANGED vars
    <2>1. UNCHANGED <<ledger, daemon, faults, pc, call, held, outcome>>
      BY <1>7 DEF LateEffect, vars, durable
    <2>2. PICK q \in Requests : Keeper(q, k)
      BY <1>0, <1>1, <2>1
    <2>3. Keeper(q, k)'
      BY <2>1, <2>2 DEF Keeper, Key, Live
    <2> QED BY <2>3
  <1> QED BY <1>2, <1>3, <1>4, <1>5, <1>6, <1>7 DEF Next, Quiet

-----------------------------------------------------------------------------
(* The invariant.                                                          *)

LEMMA DaemonInit == Init => DaemonInv
  <1> SUFFICES ASSUME Init PROVE DaemonInv
    OBVIOUS
  <1>1. TypeOK /\ KeyInv /\ AuthorityInv
    BY TypeInit, KeyInit, AuthorityInit
  <1>2. /\ daemon = "up" /\ executed = {} /\ outstanding = {}
        /\ \A r \in Requests : /\ pc[r] = "idle" /\ outcome[r] = "none"
                              /\ verdict[r] = NoVerdict
        /\ \A a \in Requests, e \in EventTypes : journal[a][e] = 0
        /\ \A k \in Keys : ledger[k].state = "absent"
    BY DEF Init, JournalInit, AbsentRow
  <1>3. DownIsQuiet /\ ReconciledOnce /\ InProgressIsTrue /\ StagesRemember
    BY <1>2, Names
    DEF DownIsQuiet, ReconciledOnce, InProgressIsTrue, StagesRemember
  <1>4. StartsAreAnnounced
    <2>1. \A a \in Requests : /\ Started(a) = {}
                             /\ journal[a]["execution.started"] = 0
      BY <1>2, Names DEF Started, Ran
    <2> QED BY <2>1, CountNothing DEF StartsAreAnnounced
  <1>5. StartsHaveBoundary
    BY <1>2 DEF StartsHaveBoundary, NoVerdict
  <1>6. OpenIsAttended
    BY <1>2, Names DEF OpenIsAttended, Open
  <1>7. SuccessIsReal
    BY <1>2 DEF SuccessIsReal, Succeeds, ReportedOk
  <1>8. StartsAreSettled
    <2>1. Received = {} /\ \A a \in Requests : Unsettled(a) = {}
      BY <1>2 DEF Received, Unsettled
    <2>2. \A a \in Requests : /\ journal[a]["execution.started"] = 0
                             /\ TerminalEvents(a) = 0
      BY <1>2, Names DEF TerminalEvents
    <2> QED BY <2>1, <2>2, FS_EmptySet DEF StartsAreSettled
  <1> QED BY <1>1, <1>3, <1>4, <1>5, <1>6, <1>7, <1>8 DEF DaemonInv, JournalInv

LEMMA DaemonStep == DaemonInv /\ [Next]_vars => DaemonInv'
  <1> SUFFICES ASSUME DaemonInv, [Next]_vars PROVE DaemonInv'
    OBVIOUS
  <1>1. TypeOK /\ KeyInv /\ AuthorityInv /\ JournalInv
    BY DEF DaemonInv
  <1>2. TypeOK' /\ KeyInv' /\ AuthorityInv'
    BY <1>1, TypeStep, KeyStep, AuthorityStep
  <1>3. JournalInv'
    BY <1>1, QuietStep, AnnouncedStep, BoundaryStep, OpenStep, SettledStep,
       SuccessStep, StagesStep, ReconcileStep, ProgressStep
    DEF JournalInv
  <1> QED BY <1>2, <1>3 DEF DaemonInv

LEMMA DaemonInvariant == Spec => []DaemonInv
  BY DaemonInit, DaemonStep, PTL DEF Spec

(* Each effect of an action has an execution.started event of its own in   *)
(* the journal, however many resolutions, crashes and late effects.        *)
THEOREM EffectsStayAnnounced == Spec => []EffectsAreAnnounced
  <1>1. DaemonInv => EffectsAreAnnounced
    <2> SUFFICES ASSUME DaemonInv, NEW a \in Requests
                 PROVE  Cardinality(EffectsOn(a)) <=
                          journal[a]["execution.started"]
      BY DEF EffectsAreAnnounced
    <2>1. executed \subseteq Requests
      BY DEF DaemonInv, TypeOK
    <2>2. EffectsOn(a) \subseteq Started(a)
      BY <2>1 DEF EffectsOn, Started, Ran
    <2>3. Within(Started(a), journal[a]["execution.started"])
      BY DEF DaemonInv, JournalInv, StartsAreAnnounced
    <2>4. journal[a]["execution.started"] \in Nat
      BY Names DEF DaemonInv, TypeOK, JournalTypeOK
    <2>5. Within(EffectsOn(a), journal[a]["execution.started"])
      BY <2>2, <2>3, <2>4, CountKept
    <2> QED BY <2>5 DEF Within
  <1> QED BY <1>1, DaemonInvariant, PTL

(* An action that needs a recovery boundary has one of its own before each *)
(* of its effects.                                                         *)
THEOREM EffectsStayProtected == Spec => []EffectsHaveBoundary
  <1>1. DaemonInv => EffectsHaveBoundary
    <2> SUFFICES ASSUME DaemonInv, NEW a \in Requests, verdict[a].snapshot
                 PROVE  Cardinality(EffectsOn(a)) <=
                          journal[a]["snapshot.created"]
      BY DEF EffectsHaveBoundary
    <2>1. executed \subseteq Requests
      BY DEF DaemonInv, TypeOK
    <2>2. EffectsOn(a) \subseteq Protected(a)
      BY <2>1 DEF EffectsOn, Protected, PastBoundary, Ran
    <2>3. Within(Protected(a), journal[a]["snapshot.created"])
      BY DEF DaemonInv, JournalInv, StartsHaveBoundary
    <2>4. journal[a]["snapshot.created"] \in Nat
      BY Names DEF DaemonInv, TypeOK, JournalTypeOK
    <2>5. Within(EffectsOn(a), journal[a]["snapshot.created"])
      BY <2>2, <2>3, <2>4, CountKept
    <2> QED BY <2>5 DEF Within
  <1> QED BY <1>1, DaemonInvariant, PTL

(* A success is never reported for an execution that did not take effect   *)
(* or that the journal does not show completed.                            *)
THEOREM SuccessIsExecution == Spec => []OkMeansExecuted
  <1>1. DaemonInv => OkMeansExecuted
    <2> SUFFICES ASSUME DaemonInv, NEW r \in Requests, outcome[r] = "ok",
                        ClaimsExecution(answer[r])
                 PROVE  /\ answer[r] \in executed
                        /\ journal[ActionOf(answer[r])]
                             ["execution.completed"] > 0
      BY DEF OkMeansExecuted
    <2>1. SuccessIsReal
      BY DEF DaemonInv, JournalInv
    <2>2. answer[r] \in Requests /\ Succeeds(answer[r])
      BY <2>1 DEF SuccessIsReal, Succeeds, ReportedOk
    <2>3. DoneAsClaimed(answer[r])
      BY <2>1, <2>2 DEF SuccessIsReal
    <2> QED BY <2>3 DEF DoneAsClaimed
  <1> QED BY <1>1, DaemonInvariant, PTL

(* While the daemon serves, an action nobody works on has an end for each  *)
(* execution that was started: in the journal, or with a client; but those *)
(* that a crash cut off may share one.                                     *)
THEOREM NothingEndsInSilence == Spec => []NoSilentExecution
  <1>1. DaemonInv => NoSilentExecution
    <2> SUFFICES ASSUME DaemonInv, daemon = "up", NEW a \in Requests,
                        \A r \in Requests : ActionOf(r) = a => ~Live(r)
                 PROVE  /\ journal[a]["execution.started"] > 0 => Ends(a) > 0
                        /\ journal[a]["execution.started"] <=
                             Ends(a) + Cardinality(Handled(a, "lost"))
      BY DEF NoSilentExecution
    <2> DEFINE F == Handled(a, "failed")
               L == Handled(a, "lost")
    <2>1. /\ journal[a]["execution.started"] \in Nat
          /\ journal[a]["execution.completed"] \in Nat
          /\ journal[a]["execution.failed"] \in Nat
          /\ journal[a]["execution.outcome_unknown"] \in Nat
      BY Names DEF DaemonInv, TypeOK, JournalTypeOK
    <2>2. Unsettled(a) = F \cup L
      BY Names DEF Unsettled, Handled, Live
    <2>3. IsFiniteSet(F) /\ IsFiniteSet(L)
      <3>1. F \subseteq Received /\ L \subseteq Received
        BY DEF Handled, Received, DaemonInv, KeyInv, Untouched
      <3> QED BY <3>1, FS_Subset DEF DaemonInv, JournalInv, StartsAreSettled
    <2>4. Cardinality(F) \in Nat /\ Cardinality(L) \in Nat
      BY <2>3, FS_CardinalityType
    <2>5. Cardinality(F \cup L) <= Cardinality(F) + Cardinality(L)
      <3>1. F \cap L = {}
        BY DEF Handled
      <3>2. Cardinality(F \cap L) = 0
        BY <3>1, FS_EmptySet
      <3>3. Cardinality(F \cup L) = Cardinality(F) + Cardinality(L) - Cardinality(F \cap L)
        BY <2>3, FS_Union
      <3> QED BY <2>4, <3>2, <3>3
    <2>6. journal[a]["execution.started"] <=
            TerminalEvents(a) + Cardinality(F \cup L)
      BY <2>2 DEF DaemonInv, JournalInv, StartsAreSettled
    <2>7. Cardinality(F \cup L) \in Nat
      BY <2>3, FS_Union, FS_CardinalityType
    <2>8. journal[a]["execution.started"] <= Ends(a) + Cardinality(L)
      BY <2>1, <2>4, <2>5, <2>6, <2>7 DEF Ends, TerminalEvents
    <2>9. ASSUME journal[a]["execution.started"] > 0 PROVE Ends(a) > 0
      <3>1. CASE Open(a)
        <4>1. Attended(a)
          BY <3>1 DEF DaemonInv, JournalInv, OpenIsAttended
        <4>2. F # {}
          BY <4>1, Names DEF Attended, Live, Handled
        <4>3. Cardinality(F) # 0
          BY <2>3, <4>2, FS_EmptySet
        <4> QED BY <2>1, <2>4, <4>3 DEF Ends, TerminalEvents
      <3>2. CASE ~Open(a)
        <4>1. \/ journal[a]["execution.completed"] > 0
              \/ journal[a]["execution.failed"] > 0
              \/ journal[a]["execution.outcome_unknown"] > 0
          BY <2>1, <2>9, <3>2 DEF Open, TerminalEvents
        <4> QED BY <2>1, <2>4, <4>1 DEF Ends, TerminalEvents
      <3> QED BY <3>1, <3>2
    <2> QED BY <2>8, <2>9
  <1> QED BY <1>1, DaemonInvariant, PTL

(* An interrupted action is flagged once, however often the daemon is      *)
(* restarted and reconciled.                                               *)
THEOREM FlaggedOnce == Spec => []ReconciledOnce
  <1>1. DaemonInv => ReconciledOnce
    BY DEF DaemonInv, JournalInv
  <1> QED BY <1>1, DaemonInvariant, PTL

(* A key in progress has a handler that is working for it, or one that     *)
(* failed while the journal refused its writes.                            *)
THEOREM ProgressStaysTrue == Spec => []InProgressIsTrue
  <1>1. DaemonInv => InProgressIsTrue
    BY DEF DaemonInv, JournalInv
  <1> QED BY <1>1, DaemonInvariant, PTL

-----------------------------------------------------------------------------
(* Truthful reconciliation, for clients that never request maintenance.    *)

(* An execution, or a boundary for one, without an end in the journal.     *)
Unended(a) ==
  /\ \/ journal[a]["snapshot.created"] > 0
     \/ journal[a]["execution.started"] > 0
  /\ TerminalEvents(a) = 0

(* A handler that works on an action, failed, or was cut off.              *)
Accountable(r) ==
  \/ pc[r] \in ExecutionStages \cup {"failing"}
  \/ outcome[r] \in {"failed", "lost"}

UnendedIsAccounted ==
  \A a \in Requests :
    Unended(a) => \E r \in Requests : ActionOf(r) = a /\ Accountable(r)

NoMaintenance == \A r \in Requests : ~Is(r, "run_maintenance")

TruthInv == DaemonInv /\ UnendedIsAccounted /\ NoMaintenance /\ UnknownIsTruthful

(* A handler stays accountable until its action has an end.                *)
LEMMA AccountableKept ==
  ASSUME TypeOK, KeyInv, [Next]_vars, NEW q \in Requests, Accountable(q)
  PROVE  \/ ActionOf(q)' = ActionOf(q) /\ Accountable(q)'
         \/ TerminalEvents(ActionOf(q))' > 0 /\ UNCHANGED call
  <1>1. pc[q] # "idle"
    BY Names DEF Accountable, KeyInv, Untouched, ExecutionStages
  <1>2. ActionOf(q)' = ActionOf(q)
    BY <1>1, ActionsKept
  <1>3. CASE outcome[q] \in {"failed", "lost"}
    BY <1>2, <1>3, OutcomesKept DEF Accountable
  <1>4. CASE pc[q] \in ExecutionStages \cup {"failing"}
    <2>1. Live(q)
      BY <1>4 DEF Live, LiveStages
    <2>2. CASE pc'[q] = pc[q]
      BY <1>2, <1>4, <2>2 DEF Accountable
    <2>3. CASE StorageFault(q) \/ Crash
      BY <1>2, <2>3, FaultShape, CrashShape DEF Accountable, Crash, TypeOK
    <2>4. CASE CompleteExecution(q)
      <3>1. /\ ActionOf(q) \in Requests
            /\ AppendRunEvent(ActionOf(q), "execution.completed")
            /\ UNCHANGED call
        BY <2>4, ActionOfType DEF CompleteExecution
      <3>2. /\ journal[ActionOf(q)]["execution.completed"] \in Nat
            /\ journal[ActionOf(q)]["execution.failed"] \in Nat
            /\ journal'[ActionOf(q)]["execution.completed"] =
                 journal[ActionOf(q)]["execution.completed"] + 1
            /\ journal'[ActionOf(q)]["execution.failed"] =
                 journal[ActionOf(q)]["execution.failed"]
        BY <3>1, Names DEF AppendRunEvent, TypeOK, JournalTypeOK
      <3>3. TerminalEvents(ActionOf(q))' =
              journal'[ActionOf(q)]["execution.completed"] +
                journal'[ActionOf(q)]["execution.failed"]
        BY <1>2 DEF TerminalEvents
      <3> QED BY <3>1, <3>2, <3>3
    <2>5. CASE Continue(q) /\ ~CompleteExecution(q)
      <3>1. \/ pc'[q] \in ExecutionStages \cup {"failing"}
            \/ outcome'[q] = "failed"
        BY <1>4, <2>5
        DEF Continue, EvaluatePolicy, CreateApproval, AnnounceApproval,
            ResolveApproval, RecordResolution, MaintainActions, MaintainKeys,
            CaptureSnapshot, RecordSnapshot, VerifyTarget, PreflightFails,
            StartExecution, ApplyEffect, FailExecution, AnswerOk, AnswerError,
            Finished, Goto, Reply, ExecutionStages, TypeOK
      <3> QED BY <1>2, <3>1 DEF Accountable
    <2>6. ASSUME ~Continue(q), ~StorageFault(q), ~Crash
          PROVE  pc'[q] = pc[q]
      <3>1. ASSUME NEW r \in Requests, r # q,
                   \/ Continue(r) \/ StorageFault(r)
                   \/ \E c \in Calls : Receive(r, c)
            PROVE  pc'[q] = pc[q]
        BY <3>1, ContinueShape, FaultShape, ReceiveShape
      <3>2. ASSUME NEW c \in Calls, Receive(q, c) PROVE FALSE
        BY <1>1, <3>2 DEF Receive
      <3>3. CASE \/ \E r \in Requests : LateEffect(r)
                 \/ Startup \/ UNCHANGED vars
        BY <3>3 DEF LateEffect, Startup, StartupActions, StartupKeys, vars
      <3> QED BY <2>6, <3>1, <3>2, <3>3 DEF Next, Quiet
    <2> QED BY <2>2, <2>3, <2>4, <2>5, <2>6
  <1> QED BY <1>3, <1>4 DEF Accountable

(* An action gets a boundary or a start from a handler that goes on.       *)
LEMMA Beginning ==
  ASSUME TypeOK, KeyInv, [Next]_vars, NEW a \in Requests,
         ~Unended(a), Unended(a)'
  PROVE  \E r \in Requests : ActionOf(r)' = a /\ Accountable(r)'
  <1>1. \A e \in EventTypes : /\ journal[a][e] \in Nat
                             /\ journal'[a][e] \in Nat
                             /\ journal[a][e] <= journal'[a][e]
    BY JournalGrows
  <1>2. /\ journal[a]["snapshot.created"] = 0
        /\ journal[a]["execution.started"] = 0
        /\ \/ journal'[a]["snapshot.created"] > 0
           \/ journal'[a]["execution.started"] > 0
    BY <1>1, Names DEF Unended, TerminalEvents
  <1> DEFINE SameCounts == /\ journal'[a]["snapshot.created"] =
                                journal[a]["snapshot.created"]
                           /\ journal'[a]["execution.started"] =
                                journal[a]["execution.started"]
  <1>3. ~SameCounts
    BY <1>2
  <1>4. ASSUME UNCHANGED journal PROVE SameCounts
    BY <1>4
  <1>5. ASSUME NEW done, RecoverInterrupted(done) PROVE SameCounts
    <2>1. journal[a] \in [EventTypes -> Nat]
      BY DEF TypeOK, JournalTypeOK
    <2>2. \/ journal'[a] = journal[a]
          \/ journal'[a] = [journal[a] EXCEPT !["execution.outcome_unknown"] =
                              @ + 1]
      BY <1>5 DEF RecoverInterrupted
    <2> QED BY <2>1, <2>2, Names
  <1> HIDE DEF SameCounts
  <1>6. ASSUME NEW r \in Requests, RecordSnapshot(r) \/ StartExecution(r)
        PROVE  \E q \in Requests : ActionOf(q)' = a /\ Accountable(q)'
    <2>1. /\ pc[r] # "idle"
          /\ pc'[r] \in ExecutionStages
      BY <1>6
      DEF RecordSnapshot, StartExecution, Goto, ExecutionStages, TypeOK
    <2>2. ActionOf(r)' = ActionOf(r) /\ ActionOf(r) \in Requests
      BY <2>1, ActionsKept, ActionOfType
    <2>3. ActionOf(r) = a
      BY <1>2, <1>6, <2>2, Names
      DEF RecordSnapshot, StartExecution, AppendRunEvent, TypeOK, JournalTypeOK
    <2>4. Accountable(r)'
      BY <2>1 DEF Accountable
    <2> QED BY <2>2, <2>3, <2>4
  <1>7. ASSUME NEW r \in Requests, Continue(r),
               ~RecordSnapshot(r), ~StartExecution(r)
        PROVE  FALSE
    <2>1. CASE AnnounceApproval(r) \/ RecordResolution(r)
               \/ CompleteExecution(r) \/ FailExecution(r)
      <3>1. \E b \in Requests,
               e \in EventTypes \ {"snapshot.created", "execution.started"} :
              AppendRunEvent(b, e)
        BY <2>1, ActionOfType, Names
        DEF AnnounceApproval, RecordResolution, CompleteExecution,
            FailExecution, FailureEvent
      <3> QED BY <1>2, <3>1, Names DEF AppendRunEvent, TypeOK, JournalTypeOK
    <2>2. CASE MaintainActions(r)
      BY <1>3, <1>5, <2>2 DEF MaintainActions
    <2>3. CASE \/ EvaluatePolicy(r) \/ CreateApproval(r) \/ ResolveApproval(r)
               \/ MaintainKeys(r) \/ CaptureSnapshot(r) \/ VerifyTarget(r)
               \/ PreflightFails(r) \/ ApplyEffect(r)
               \/ AnswerOk(r) \/ AnswerError(r)
      <3>1. UNCHANGED journal
        BY <2>3
        DEF EvaluatePolicy, CreateApproval, ResolveApproval, MaintainKeys,
            CaptureSnapshot, VerifyTarget, PreflightFails, ApplyEffect,
            AnswerOk, AnswerError, durable
      <3> QED BY <1>3, <1>4, <3>1
    <2> QED BY <1>7, <2>1, <2>2, <2>3 DEF Continue
  <1>8. ASSUME NEW r \in Requests,
               StorageFault(r) \/ LateEffect(r) \/ \E c \in Calls : Receive(r, c)
        PROVE  FALSE
    <2>1. UNCHANGED journal \/ \E done : RecoverInterrupted(done)
      BY <1>8 DEF StorageFault, PartlyRecovered, LateEffect, Receive
    <2> QED BY <1>3, <1>4, <1>5, <2>1
  <1>9. CASE Crash \/ Startup \/ UNCHANGED vars
    <2>1. UNCHANGED journal \/ \E done : RecoverInterrupted(done)
      BY <1>9 DEF Crash, PartlyRecovered, Startup, StartupActions, StartupKeys,
                  vars, durable
    <2> QED BY <1>3, <1>4, <1>5, <2>1
  <1> QED BY <1>6, <1>7, <1>8, <1>9 DEF Next, Quiet

(* Without maintenance only a daemon that is down flags actions.           *)
LEMMA FlaggedWhenDown ==
  ASSUME TypeOK, NoMaintenance, [Next]_vars, NEW a \in Requests,
         journal'[a]["execution.outcome_unknown"] #
           journal[a]["execution.outcome_unknown"]
  PROVE  daemon = "down" /\ Interrupted(a)
  <1>1. ASSUME NEW done, RecoverInterrupted(done) PROVE Interrupted(a)
    BY <1>1 DEF RecoverInterrupted
  <1>2. ASSUME UNCHANGED journal PROVE FALSE
    BY <1>2
  <1>3. ASSUME NEW b \in Requests, NEW e \in HandlerEvents,
               AppendRunEvent(b, e)
        PROVE  FALSE
    <2>1. journal[a] \in [EventTypes -> Nat]
      BY DEF TypeOK, JournalTypeOK
    <2>2. \/ journal'[a] = journal[a]
          \/ journal'[a] = [journal[a] EXCEPT ![e] = @ + 1]
      BY <1>3 DEF AppendRunEvent, TypeOK, JournalTypeOK
    <2> QED BY <2>1, <2>2, Names DEF HandlerEvents
  <1>4. ASSUME daemon # "down" PROVE ~Reconciling
    BY <1>4 DEF Reconciling, NoMaintenance
  <1>5. ASSUME NEW r \in Requests, Continue(r) PROVE FALSE
    <2>1. ActionOf(r) \in Requests
      BY ActionOfType
    <2>2. {"approval.requested", "approval.resolved", "snapshot.created",
           "execution.started", "execution.completed", "execution.failed"}
            \subseteq HandlerEvents
      BY DEF HandlerEvents, EventTypes
    <2>3. CASE \/ AnnounceApproval(r) \/ RecordResolution(r)
               \/ RecordSnapshot(r) \/ StartExecution(r)
               \/ CompleteExecution(r) \/ FailExecution(r)
      <3>1. \E b \in Requests, e \in HandlerEvents : AppendRunEvent(b, e)
        BY <2>1, <2>2, <2>3
        DEF AnnounceApproval, RecordResolution, RecordSnapshot,
            StartExecution, CompleteExecution, FailExecution, FailureEvent
      <3> QED BY <1>3, <3>1
    <2>4. ~MaintainActions(r)
      BY DEF MaintainActions, NoMaintenance
    <2>5. CASE \/ EvaluatePolicy(r) \/ CreateApproval(r) \/ ResolveApproval(r)
               \/ MaintainKeys(r) \/ CaptureSnapshot(r) \/ VerifyTarget(r)
               \/ PreflightFails(r) \/ ApplyEffect(r)
               \/ AnswerOk(r) \/ AnswerError(r)
      <3>1. UNCHANGED journal
        BY <2>5
        DEF EvaluatePolicy, CreateApproval, ResolveApproval, MaintainKeys,
            CaptureSnapshot, VerifyTarget, PreflightFails, ApplyEffect,
            AnswerOk, AnswerError, durable
      <3> QED BY <1>2, <3>1
    <2> QED BY <1>5, <2>3, <2>4, <2>5 DEF Continue
  <1>6. ASSUME NEW r \in Requests,
               StorageFault(r) \/ LateEffect(r) \/ \E c \in Calls : Receive(r, c)
        PROVE  FALSE
    <2>1. UNCHANGED journal
      BY <1>4, <1>6 DEF StorageFault, PartlyRecovered, LateEffect, Receive
    <2> QED BY <1>2, <2>1
  <1>7. CASE StartupActions
    BY <1>1, <1>7 DEF StartupActions
  <1>8. CASE Crash
    BY <1>1, <1>2, <1>4, <1>8 DEF Crash, PartlyRecovered
  <1>9. ~StartupKeys /\ ~UNCHANGED vars
    BY <1>2 DEF StartupKeys, vars, durable
  <1> QED BY <1>5, <1>6, <1>7, <1>8, <1>9 DEF Next, Startup, Quiet

LEMMA TruthStep ==
  ASSUME "run_maintenance" \notin Methods, TruthInv, [Next]_vars
  PROVE  TruthInv'
  <1>1. /\ TypeOK /\ KeyInv /\ DownIsQuiet
        /\ DaemonInv /\ UnendedIsAccounted /\ NoMaintenance
        /\ UnknownIsTruthful
    BY DEF TruthInv, DaemonInv, JournalInv
  <1>2. DaemonInv'
    BY <1>1, DaemonStep
  <1>3. NoMaintenance'
    <2>1. ASSUME NEW r \in Requests, pc[r] # "idle"
          PROVE  ~Is(r, "run_maintenance")'
      BY <1>1, <2>1, ActionsKept DEF NoMaintenance
    <2>2. ASSUME NEW r \in Requests, pc[r] = "idle"
          PROVE  ~Is(r, "run_maintenance")'
      <3>1. ASSUME NEW c \in Calls, Receive(r, c)
            PROVE  ~Is(r, "run_maintenance")'
        <4>1. call'[r] = c /\ c.method \in Methods
          BY <1>1, <3>1 DEF Receive, Calls, TypeOK
        <4> QED BY <4>1 DEF Is
      <3>2. ASSUME NEW q \in Requests, q # r, NEW c \in Calls, Receive(q, c)
            PROVE  call'[r] = call[r]
        BY <1>1, <3>2 DEF Receive, TypeOK
      <3>3. ASSUME NEW q \in Requests, Continue(q) \/ StorageFault(q)
            PROVE  call'[r] = call[r]
        BY <1>1, <3>3, ContinueShape, FaultShape
      <3>4. CASE \/ \E q \in Requests : LateEffect(q)
                 \/ Crash \/ Startup \/ UNCHANGED vars
        <4>1. call'[r] = call[r]
          BY <3>4 DEF LateEffect, Crash, Startup, StartupActions, StartupKeys,
                      vars
        <4> QED BY <1>1, <4>1 DEF NoMaintenance, Is
      <3> QED BY <1>1, <3>1, <3>2, <3>3, <3>4
          DEF NoMaintenance, Is, Next, Quiet
    <2> QED BY <2>1, <2>2 DEF NoMaintenance
  <1>4. UnendedIsAccounted'
    <2> SUFFICES ASSUME NEW a \in Requests, Unended(a)'
                 PROVE  \E r \in Requests : ActionOf(r)' = a /\ Accountable(r)'
      BY DEF UnendedIsAccounted
    <2>1. CASE Unended(a)
      <3>1. PICK q \in Requests : ActionOf(q) = a /\ Accountable(q)
        BY <1>1, <2>1 DEF UnendedIsAccounted
      <3>2. CASE ActionOf(q)' = ActionOf(q) /\ Accountable(q)'
        BY <3>1, <3>2
      <3>3. CASE TerminalEvents(ActionOf(q))' > 0 /\ UNCHANGED call
        <4>1. ActionOf(q)' = a
          BY <3>1, <3>3 DEF ActionOf, Is
        <4>2. TerminalEvents(a)' > 0
          BY <3>3, <4>1 DEF TerminalEvents
        <4> QED BY <4>2 DEF Unended
      <3> QED BY <1>1, <3>1, <3>2, <3>3, AccountableKept
    <2>2. CASE ~Unended(a)
      BY <1>1, <2>2, Beginning
    <2> QED BY <2>1, <2>2
  <1>5. UnknownIsTruthful'
    <2> SUFFICES ASSUME NEW a \in Requests,
                        journal'[a]["execution.outcome_unknown"] > 0
                 PROVE  \E r \in Requests : /\ ActionOf(r)' = a
                                            /\ outcome'[r] \in {"failed", "lost"}
      BY DEF UnknownIsTruthful
    <2>1. \E r \in Requests : /\ ActionOf(r) = a
                              /\ outcome[r] \in {"failed", "lost"}
      <3>1. CASE journal[a]["execution.outcome_unknown"] > 0
        BY <1>1, <3>1 DEF UnknownIsTruthful
      <3>2. CASE ~(journal[a]["execution.outcome_unknown"] > 0)
        <4>1. daemon = "down" /\ Interrupted(a)
          BY <1>1, <3>2, FlaggedWhenDown
        <4>2. PICK q \in Requests : ActionOf(q) = a /\ Accountable(q)
          BY <1>1, <4>1 DEF UnendedIsAccounted, Unended, Interrupted
        <4>3. ~Live(q)
          BY <1>1, <4>1 DEF DownIsQuiet
        <4>4. outcome[q] \in {"failed", "lost"}
          BY <4>2, <4>3 DEF Accountable, Live, LiveStages
        <4> QED BY <4>2, <4>4
      <3> QED BY <3>1, <3>2
    <2>2. PICK q \in Requests : /\ ActionOf(q) = a
                               /\ outcome[q] \in {"failed", "lost"}
      BY <2>1
    <2>3. outcome'[q] = outcome[q] /\ pc[q] = "done"
      BY <1>1, <2>2, OutcomesKept
    <2>4. ActionOf(q)' = a
      BY <1>1, <2>2, <2>3, ActionsKept
    <2> QED BY <2>2, <2>3, <2>4
  <1> QED BY <1>2, <1>3, <1>4, <1>5 DEF TruthInv

(* Where no client requests maintenance, an action is flagged as cut off   *)
(* only when one of its handlers failed or was cut off.                    *)
THEOREM FlagsAreTruthful ==
  ASSUME "run_maintenance" \notin Methods
  PROVE  Spec => []UnknownIsTruthful
  <1>1. Init => TruthInv
    <2> SUFFICES ASSUME Init PROVE TruthInv
      OBVIOUS
    <2>1. /\ \A a \in Requests, e \in EventTypes : journal[a][e] = 0
          /\ \A r \in Requests : call[r] = NoCall
      BY DEF Init, JournalInit
    <2>2. UnendedIsAccounted /\ UnknownIsTruthful
      BY <2>1, Names DEF UnendedIsAccounted, Unended, UnknownIsTruthful
    <2>3. NoMaintenance
      BY <2>1 DEF NoMaintenance, Is
    <2> QED BY <2>2, <2>3, DaemonInit DEF TruthInv
  <1>2. TruthInv /\ [Next]_vars => TruthInv'
    BY TruthStep
  <1>3. TruthInv => UnknownIsTruthful
    BY DEF TruthInv
  <1> QED BY <1>1, <1>2, <1>3, PTL DEF Spec

-----------------------------------------------------------------------------
(* What would make two refuted properties true.                            *)

(* The resolutions of one approval are tries of one request: they carry    *)
(* one idempotency key.                                                    *)
OneKeyPerApproval ==
  \A r1, r2 \in Requests :
    /\ Is(r1, "resolve_approval") /\ Is(r2, "resolve_approval")
    /\ call[r1].approval = call[r2].approval
    /\ r1 # r2
    => Keyed(r1) /\ Keyed(r2) /\ Key(r1) = Key(r2)

(* Only resolutions make the effects of an approved action.                *)
LEMMA ApprovedByResolution ==
  ASSUME TypeOK, AuthorityInv, NEW a \in Requests, approval[a] = "approved",
         NEW r \in EffectsOn(a)
  PROVE  /\ r \in Requests /\ r \in executed
         /\ Is(r, "resolve_approval") /\ call[r].approval = a
  <1>1. r \in Requests /\ r \in executed /\ ActionOf(r) = a
    BY DEF EffectsOn, TypeOK
  <1>2. Permitted(r)
    BY <1>1 DEF AuthorityInv, WorkersPermitted, Ran
  <1>3. Is(a, "submit_action_attempt") /\ verdict[a].decision = "ask"
    BY DEF AuthorityInv, ApprovalsWereAsked
  <1>4. ~Is(r, "submit_action_attempt")
    <2> SUFFICES ASSUME Is(r, "submit_action_attempt") PROVE FALSE
      OBVIOUS
    <2>1. r = a /\ ~Is(r, "resolve_approval")
      BY <1>1 DEF ActionOf, Is
    <2> QED BY <1>2, <1>3, <2>1 DEF Permitted
  <1>5. Is(r, "resolve_approval")
    BY <1>2, <1>4 DEF Permitted
  <1> QED BY <1>1, <1>5 DEF ActionOf

(* An approval is one permission where its resolutions share a key: then   *)
(* the ledger keeps from running twice what resolve_approval does not.     *)
THEOREM KeyedApprovalsRunOnce ==
  Spec /\ []OneKeyPerApproval => []ApprovalRunsOnce
  <1>1. DaemonInv /\ KeyRunsOnce /\ OneKeyPerApproval => ApprovalRunsOnce
    <2> SUFFICES ASSUME DaemonInv, KeyRunsOnce, OneKeyPerApproval,
                        NEW a \in Requests, approval[a] = "approved"
                 PROVE  Cardinality(EffectsOn(a)) <= 1
      BY DEF ApprovalRunsOnce
    <2>1. ASSUME NEW r1 \in EffectsOn(a), NEW r2 \in EffectsOn(a), r1 # r2
          PROVE  FALSE
      <3>1. /\ r1 \in Requests /\ r1 \in executed
            /\ Is(r1, "resolve_approval") /\ call[r1].approval = a
            /\ r2 \in Requests /\ r2 \in executed
            /\ Is(r2, "resolve_approval") /\ call[r2].approval = a
        BY ApprovedByResolution DEF DaemonInv
      <3>2. Keyed(r1) /\ Keyed(r2) /\ Key(r1) = Key(r2)
        BY <2>1, <3>1 DEF OneKeyPerApproval
      <3> QED BY <2>1, <3>1, <3>2 DEF KeyRunsOnce
    <2>2. CASE EffectsOn(a) = {}
      BY <2>2, FS_EmptySet
    <2>3. CASE EffectsOn(a) # {}
      <3> PICK r \in EffectsOn(a) : TRUE
        BY <2>3
      <3>1. EffectsOn(a) = {r}
        BY <2>1
      <3>2. Cardinality({r}) = 1
        BY FS_Singleton, Zenon
      <3> QED BY <3>1, <3>2
    <2> QED BY <2>2, <2>3
  <1> QED BY <1>1, DaemonInvariant, KeysRunOnce, PTL

(* A snapshot-backed change of a file.                                     *)
GuardedWrite(r) ==
  /\ verdict[ActionOf(r)].snapshot
  /\ Attempted(ActionOf(r)) \in Filesystem

(* An effect on the target that is under way, or may still come late.      *)
Changing(q) ==
  /\ pc[q] = "running" \/ q \in outstanding
  /\ ActionOf(q) \in MutatingActions

(* From its comparison to its effect, a guarded change has the target for  *)
(* itself: nobody changes it and nothing late is on its way.               *)
OneWriter ==
  \A r, q \in Requests :
    /\ pc[r] \in {"checking", "running"} /\ GuardedWrite(r)
    /\ Changing(q)
    => q = r

(* A guarded change is compared with its snapshot.                         *)
Compared ==
  \A r \in Requests :
    pc[r] = "verifying" /\ GuardedWrite(r) =>
      Attempted(ActionOf(r)) \notin Unlayered

StillFresh ==
  /\ \A r \in Requests :
       pc[r] \in {"checking", "running"} /\ GuardedWrite(r) =>
         Target = preimage[r]
  /\ \A r \in outstanding : Attempted(ActionOf(r)) \notin Filesystem

(* Whoever executes, or has run, works on an action that stays as it is.   *)
LEMMA WorkIsSettled ==
  ASSUME DaemonInv, [Next]_vars, NEW q \in Requests,
         pc[q] \in ExecutionStages \/ Ran(q)
  PROVE  /\ ActionOf(q) \in Requests /\ ActionOf(q)' = ActionOf(q)
         /\ Attempted(ActionOf(q))' = Attempted(ActionOf(q))
         /\ (ActionOf(q) \in MutatingActions)' <=> ActionOf(q) \in MutatingActions
         /\ verdict'[ActionOf(q)] = verdict[ActionOf(q)]
         /\ (verdict[ActionOf(q)].snapshot)' = verdict[ActionOf(q)].snapshot
  <1>1. Permitted(q) /\ pc[q] \notin {"idle", "dispatch"} /\ TypeOK
    BY DEF DaemonInv, AuthorityInv, WorkersPermitted
  <1>2. ActionOf(q) \in Requests /\ ActionOf(q)' = ActionOf(q)
    BY <1>1, ActionOfType, ActionsKept
  <1> PICK a \in Requests : a = ActionOf(q)
    BY <1>2
  <1>3. pc[a] \notin {"idle", "dispatch"}
    <2>1. CASE Is(q, "resolve_approval")
      <3>1. a = call[q].approval /\ approval[a] # "none"
        BY <1>1, <2>1 DEF ActionOf, Permitted, Is
      <3> QED BY <3>1 DEF DaemonInv, AuthorityInv, ApprovalsWereAsked
    <2>2. CASE ~Is(q, "resolve_approval")
      BY <1>1, <2>2 DEF ActionOf
    <2> QED BY <2>1, <2>2
  <1>4. call'[a] = call[a] /\ (Is(a, "submit_action_attempt")' <=> Is(a, "submit_action_attempt"))
    BY <1>1, <1>3, ActionsKept
  <1>5. (a \in MutatingActions)' <=> a \in MutatingActions
    BY <1>4 DEF MutatingActions, Attempted
  <1>6. verdict'[a] = verdict[a]
    <2>1. ~EvaluatePolicy(a)
      BY <1>3 DEF EvaluatePolicy
    <2> QED BY <1>1, <2>1, VerdictsKept
  <1> QED BY <1>2, <1>4, <1>5, <1>6 DEF Attempted

(* How a handler comes to the two stages before its effect.                *)
LEMMA ComingToCheck ==
  ASSUME DaemonInv, [Next]_vars, NEW r \in Requests,
         pc'[r] \in {"checking", "running"}
  PROVE  \/ pc[r] = pc'[r] /\ ~ApplyEffect(r) /\ ~LateEffect(r)
         \/ EvaluatePolicy(r) \/ RecordResolution(r)
         \/ RecordSnapshot(r) \/ VerifyTarget(r) \/ StartExecution(r)
  <1> TypeOK /\ KeyInv
    BY DEF DaemonInv
  <1>1. ~ApplyEffect(r) /\ ~LateEffect(r)
    BY DEF ApplyEffect, LateEffect, Goto, TypeOK
  <1>2. ASSUME NEW q \in Requests, Continue(q)
        PROVE  \/ pc[r] = pc'[r]
               \/ EvaluatePolicy(r) \/ RecordResolution(r)
               \/ RecordSnapshot(r) \/ VerifyTarget(r) \/ StartExecution(r)
    <2>1. CASE q # r
      BY <1>2, <2>1, ContinueShape
    <2>2. CASE q = r
      BY <1>2, <2>2
      DEF Continue, CreateApproval, AnnounceApproval, ResolveApproval,
          MaintainActions, MaintainKeys, CaptureSnapshot, PreflightFails,
          ApplyEffect, CompleteExecution, FailExecution, AnswerOk, AnswerError,
          Goto, Reply, TypeOK
    <2> QED BY <2>1, <2>2
  <1>3. ASSUME NEW q \in Requests, StorageFault(q) PROVE pc[r] = pc'[r]
    BY <1>3, FaultShape
  <1>4. ASSUME NEW q \in Requests, NEW c \in Calls, Receive(q, c)
        PROVE  pc[r] = pc'[r]
    BY <1>4, ReceiveShape
  <1>5. ASSUME NEW q \in Requests, LateEffect(q) PROVE pc[r] = pc'[r]
    BY <1>5 DEF LateEffect
  <1>6. CASE Crash
    BY <1>6, CrashShape, Names DEF Live
  <1>7. CASE Startup \/ UNCHANGED vars
    BY <1>1, <1>7 DEF Startup, StartupActions, StartupKeys, vars
  <1> QED BY <1>1, <1>2, <1>3, <1>4, <1>5, <1>6, <1>7 DEF Next, Quiet

(* Who changes the world, and whose work goes on elsewhere.                *)
LEMMA EffectsComeFrom ==
  ASSUME [Next]_vars
  PROVE  /\ \/ UNCHANGED executed
            \/ \E q \in Requests : /\ ApplyEffect(q) \/ LateEffect(q)
                                   /\ executed' = executed \cup {q}
         /\ \A r \in outstanding' : r \in outstanding
                                    \/ (r \in Requests /\ StartExecution(r))
         /\ \A r \in Requests : pc[r] # "snapshotting" /\ TypeOK =>
              preimage'[r] = preimage[r]
  <1>1. ASSUME NEW q \in Requests, Continue(q) \/ LateEffect(q)
        PROVE  /\ UNCHANGED executed \/ ((ApplyEffect(q) \/ LateEffect(q))
                                         /\ executed' = executed \cup {q})
               /\ \A r \in outstanding' : r \in outstanding
                                          \/ (r \in Requests /\ StartExecution(r))
               /\ \A r \in Requests : pc[r] # "snapshotting" /\ TypeOK =>
                    preimage'[r] = preimage[r]
    <2>1. CASE \/ EvaluatePolicy(q) \/ CreateApproval(q) \/ AnnounceApproval(q)
               \/ ResolveApproval(q) \/ RecordResolution(q) \/ MaintainActions(q)
               \/ MaintainKeys(q) \/ RecordSnapshot(q) \/ VerifyTarget(q)
               \/ PreflightFails(q) \/ CompleteExecution(q) \/ FailExecution(q)
               \/ AnswerOk(q) \/ AnswerError(q)
      BY <2>1
      DEF EvaluatePolicy, CreateApproval, AnnounceApproval, ResolveApproval,
          RecordResolution, MaintainActions, MaintainKeys, RecordSnapshot,
          VerifyTarget, PreflightFails, CompleteExecution, FailExecution,
          AnswerOk, AnswerError, durable
    <2>2. CASE CaptureSnapshot(q)
      BY <2>2 DEF CaptureSnapshot, durable, TypeOK
    <2>3. CASE StartExecution(q)
      BY <2>3 DEF StartExecution
    <2>4. CASE ApplyEffect(q) \/ LateEffect(q)
      BY <2>4 DEF ApplyEffect, LateEffect
    <2> QED BY <1>1, <2>1, <2>2, <2>3, <2>4 DEF Continue
  <1>2. ASSUME NEW q \in Requests, StorageFault(q) \/ \E c \in Calls : Receive(q, c)
        PROVE  UNCHANGED <<executed, outstanding, preimage>>
    BY <1>2 DEF StorageFault, Receive
  <1>3. CASE Crash \/ Startup \/ UNCHANGED vars
    BY <1>3 DEF Crash, Startup, StartupActions, StartupKeys, vars, durable
  <1> QED BY <1>1, <1>2, <1>3 DEF Next, Quiet

(* The target stays as it is, unless somebody under way changes it.        *)
LEMMA TargetKept ==
  ASSUME DaemonInv, [Next]_vars,
         \A q \in Requests :
           ApplyEffect(q) \/ LateEffect(q) => ActionOf(q) \notin MutatingActions
  PROVE  Target' = Target
  <1>1. ASSUME NEW q \in executed
        PROVE  (ActionOf(q) \in MutatingActions)' <=> ActionOf(q) \in MutatingActions
    BY WorkIsSettled DEF Ran, DaemonInv, TypeOK
  <1>2. CASE UNCHANGED executed
    BY <1>1, <1>2 DEF Target
  <1>3. ASSUME NEW q \in Requests, ApplyEffect(q) \/ LateEffect(q),
               executed' = executed \cup {q}
        PROVE  Target' = Target
    <2>1. ActionOf(q) \notin MutatingActions
      BY <1>3
    <2>2. pc[q] \in ExecutionStages \/ Ran(q)
      BY <1>3 DEF ApplyEffect, CanApply, LateEffect, Ran, ExecutionStages
    <2>3. ~(ActionOf(q) \in MutatingActions)'
      BY <2>1, <2>2, WorkIsSettled
    <2> QED BY <1>1, <1>3, <2>1, <2>3 DEF Target
  <1> QED BY <1>2, <1>3, EffectsComeFrom

LEMMA FreshStep ==
  ASSUME DaemonInv, OneWriter, Compared, StillFresh, [Next]_vars
  PROVE  StillFresh'
  <1> TypeOK /\ KeyInv
    BY DEF DaemonInv
  <1>1. ASSUME NEW r \in Requests, pc'[r] \in {"checking", "running"},
               GuardedWrite(r)'
        PROVE  (Target = preimage[r])'
    <2>1. CASE pc[r] = pc'[r] /\ ~ApplyEffect(r) /\ ~LateEffect(r)
      <3>1. GuardedWrite(r)
        BY <1>1, <2>1, WorkIsSettled DEF GuardedWrite, ExecutionStages
      <3>2. \A q \in Requests :
              ApplyEffect(q) \/ LateEffect(q) => ActionOf(q) \notin MutatingActions
        BY <1>1, <2>1, <3>1
        DEF OneWriter, Changing, ApplyEffect, CanApply, LateEffect
      <3>3. Target = preimage[r]
        BY <1>1, <2>1, <3>1 DEF StillFresh
      <3>4. preimage'[r] = preimage[r]
        BY <1>1, <2>1, EffectsComeFrom
      <3> QED BY <3>2, <3>3, <3>4, TargetKept
    <2>2. CASE EvaluatePolicy(r)
      <3>1. PICK v \in Verdicts :
              LET b == BudgetedVerdict(r, v)
              IN /\ verdict' = [verdict EXCEPT ![r] = b]
                 /\ \/ b.decision = "ask" /\ Goto(r, "asking")
                    \/ b.decision = "deny" /\ Goto(r, "finishing")
                    \/ /\ b.decision \notin {"ask", "deny"}
                       /\ Goto(r, FirstAwait(b))
        BY <2>2 DEF EvaluatePolicy
      <3>2. verdict'[r] = BudgetedVerdict(r, v)
        BY <3>1 DEF TypeOK, JournalTypeOK
      <3>3. ~(verdict[r].snapshot)'
        BY <1>1, <3>1, <3>2 DEF Goto, FirstAwait, TypeOK
      <3>4. ActionOf(r)' = r
        BY <2>2 DEF EvaluatePolicy, ActionOf, Is
      <3> QED BY <1>1, <3>3, <3>4 DEF GuardedWrite
    <2>3. CASE RecordResolution(r)
      <3>1. pc'[r] = FirstAwait(verdict[ActionOf(r)]) \/ pc'[r] = "finishing"
        BY <2>3 DEF RecordResolution, Goto, TypeOK
      <3>2. ~verdict[ActionOf(r)].snapshot
        BY <1>1, <3>1 DEF FirstAwait
      <3> QED BY <1>1, <2>3, <3>2 DEF RecordResolution, GuardedWrite, ActionOf, Is
    <2>4. CASE RecordSnapshot(r)
      <3>1. Attempted(ActionOf(r)) \notin Filesystem
        BY <1>1, <2>4 DEF RecordSnapshot, Goto, TypeOK
      <3> QED BY <1>1, <2>4, <3>1
          DEF RecordSnapshot, GuardedWrite, ActionOf, Is, Attempted
    <2>5. CASE VerifyTarget(r)
      <3>1. pc[r] = "verifying" /\ GuardedWrite(r)
        BY <1>1, <2>5
        DEF VerifyTarget, durable, GuardedWrite, ActionOf, Is, Attempted
      <3>2. Attempted(ActionOf(r)) \notin Unlayered
        BY <3>1 DEF Compared
      <3>3. Target = preimage[r]
        BY <1>1, <2>5, <3>2 DEF VerifyTarget, Goto, TypeOK
      <3> QED BY <2>5, <3>3
          DEF VerifyTarget, durable, Target, ActionOf, Is, MutatingActions, Attempted
    <2>6. CASE StartExecution(r)
      <3>1. GuardedWrite(r) /\ pc[r] = "checking"
        BY <1>1, <2>6 DEF StartExecution, GuardedWrite, ActionOf, Is, Attempted
      <3>2. Target = preimage[r]
        BY <3>1 DEF StillFresh
      <3> QED BY <2>6, <3>2
          DEF StartExecution, Target, ActionOf, Is, MutatingActions, Attempted
    <2> QED BY <1>1, <2>1, <2>2, <2>3, <2>4, <2>5, <2>6, ComingToCheck
  <1>2. ASSUME NEW r \in outstanding'
        PROVE  Attempted(ActionOf(r))' \notin Filesystem
    <2>1. CASE r \in outstanding
      <3>1. r \in Requests /\ Ran(r)
        BY <2>1 DEF TypeOK, Ran
      <3> QED BY <2>1, <3>1, WorkIsSettled DEF StillFresh
    <2>2. CASE r \notin outstanding /\ r \in Requests /\ StartExecution(r)
      <3>1. Attempted(ActionOf(r)) \notin Filesystem
        BY <1>2, <2>2 DEF StartExecution
      <3> QED BY <2>2, <3>1, WorkIsSettled DEF StartExecution, ExecutionStages
    <2> QED BY <1>2, <2>1, <2>2, EffectsComeFrom
  <1> QED BY <1>1, <1>2 DEF StillFresh

(* A guarded change starts from the content its snapshot holds where that  *)
(* snapshot is layered, so that it is compared, and where, from then on,   *)
(* it has the target for itself: the await between the comparison and the  *)
(* effect is all that stale_preimage makes use of.                         *)
THEOREM SoleWritersAreFresh ==
  Spec /\ [](OneWriter /\ Compared) => FreshPreimage
  <1>1. Init => StillFresh
    BY DEF Init, StillFresh
  <1>2. DaemonInv /\ OneWriter /\ Compared /\ StillFresh /\ [Next]_vars =>
          StillFresh'
    BY FreshStep
  <1>3. DaemonInv /\ StillFresh /\ [Next]_vars =>
          [\A r \in executed' \ executed :
             /\ verdict[ActionOf(r)].snapshot
             /\ Attempted(ActionOf(r)) \in Filesystem
             => Target = preimage[r]]_vars
    <2> SUFFICES ASSUME DaemonInv, StillFresh, [Next]_vars,
                        NEW r \in executed' \ executed, GuardedWrite(r)
                 PROVE  Target = preimage[r]
      BY DEF GuardedWrite
    <2>1. r \in Requests /\ (ApplyEffect(r) \/ LateEffect(r))
      BY EffectsComeFrom
    <2>2. ~LateEffect(r)
      BY DEF LateEffect, StillFresh, GuardedWrite
    <2> QED BY <2>1, <2>2 DEF ApplyEffect, CanApply, StillFresh
  <1>4. Spec /\ [](OneWriter /\ Compared) => []StillFresh
    BY <1>1, <1>2, DaemonInvariant, PTL DEF Spec
  <1> QED BY <1>3, <1>4, DaemonInvariant, PTL DEF Spec, FreshPreimage
=============================================================================
