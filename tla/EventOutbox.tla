----------------------------- MODULE EventOutbox -----------------------------
(***************************************************************************)
(* Events the connectors of a workspace publish to the control plane: the  *)
(* durable outbox of each connector (packages/cloud-connector), the batch  *)
(* it sends in each sync cycle, and ingestConnectorEvents with the store   *)
(* behind it (apps/agentgit-cloud, packages/control-plane-state).          *)
(*                                                                         *)
(* A fact is what an event is about: a state of the repository, a policy,  *)
(* an event of a run, an approval, a snapshot.  The id of an event is a    *)
(* hash of the fact alone, so two machines that see the same fact make     *)
(* events with the same id.  One process works for a machine at a time.    *)
(* Fresh request ids make the receipts of the control plane idle, as in    *)
(* CommandSync; payloads and notifications are left out.                   *)
(***************************************************************************)
EXTENDS Naturals, FiniteSets

CONSTANTS Machines, Facts,
          Sees,              (* pairs of a machine and a fact it may see   *)
          NoConnector, NoFact,
          Lasting,           (* facts that are there to see for good       *)
          MaxBatch,          (* most events in a batch (1000 in the code)  *)
          WithinBody,        (* batches of at most 1,000,000 bytes         *)
          MaxRegistrations,  (* bound: registrations of each machine       *)
          MaxFaults          (* bound: crashes, lost answers and troubles  *)

ASSUME EventOutboxAssumption ==
  /\ Sees \subseteq Machines \X Facts
  /\ NoFact \notin Facts
  /\ Lasting \subseteq Facts
  /\ NoConnector \notin Machines \X Nat
  /\ MaxBatch \in Nat \ {0}
  /\ MaxRegistrations \in [Machines -> Nat \ {0}]
  /\ MaxFaults \in Nat

VARIABLES
  happened,      (* facts a machine can see at present                     *)
  trouble,       (* why the cycles of a machine fail, if they do           *)
  registration,  (* which of its registrations a machine has saved         *)
  outbox,        (* the outbox rows of a machine                           *)
  nextSequence,
  pc,            (* where a machine is in publishLocalState                *)
  todo,          (* facts the collectors have still to emit                *)
  claimed,       (* the fact a sequence number was claimed for             *)
  sent,          (* facts in the batch being published                     *)
  late,          (* a batch it gave up on, perhaps still on its way        *)
  ingested,      (* events of the control plane: whose, and their number   *)
  faults

store == <<registration, outbox, nextSequence>>
memory == <<pc, todo, claimed, sent>>
vars == <<happened, trouble, store, memory, late, ingested, faults>>

(* The registration of a machine an event was emitted under makes the      *)
(* connector id in it.                                                     *)
Connectors == Machines \X Nat

OutboxRows == [state : {"absent", "pending", "submitted"},
               sequence : Nat, registration : Nat]

Batches == [registration : Nat, facts : SUBSET Facts]

TypeOK ==
  /\ happened \in [Machines -> SUBSET Facts]
  /\ trouble \in [Machines -> {"none", "barred", "broken"}]
  /\ registration \in [Machines -> Nat \ {0}]
  /\ \A m \in Machines : registration[m] <= MaxRegistrations[m]
  /\ outbox \in [Machines -> [Facts -> OutboxRows]]
  /\ nextSequence \in [Machines -> Nat \ {0}]
  /\ pc \in [Machines -> {"idle", "collecting", "sending"}]
  /\ todo \in [Machines -> SUBSET Facts]
  /\ claimed \in [Machines -> Facts \cup {NoFact}]
  /\ sent \in [Machines -> SUBSET Facts]
  /\ \A m \in Machines : pc[m] # "sending" => sent[m] = {}
  /\ late \in [Machines -> Batches]
  /\ ingested \in [Facts -> [by : Connectors \cup {NoConnector},
                             sequence : Nat]]
  /\ faults \in 0..MaxFaults

NoBatch == [registration |-> 0, facts |-> {}]
AbsentRow == [state |-> "absent", sequence |-> 0, registration |-> 0]

Init ==
  /\ happened = [m \in Machines |-> {}]
  /\ trouble = [m \in Machines |-> "none"]
  /\ registration = [m \in Machines |-> 1]
  /\ outbox = [m \in Machines |-> [f \in Facts |-> AbsentRow]]
  /\ nextSequence = [m \in Machines |-> 1]
  /\ pc = [m \in Machines |-> "idle"]
  /\ todo = [m \in Machines |-> {}]
  /\ claimed = [m \in Machines |-> NoFact]
  /\ sent = [m \in Machines |-> {}]
  /\ late = [m \in Machines |-> NoBatch]
  /\ ingested = [f \in Facts |-> [by |-> NoConnector, sequence |-> 0]]
  /\ faults = 0

-----------------------------------------------------------------------------
(* The control plane: ingestConnectorEvents.                               *)

Sequence(m, f) == outbox[m][f].sequence

(* A batch is refused whole when its body is too large (413) or an event   *)
(* in it is of another connector id (403).                                 *)
Admitted(m, b) ==
  /\ b.facts \in WithinBody
  /\ \A f \in b.facts : outbox[m][f].registration = b.registration

(* Faulty: events stored before are not skipped.                           *)
NewOrOld(m, b) == b.facts

(* Events the connector has not stored yet.                                *)
New(m, b) == {f \in b.facts : ingested[f].by # <<m, b.registration>>}

(* Among them, those the loop throws at: out of sequence (409), or stored  *)
(* under the same id by another connector (CONFLICT).                      *)
Stops(m, b) ==
  {f \in New(m, b) :
     \/ \E g \in Facts : /\ ingested[g].by = <<m, b.registration>>
                         /\ ingested[g].sequence >= Sequence(m, f)
     \/ ingested[f].by # NoConnector}

(* Faulty: an event stored by another connector is skipped.                *)
AppendedSkipping(m, b) ==
  IF Admitted(m, b) THEN {f \in New(m, b) : ingested[f].by = NoConnector}
                    ELSE {}

(* What is stored, in order of sequence, before the loop ends or throws.   *)
Appended(m, b) ==
  IF Admitted(m, b)
  THEN {f \in New(m, b) :
          \A g \in Stops(m, b) : Sequence(m, f) < Sequence(m, g)}
  ELSE {}

(* Faulty: an error inside the loop is answered as a success.              *)
AcceptedWhole(m, b) == Admitted(m, b)

(* The answer is a success only when the loop came to its end.             *)
Accepted(m, b) == Admitted(m, b) /\ Stops(m, b) = {}

Store(m, b, S) ==
  ingested' = [f \in Facts |-> IF f \in S
                               THEN [by |-> <<m, b.registration>>,
                                     sequence |-> Sequence(m, f)]
                               ELSE ingested[f]]

(* The server stops after some of them: each is a write of its own.        *)
StoreSome(m, b) ==
  \E n \in 1..nextSequence[m] :
    Store(m, b, {f \in Appended(m, b) : Sequence(m, f) < n})

-----------------------------------------------------------------------------
(* The machine.                                                            *)

Happen(m, f) ==
  /\ <<m, f>> \in Sees
  /\ f \notin happened[m]
  /\ happened' = [happened EXCEPT ![m] = @ \cup {f}]
  /\ UNCHANGED <<trouble, store, memory, late, ingested, faults>>

(* The collectors read the present state: a head that has moved, a policy  *)
(* replaced, an approval resolved or a snapshot removed before they come   *)
(* to it is never emitted.                                                 *)
Pass(m, f) ==
  /\ f \in happened[m] \ Lasting
  /\ happened' = [happened EXCEPT ![m] = @ \ {f}]
  /\ todo' \in {todo, [todo EXCEPT ![m] = @ \ {f}]}
  /\ UNCHANGED <<trouble, store, pc, claimed, sent, late, ingested, faults>>

Fault == faults < MaxFaults /\ faults' = faults + 1

Ails(m, t) ==
  /\ trouble[m] = "none"
  /\ Fault
  /\ trouble' = [trouble EXCEPT ![m] = t]

(* The registration expires or is revoked: its token opens nothing more,   *)
(* for a request on its way either.                                        *)
Bar(m) ==
  /\ Ails(m, "barred")
  /\ late' = IF late[m].registration = registration[m]
             THEN [late EXCEPT ![m] = NoBatch] ELSE late
  /\ UNCHANGED <<happened, store, memory, ingested>>

(* A policy file or a manifest of a snapshot is too large, or broken: the  *)
(* collectors throw at it, until somebody mends it.                        *)
Break(m) ==
  /\ Ails(m, "broken")
  /\ UNCHANGED <<happened, store, memory, late, ingested>>

Mend(m) ==
  /\ trouble[m] = "broken"
  /\ trouble' = [trouble EXCEPT ![m] = "none"]
  /\ UNCHANGED <<happened, store, memory, late, ingested, faults>>

(* bootstrap: the machine registers again and gets a new connector id; its *)
(* outbox stays as it is.                                                  *)
Register(m) ==
  /\ pc[m] = "idle"
  /\ registration[m] < MaxRegistrations[m]
  /\ registration' = [registration EXCEPT ![m] = @ + 1]
  /\ trouble' = [trouble EXCEPT ![m] = IF @ = "barred" THEN "none" ELSE @]
  /\ UNCHANGED <<happened, outbox, nextSequence, memory, late, ingested,
                 faults>>

(* publishLocalState: collect what there is, except events already in the  *)
(* outbox.  A cycle begins with a heartbeat.                               *)
Collect(m) ==
  /\ pc[m] = "idle" /\ trouble[m] # "barred"
  /\ pc' = [pc EXCEPT ![m] = "collecting"]
  /\ todo' = [todo EXCEPT ![m] = {f \in happened[m] :
                                    outbox[m][f].state = "absent"}]
  /\ UNCHANGED <<happened, trouble, store, claimed, sent, late, ingested,
                 faults>>

(* Faulty: the next sequence number is not written back.                   *)
ClaimSameSequence(m, f) ==
  /\ pc[m] = "collecting"
  /\ claimed[m] = NoFact
  /\ f \in todo[m]
  /\ claimed' = [claimed EXCEPT ![m] = f]
  /\ todo' = [todo EXCEPT ![m] = @ \ {f}]
  /\ UNCHANGED <<happened, trouble, registration, nextSequence, outbox, pc,
                 sent, late, ingested, faults>>

(* emitEvent: a sequence number is claimed in one write ...                *)
ClaimNextSequence(m, f) ==
  /\ pc[m] = "collecting"
  /\ claimed[m] = NoFact
  /\ f \in todo[m]
  /\ nextSequence' = [nextSequence EXCEPT ![m] = @ + 1]
  /\ claimed' = [claimed EXCEPT ![m] = f]
  /\ todo' = [todo EXCEPT ![m] = @ \ {f}]
  /\ UNCHANGED <<happened, trouble, registration, outbox, pc, sent, late,
                 ingested, faults>>

(* ... and the event enqueued in another.                                  *)
EnqueueEvent(m) ==
  /\ claimed[m] # NoFact
  /\ outbox' = [outbox EXCEPT ![m][claimed[m]] =
                  [state |-> "pending", sequence |-> nextSequence[m] - 1,
                   registration |-> registration[m]]]
  /\ claimed' = [claimed EXCEPT ![m] = NoFact]
  /\ UNCHANGED <<happened, trouble, registration, nextSequence, pc, todo, sent,
                 late, ingested, faults>>

Pending(m) == {f \in Facts : outbox[m][f].state = "pending"}

Batch(m) == [registration |-> registration[m], facts |-> sent[m]]

(* flushOutbox: every pending event goes into one batch; one too large for *)
(* the schema is thrown at before it is sent.  A file that breaks once it  *)
(* was read does so, here, after the flush.                                *)
FlushOutbox(m) ==
  /\ trouble[m] # "broken"
  /\ pc[m] = "collecting" /\ claimed[m] = NoFact /\ todo[m] = {}
  /\ IF Pending(m) # {} /\ Cardinality(Pending(m)) <= MaxBatch
     THEN /\ pc' = [pc EXCEPT ![m] = "sending"]
          /\ sent' = [sent EXCEPT ![m] = Pending(m)]
     ELSE pc' = [pc EXCEPT ![m] = "idle"] /\ UNCHANGED sent
  /\ UNCHANGED <<happened, trouble, store, todo, claimed, late, ingested,
                 faults>>

MarkSubmitted(m, S) ==
  outbox' = [outbox EXCEPT ![m] =
               [f \in Facts |->
                  IF f \in S THEN [outbox[m][f] EXCEPT !.state = "submitted"]
                             ELSE outbox[m][f]]]

(* Faulty: the batch outlives its cycle.                                   *)
ForgetNothing(m) == pc' = [pc EXCEPT ![m] = "idle"] /\ UNCHANGED sent

Forget(m) ==
  /\ pc' = [pc EXCEPT ![m] = "idle"]
  /\ sent' = [sent EXCEPT ![m] = {}]

(* A collector throws, or a request is refused for its token (401).        *)
CycleFails(m) ==
  /\ \/ trouble[m] = "barred" /\ pc[m] # "idle"
     \/ trouble[m] = "broken" /\ pc[m] = "collecting"
  /\ claimed[m] = NoFact
  /\ todo' = [todo EXCEPT ![m] = {}]
  /\ Forget(m)
  /\ UNCHANGED <<happened, trouble, store, claimed, late, ingested, faults>>

(* The batch is answered: the events are marked, or the cycle ends with an *)
(* error.                                                                  *)
Published(m) ==
  /\ pc[m] = "sending" /\ trouble[m] # "barred"
  /\ Store(m, Batch(m), Appended(m, Batch(m)))
  /\ IF Accepted(m, Batch(m)) THEN MarkSubmitted(m, sent[m])
                              ELSE UNCHANGED outbox
  /\ Forget(m)
  /\ UNCHANGED <<happened, trouble, registration, nextSequence, todo, claimed,
                 late, faults>>

(* The answer is lost: the server stops among the events, or the machine   *)
(* does while it marks them.                                               *)
PublishCutShort(m) ==
  /\ pc[m] = "sending" /\ trouble[m] # "barred"
  /\ Fault
  /\ \/ StoreSome(m, Batch(m)) /\ UNCHANGED outbox
     \/ /\ Accepted(m, Batch(m))
        /\ Store(m, Batch(m), Appended(m, Batch(m)))
        /\ \E S \in SUBSET sent[m] : MarkSubmitted(m, S)
  /\ Forget(m)
  /\ UNCHANGED <<happened, trouble, registration, nextSequence, todo, claimed,
                 late>>

(* The machine stops, or gives up on a request that may still arrive.      *)
Crash(m) ==
  /\ pc[m] # "idle"
  /\ Fault
  /\ late' = IF pc[m] = "sending" /\ trouble[m] # "barred"
             THEN [late EXCEPT ![m] = Batch(m)] ELSE late
  /\ todo' = [todo EXCEPT ![m] = {}]
  /\ claimed' = [claimed EXCEPT ![m] = NoFact]
  /\ Forget(m)
  /\ UNCHANGED <<happened, trouble, store, ingested>>

LateBatch(m) ==
  /\ late[m] # NoBatch
  /\ Store(m, late[m], Appended(m, late[m]))
  /\ late' = [late EXCEPT ![m] = NoBatch]
  /\ UNCHANGED <<happened, trouble, store, memory, faults>>

-----------------------------------------------------------------------------
Next ==
  \E m \in Machines :
    \/ \E f \in Facts : Happen(m, f) \/ Pass(m, f) \/ ClaimNextSequence(m, f)
    \/ Bar(m) \/ Break(m) \/ Mend(m) \/ Register(m)
    \/ Collect(m) \/ EnqueueEvent(m) \/ FlushOutbox(m) \/ CycleFails(m)
    \/ Published(m) \/ PublishCutShort(m) \/ Crash(m) \/ LateBatch(m)

Spec == Init /\ [][Next]_vars

(* The sync cycle of every machine goes on for ever (CloudConnectorDaemon, *)
(* which backs off and tries again after an error).                        *)
Fairness ==
  \A m \in Machines :
    /\ WF_vars(Collect(m)) /\ WF_vars(EnqueueEvent(m))
    /\ WF_vars(\E f \in Facts : ClaimNextSequence(m, f))
    /\ WF_vars(FlushOutbox(m)) /\ WF_vars(CycleFails(m))
    /\ WF_vars(Published(m))

FairSpec == Spec /\ Fairness

-----------------------------------------------------------------------------
(* Properties.                                                             *)

(* An event marked as submitted is in the control plane, as this           *)
(* connector's and under its number, whatever answer was lost before.      *)
SubmittedIsIngested ==
  \A m \in Machines, f \in Facts :
    outbox[m][f].state = "submitted" =>
      ingested[f] = [by |-> <<m, outbox[m][f].registration>>,
                     sequence |-> Sequence(m, f)]

(* What the control plane has of a connector is a prefix of what it        *)
(* emitted: no event overtakes an older one, across batches that overlap,  *)
(* stop in the middle, or arrive late.                                     *)
IngestedIsPrefix ==
  \A m \in Machines, f, g \in Facts :
    /\ outbox[m][f].state # "absent"
    /\ ingested[g].by = <<m, outbox[m][f].registration>>
    /\ Sequence(m, f) < ingested[g].sequence
    => ingested[f].by = <<m, outbox[m][f].registration>>

(* A connector never meets its own sequence numbers: an event still to be  *)
(* stored has a number above all that are.                                 *)
NoSequenceConflict ==
  \A m \in Machines, f, g \in Facts :
    /\ outbox[m][f].state # "absent"
    /\ ingested[g].by = <<m, outbox[m][f].registration>>
    /\ ingested[g].sequence = Sequence(m, f)
    => f = g

(* The ways an outbox is stuck for good: an event of a former registration *)
(* is refused, as is one that another connector stored first, more events  *)
(* than a batch may hold, and a body larger than a request may be.         *)
Stuck(m) ==
  \/ \E f \in Pending(m) : outbox[m][f].registration # registration[m]
  \/ Cardinality(Pending(m)) > MaxBatch
  \/ Pending(m) # {} /\ Pending(m) \notin WithinBody
  \/ \E f \in Pending(m) :
       ingested[f].by \notin {NoConnector, <<m, registration[m]>>}

(* The fact passed before an event of it was in the outbox.                *)
Missed(m, f) == f \notin happened[m] /\ outbox[m][f].state = "absent"

(* A machine whose trouble is ended submits every fact that lasts until a  *)
(* cycle comes to it, and every event once in its outbox, unless the       *)
(* outbox is stuck.                                                        *)
FactsAreSubmitted ==
  \A s \in Sees :
    LET m == s[1]
        f == s[2]
    IN <>[](trouble[m] = "none") =>
         (f \in happened[m] \/ f \in Pending(m)
            ~> (outbox[m][f].state = "submitted" \/ Missed(m, f) \/ Stuck(m)))
=============================================================================
