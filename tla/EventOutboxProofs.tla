-------------------------- MODULE EventOutboxProofs --------------------------
(***************************************************************************)
(* Proofs about EventOutbox, for any number of machines, facts,            *)
(* registrations, crashes and lost answers.  A row of an outbox keeps the  *)
(* number and the registration it was enqueued with; a batch holds every   *)
(* row with a smaller number that was not submitted yet; and the control   *)
(* plane stores a batch from its beginning.  From these three facts it     *)
(* follows that what is stored is a prefix and agrees with the outbox.     *)
(***************************************************************************)
EXTENDS EventOutbox, TLAPS

Present(m, f) == outbox[m][f].state # "absent"

(* What is still to be emitted has no row yet, and is not emitted twice.   *)
CollectingInv ==
  \A m \in Machines :
    /\ pc[m] # "collecting" => todo[m] = {} /\ claimed[m] = NoFact
    /\ \A f \in todo[m] : ~Present(m, f)
    /\ claimed[m] # NoFact => /\ ~Present(m, claimed[m])
                              /\ claimed[m] \notin todo[m]

(* Rows have different numbers, below the one claimed or to be claimed.    *)
NumberInv ==
  \A m \in Machines, f \in Facts :
    Present(m, f) =>
      /\ Sequence(m, f) < nextSequence[m]
      /\ claimed[m] # NoFact => Sequence(m, f) < nextSequence[m] - 1
      /\ \A g \in Facts :
           Present(m, g) /\ Sequence(m, g) = Sequence(m, f) => f = g

(* What the control plane has of a connector is in its outbox, under the   *)
(* same number and registration.                                           *)
StoredInv ==
  \A m \in Machines, f \in Facts :
    (\E r \in Nat : ingested[f].by = <<m, r>>) =>
      /\ Present(m, f)
      /\ ingested[f] = [by |-> <<m, outbox[m][f].registration>>,
                        sequence |-> Sequence(m, f)]

(* A batch leaves out no earlier row but those submitted.                  *)
Complete(m, F) ==
  \A g \in F :
    /\ Present(m, g)
    /\ \A f \in Facts :
         Present(m, f) /\ Sequence(m, f) < Sequence(m, g) =>
           f \in F \/ outbox[m][f].state = "submitted"

BatchInv ==
  \A m \in Machines : Complete(m, sent[m]) /\ Complete(m, late[m].facts)

IInv ==
  /\ TypeOK
  /\ CollectingInv
  /\ NumberInv
  /\ StoredInv
  /\ BatchInv
  /\ SubmittedIsIngested
  /\ IngestedIsPrefix

-----------------------------------------------------------------------------
(* What the control plane does with a batch.                               *)

(* S is stored in order of sequence, as far as the loop got.               *)
Prefix(m, b, S) ==
  /\ S \subseteq Appended(m, b)
  /\ \A g \in S, f \in Appended(m, b) :
       Sequence(m, f) < Sequence(m, g) => f \in S

(* The rows of every outbox keep their numbers and registrations.          *)
SameRows ==
  /\ outbox' \in [Machines -> [Facts -> OutboxRows]]
  /\ \A n \in Machines, f \in Facts :
       /\ outbox'[n][f].sequence = outbox[n][f].sequence
       /\ outbox'[n][f].registration = outbox[n][f].registration
       /\ outbox'[n][f].state = "absent" <=> outbox[n][f].state = "absent"

(* An event is stored under the connector that sends it and its number,    *)
(* and never touched again.                                                *)
LEMMA StoreKeeps ==
  ASSUME TypeOK, NEW m \in Machines, NEW b \in Batches, Complete(m, b.facts),
         NEW S, Prefix(m, b, S), Store(m, b, S)
  PROVE  /\ ingested' \in [Facts -> [by : Connectors \cup {NoConnector},
                                     sequence : Nat]]
         /\ S \in SUBSET b.facts
         /\ \A f \in Facts : ingested[f].by # NoConnector => ingested'[f] = ingested[f]
         /\ \A f \in Facts :
              ingested'[f] # ingested[f] =>
                /\ f \in S /\ Present(m, f)
                /\ ingested'[f] = [by |-> <<m, outbox[m][f].registration>>,
                                   sequence |-> Sequence(m, f)]
  <1>1. /\ S \subseteq b.facts
        /\ \A f \in S : f \in New(m, b) /\ f \notin Stops(m, b) /\ Admitted(m, b)
    <2> SUFFICES ASSUME NEW f \in S
                 PROVE  f \in New(m, b) /\ f \notin Stops(m, b) /\ Admitted(m, b)
      BY DEF New
    <2>1. f \in Appended(m, b)
      BY DEF Prefix
    <2>2. Admitted(m, b) /\ f \in New(m, b)
      BY <2>1 DEF Appended
    <2>3. \A g \in Stops(m, b) : Sequence(m, f) < Sequence(m, g)
      BY <2>1, <2>2 DEF Appended
    <2>4. Sequence(m, f) \in Nat
      BY <2>2 DEF New, Sequence, TypeOK, OutboxRows, Batches
    <2> QED BY <2>2, <2>3, <2>4
  <1>2. \A f \in S : ingested[f].by = NoConnector
    BY <1>1 DEF Stops, New, Batches
  <1>3. b.registration \in Nat /\ b.facts \subseteq Facts
    BY DEF Batches
  <1>4. \A f \in S : /\ Present(m, f)
                     /\ outbox[m][f].registration = b.registration
                     /\ Sequence(m, f) \in Nat
    BY <1>1, <1>3 DEF Complete, Admitted, Sequence, TypeOK, OutboxRows
  <1>5. <<m, b.registration>> \in Connectors
    BY <1>3 DEF Connectors
  <1>6. \A f \in Facts : ingested'[f] =
          IF f \in S THEN [by |-> <<m, b.registration>>, sequence |-> Sequence(m, f)]
                     ELSE ingested[f]
    BY DEF Store
  <1>7. ingested' \in [Facts -> [by : Connectors \cup {NoConnector}, sequence : Nat]]
    BY <1>4, <1>5, <1>6 DEF Store, TypeOK
  <1> QED BY <1>1, <1>2, <1>3, <1>4, <1>6, <1>7

(* All of an accepted batch is stored.                                     *)
LEMMA AcceptedIsStored ==
  ASSUME TypeOK, StoredInv, NEW m \in Machines, NEW b \in Batches,
         Complete(m, b.facts), Accepted(m, b), Store(m, b, Appended(m, b))
  PROVE  \A f \in b.facts :
           ingested'[f] = [by |-> <<m, outbox[m][f].registration>>,
                           sequence |-> Sequence(m, f)]
  <1> SUFFICES ASSUME NEW f \in b.facts
               PROVE  ingested'[f] = [by |-> <<m, outbox[m][f].registration>>,
                                      sequence |-> Sequence(m, f)]
    OBVIOUS
  <1>1. f \in Facts /\ b.registration \in Nat
    BY DEF Batches
  <1>2. outbox[m][f].registration = b.registration
    BY DEF Accepted, Admitted
  <1>3. CASE f \in New(m, b)
    <2>1. f \in Appended(m, b)
      BY <1>3 DEF Accepted, Appended
    <2> QED BY <1>1, <1>2, <2>1 DEF Store
  <1>4. CASE f \notin New(m, b)
    <2>1. ingested[f].by = <<m, b.registration>> /\ f \notin Appended(m, b)
      BY <1>4 DEF New, Appended
    <2>2. ingested[f] = [by |-> <<m, outbox[m][f].registration>>,
                         sequence |-> Sequence(m, f)]
      BY <1>1, <2>1 DEF StoredInv
    <2> QED BY <1>1, <2>1, <2>2 DEF Store
  <1> QED BY <1>3, <1>4

(* What is stored stays a prefix of the outbox and agrees with it, also    *)
(* when rows are marked in the same step.                                  *)
LEMMA StoreStep ==
  ASSUME TypeOK, StoredInv, SubmittedIsIngested, IngestedIsPrefix,
         NEW m \in Machines, NEW b \in Batches, Complete(m, b.facts),
         NEW S, Prefix(m, b, S), Store(m, b, S), SameRows
  PROVE  StoredInv' /\ IngestedIsPrefix'
  <1> DEFINE Stored(n, f) == [by |-> <<n, outbox[n][f].registration>>,
                              sequence |-> Sequence(n, f)]
  <1>1. /\ S \in SUBSET b.facts
        /\ \A f \in Facts : ingested[f].by # NoConnector => ingested'[f] = ingested[f]
        /\ \A f \in Facts :
             ingested'[f] # ingested[f] =>
               f \in S /\ Present(m, f) /\ ingested'[f] = Stored(m, f)
    BY StoreKeeps
  <1>2. \A n \in Machines, f \in Facts :
          /\ Sequence(n, f)' = Sequence(n, f)
          /\ Present(n, f)' <=> Present(n, f)
          /\ Stored(n, f)' = Stored(n, f)
    BY DEF SameRows, Sequence, Present
  <1> HIDE DEF Stored
  <1>3. StoredInv'
    <2> SUFFICES ASSUME NEW n \in Machines, NEW f \in Facts, NEW r \in Nat,
                        ingested'[f].by = <<n, r>>
                 PROVE  Present(n, f) /\ ingested'[f] = Stored(n, f)
      BY DEF StoredInv, Stored, SameRows, Sequence, Present
    <2>1. CASE ingested'[f] = ingested[f]
      BY <2>1 DEF StoredInv, Stored
    <2>2. CASE ingested'[f] # ingested[f]
      <3>1. Present(m, f) /\ ingested'[f] = Stored(m, f)
        BY <1>1, <2>2
      <3>2. ingested'[f].by = <<m, outbox[m][f].registration>>
        BY <3>1 DEF Stored
      <3>3. m = n
        BY <3>2
      <3> QED BY <3>1, <3>3
    <2> QED BY <2>1, <2>2
  <1>4. IngestedIsPrefix'
    <2> SUFFICES ASSUME NEW n \in Machines, NEW f \in Facts, NEW g \in Facts,
                        Present(n, f),
                        ingested'[g].by = <<n, outbox[n][f].registration>>,
                        Sequence(n, f) < ingested'[g].sequence
                 PROVE  ingested'[f].by = <<n, outbox[n][f].registration>>
      BY <1>2 DEF IngestedIsPrefix, Present, SameRows, Sequence
    <2>1. NoConnector # <<n, outbox[n][f].registration>>
      <3>1. outbox[n][f].registration \in Nat
        BY DEF TypeOK, OutboxRows
      <3> QED BY <3>1, EventOutboxAssumption
    <2>2. CASE ingested'[g] = ingested[g]
      <3>1. ingested[f].by = <<n, outbox[n][f].registration>>
        BY <2>2 DEF IngestedIsPrefix, Present
      <3> QED BY <1>1, <2>1, <3>1
    <2>3. CASE ingested'[g] # ingested[g]
      <3>1. /\ n = m /\ g \in S /\ g \in b.facts
            /\ ingested'[g].sequence = Sequence(m, g)
            /\ outbox[m][g].registration = outbox[m][f].registration
        <4>1. g \in S /\ ingested'[g] = Stored(m, g)
          BY <1>1, <2>3
        <4>2. /\ ingested'[g].by = <<m, outbox[m][g].registration>>
              /\ ingested'[g].sequence = Sequence(m, g)
          BY <4>1 DEF Stored
        <4>3. <<m, outbox[m][g].registration>> = <<n, outbox[n][f].registration>>
          BY <4>2
        <4>4. m = n /\ outbox[m][g].registration = outbox[n][f].registration
          BY <4>3
        <4> QED BY <1>1, <4>1, <4>2, <4>4
      <3>2. f \in b.facts \/ outbox[m][f].state = "submitted"
        BY <3>1 DEF Complete
      <3>3. CASE outbox[m][f].state = "submitted"
        <4>1. ingested[f] = Stored(m, f)
          BY <3>3 DEF SubmittedIsIngested, Stored
        <4>2. ingested[f].by = <<m, outbox[m][f].registration>>
          BY <4>1 DEF Stored
        <4> QED BY <1>1, <2>1, <3>1, <4>2
      <3>4. CASE f \in b.facts
        <4>1. g \in Appended(m, b) /\ Admitted(m, b)
          BY <3>1 DEF Prefix, Appended
        <4>2. outbox[m][f].registration = b.registration
          BY <3>4, <4>1 DEF Admitted
        <4>3. CASE f \notin New(m, b)
          <5>1. ingested[f].by = <<m, b.registration>>
            BY <3>4, <4>3 DEF New
          <5> QED BY <1>1, <2>1, <3>1, <4>2, <5>1
        <4>4. CASE f \in New(m, b)
          <5>1. \A h \in Stops(m, b) : Sequence(m, f) < Sequence(m, h)
            <6> SUFFICES ASSUME NEW h \in Stops(m, b)
                         PROVE  Sequence(m, f) < Sequence(m, h)
              OBVIOUS
            <6>1. Sequence(m, g) < Sequence(m, h)
              BY <4>1 DEF Appended
            <6>2. h \in Facts
              BY DEF Stops, New, Batches
            <6>3. /\ Sequence(m, f) \in Nat /\ Sequence(m, g) \in Nat
                  /\ Sequence(m, h) \in Nat
              BY <6>2 DEF Sequence, TypeOK, OutboxRows
            <6>4. Sequence(m, f) < Sequence(m, g)
              BY <3>1
            <6> QED BY <6>1, <6>3, <6>4
          <5>2. f \in Appended(m, b)
            BY <4>1, <4>4, <5>1 DEF Appended
          <5>3. f \in S
            BY <3>1, <5>2 DEF Prefix
          <5> QED BY <3>1, <4>2, <5>3 DEF Store
        <4> QED BY <4>3, <4>4
      <3> QED BY <3>2, <3>3, <3>4
    <2> QED BY <2>2, <2>3
  <1> QED BY <1>3, <1>4

-----------------------------------------------------------------------------
(* Initially and after every step.                                         *)

LEMMA InvInit == Init => IInv
  <1> SUFFICES ASSUME Init PROVE IInv
    OBVIOUS
  <1> USE EventOutboxAssumption DEF Init, AbsentRow, NoBatch
  <1>1. TypeOK
    BY DEF TypeOK, OutboxRows, Batches
  <1>2. \A m \in Machines, f \in Facts : ~Present(m, f)
    BY DEF Present
  <1>3. CollectingInv /\ NumberInv
    BY <1>2 DEF CollectingInv, NumberInv
  <1>4. StoredInv /\ IngestedIsPrefix /\ SubmittedIsIngested
    BY DEF StoredInv, IngestedIsPrefix, SubmittedIsIngested
  <1>5. BatchInv
    BY DEF BatchInv, Complete
  <1> QED BY <1>1, <1>3, <1>4, <1>5 DEF IInv

LEMMA CompleteKept ==
  ASSUME NEW m \in Machines, NEW F \in SUBSET Facts, Complete(m, F), SameRows,
         \A f \in Facts : outbox[m][f].state = "submitted" =>
                           outbox'[m][f].state = "submitted"
  PROVE  Complete(m, F)'
  <1>1. \A f \in Facts : /\ Sequence(m, f)' = Sequence(m, f)
                         /\ Present(m, f)' <=> Present(m, f)
    BY DEF SameRows, Sequence, Present
  <1> QED BY <1>1 DEF Complete, Sequence, Present, SameRows

(* Steps that neither write a row nor store an event.                      *)
LEMMA QuietStep ==
  ASSUME IInv, TypeOK', CollectingInv', UNCHANGED <<outbox, ingested>>,
         \A n \in Machines : /\ sent'[n] \in {sent[n], {}}
                             /\ late'[n].facts \in {late[n].facts, sent[n], {}},
         \A n \in Machines :
           \/ nextSequence'[n] = nextSequence[n] /\ claimed'[n] \in {claimed[n], NoFact}
           \/ nextSequence'[n] = nextSequence[n] + 1 /\ claimed[n] = NoFact
  PROVE  IInv'
  <1> USE DEF IInv
  <1>1. \A n \in Machines, f \in Facts : /\ Sequence(n, f)' = Sequence(n, f)
                                       /\ Sequence(n, f) \in Nat
                                       /\ nextSequence[n] \in Nat
                                       /\ Present(n, f)' <=> Present(n, f)
    BY DEF Sequence, Present, TypeOK, OutboxRows
  <1>2. NumberInv'
    <2> SUFFICES ASSUME NEW n \in Machines, NEW f \in Facts, Present(n, f)
                 PROVE  /\ Sequence(n, f) < nextSequence'[n]
                        /\ claimed'[n] # NoFact =>
                             Sequence(n, f) < nextSequence'[n] - 1
                        /\ \A g \in Facts :
                             Present(n, g) /\ Sequence(n, g) = Sequence(n, f) => f = g
      BY <1>1 DEF NumberInv, Sequence, Present
    <2>1. /\ Sequence(n, f) < nextSequence[n]
          /\ claimed[n] # NoFact => Sequence(n, f) < nextSequence[n] - 1
          /\ \A g \in Facts :
               Present(n, g) /\ Sequence(n, g) = Sequence(n, f) => f = g
      BY DEF NumberInv
    <2>2. \/ nextSequence'[n] = nextSequence[n] /\ claimed'[n] \in {claimed[n], NoFact}
          \/ nextSequence'[n] = nextSequence[n] + 1 /\ claimed[n] = NoFact
      OBVIOUS
    <2> QED BY <1>1, <2>1, <2>2
  <1>3. StoredInv' /\ SubmittedIsIngested' /\ IngestedIsPrefix'
    BY DEF StoredInv, SubmittedIsIngested, IngestedIsPrefix, Present, Sequence
  <1>4. BatchInv'
    <2> SUFFICES ASSUME NEW n \in Machines,
                        NEW F \in {sent[n], late[n].facts, {}}
                 PROVE  \A g \in F :
                          /\ Present(n, g)
                          /\ \A f \in Facts :
                               Present(n, f) /\ Sequence(n, f) < Sequence(n, g) =>
                                 f \in F \/ outbox[n][f].state = "submitted"
      BY DEF BatchInv, Complete, Present, Sequence
    <2> QED BY DEF BatchInv, Complete
  <1> QED BY <1>2, <1>3, <1>4

LEMMA HappenStep ==
  ASSUME IInv, NEW m \in Machines, NEW f \in Facts, Happen(m, f)
  PROVE  IInv'
  <1>1. TypeOK'
    BY DEF IInv, TypeOK, Happen, store, memory
  <1>2. CollectingInv'
    BY DEF IInv, CollectingInv, Present, Happen, store, memory
  <1> QED BY <1>1, <1>2, QuietStep DEF Happen, store, memory

LEMMA PassStep ==
  ASSUME IInv, NEW m \in Machines, NEW f \in Facts, Pass(m, f)
  PROVE  IInv'
  <1>0. /\ happened \in [Machines -> SUBSET Facts]
        /\ todo \in [Machines -> SUBSET Facts]
    BY DEF IInv, TypeOK
  <1>1. /\ todo' \in [Machines -> SUBSET Facts]
        /\ \A n \in Machines : todo'[n] \subseteq todo[n]
    <2>1. CASE todo' = todo
      BY <1>0, <2>1
    <2>2. CASE todo' = [todo EXCEPT ![m] = @ \ {f}]
      BY <1>0, <2>2
    <2> QED BY <2>1, <2>2 DEF Pass
  <1>2. /\ happened' \in [Machines -> SUBSET Facts]
        /\ UNCHANGED <<trouble, store, pc, claimed, sent, late, ingested, faults>>
    BY <1>0 DEF Pass
  <1>3. TypeOK'
    BY <1>1, <1>2 DEF IInv, TypeOK, store
  <1>4. CollectingInv'
    BY <1>1, <1>2 DEF IInv, CollectingInv, Present, store
  <1> QED BY <1>2, <1>3, <1>4, QuietStep DEF store

LEMMA TroubleStep ==
  ASSUME IInv, NEW m \in Machines, Bar(m) \/ Break(m) \/ Mend(m)
  PROVE  IInv'
  <1>0. NoBatch \in Batches /\ NoBatch.facts = {}
    BY DEF NoBatch, Batches
  <1>1. /\ late' \in [Machines -> Batches]
        /\ \A n \in Machines : late'[n].facts \in {late[n].facts, {}}
    <2>1. late' = late \/ late' = [late EXCEPT ![m] = NoBatch]
      BY DEF Bar, Break, Mend
    <2>2. late \in [Machines -> Batches]
      BY DEF IInv, TypeOK
    <2>3. CASE late' = late
      BY <2>2, <2>3
    <2>4. CASE late' = [late EXCEPT ![m] = NoBatch]
      <3>1. \A n \in Machines : late'[n] = IF n = m THEN NoBatch ELSE late[n]
        BY <2>2, <2>4
      <3> QED BY <1>0, <2>2, <2>4, <3>1
    <2> QED BY <2>1, <2>3, <2>4
  <1>2. /\ trouble' \in [Machines -> {"none", "barred", "broken"}]
        /\ faults' \in 0..MaxFaults
    <2>1. /\ trouble \in [Machines -> {"none", "barred", "broken"}]
          /\ faults \in 0..MaxFaults /\ MaxFaults \in Nat
      BY EventOutboxAssumption DEF IInv, TypeOK
    <2>2. PICK t \in {"none", "barred", "broken"} :
            trouble' = [trouble EXCEPT ![m] = t]
      BY DEF Bar, Break, Mend, Ails
    <2>3. faults' = faults \/ Fault
      BY DEF Bar, Break, Mend, Ails
    <2> QED BY <2>1, <2>2, <2>3 DEF Fault
  <1>3. UNCHANGED <<happened, registration, outbox, nextSequence, pc, todo,
                    claimed, sent, ingested>>
    BY DEF Bar, Break, Mend, store, memory
  <1>4. TypeOK'
    BY <1>1, <1>2, <1>3 DEF IInv, TypeOK
  <1>5. CollectingInv'
    BY <1>3 DEF IInv, CollectingInv, Present
  <1> QED BY <1>1, <1>3, <1>4, <1>5, QuietStep

LEMMA RegisterStep ==
  ASSUME IInv, NEW m \in Machines, Register(m)
  PROVE  IInv'
  <1>1. TypeOK'
    <2>1. /\ registration' \in [Machines -> Nat \ {0}]
          /\ \A n \in Machines : registration'[n] <= MaxRegistrations[n]
      <3>1. /\ registration \in [Machines -> Nat \ {0}]
            /\ \A n \in Machines : registration[n] <= MaxRegistrations[n]
            /\ MaxRegistrations \in [Machines -> Nat \ {0}]
        BY EventOutboxAssumption DEF IInv, TypeOK
      <3>2. /\ registration' = [registration EXCEPT ![m] = @ + 1]
            /\ registration[m] < MaxRegistrations[m]
        BY DEF Register
      <3>3. /\ registration'[m] = registration[m] + 1
            /\ \A n \in Machines : n # m => registration'[n] = registration[n]
        BY <3>1, <3>2
      <3>4. registration[m] \in Nat /\ MaxRegistrations[m] \in Nat
        BY <3>1
      <3> QED BY <3>1, <3>2, <3>3, <3>4
    <2>2. trouble' \in [Machines -> {"none", "barred", "broken"}]
      <3>1. trouble \in [Machines -> {"none", "barred", "broken"}]
        BY DEF IInv, TypeOK
      <3>2. PICK t \in {"none", trouble[m]} :
              trouble' = [trouble EXCEPT ![m] = t]
        BY DEF Register
      <3> QED BY <3>1, <3>2
    <2> QED BY <2>1, <2>2 DEF IInv, TypeOK, Register, memory
  <1>2. CollectingInv'
    BY DEF IInv, CollectingInv, Present, Register, memory
  <1> QED BY <1>1, <1>2, QuietStep DEF Register, memory

LEMMA CollectStep ==
  ASSUME IInv, NEW m \in Machines, Collect(m)
  PROVE  IInv'
  <1>1. TypeOK'
    BY DEF IInv, TypeOK, Collect, store
  <1>2. CollectingInv'
    BY DEF IInv, CollectingInv, TypeOK, Present, Collect, store
  <1> QED BY <1>1, <1>2, QuietStep DEF Collect, store

LEMMA ClaimStep ==
  ASSUME IInv, NEW m \in Machines, NEW f \in Facts, ClaimNextSequence(m, f)
  PROVE  IInv'
  <1>1. TypeOK'
    BY DEF IInv, TypeOK, ClaimNextSequence
  <1>2. CollectingInv'
    BY EventOutboxAssumption
       DEF IInv, CollectingInv, TypeOK, Present, ClaimNextSequence
  <1> QED BY <1>1, <1>2, QuietStep DEF IInv, TypeOK, ClaimNextSequence

LEMMA FlushStep ==
  ASSUME IInv, NEW m \in Machines, FlushOutbox(m)
  PROVE  IInv'
  <1> USE DEF IInv
  <1>1. TypeOK'
    <2>1. CASE Pending(m) # {} /\ Cardinality(Pending(m)) <= MaxBatch
      <3>1. /\ pc' = [pc EXCEPT ![m] = "sending"]
            /\ sent' = [sent EXCEPT ![m] = Pending(m)]
        BY <2>1 DEF FlushOutbox
      <3> QED BY <3>1 DEF TypeOK, FlushOutbox, store, Pending
    <2>2. CASE ~(Pending(m) # {} /\ Cardinality(Pending(m)) <= MaxBatch)
      <3>1. pc' = [pc EXCEPT ![m] = "idle"] /\ UNCHANGED sent
        BY <2>2 DEF FlushOutbox
      <3> QED BY <3>1 DEF TypeOK, FlushOutbox, store
    <2> QED BY <2>1, <2>2
  <1>2. CollectingInv'
    BY DEF CollectingInv, TypeOK, Present, FlushOutbox, store
  <1>3. NumberInv' /\ StoredInv' /\ SubmittedIsIngested' /\ IngestedIsPrefix'
    BY DEF NumberInv, StoredInv, SubmittedIsIngested, IngestedIsPrefix,
           Present, Sequence, FlushOutbox, store
  <1>4. BatchInv'
    <2> SUFFICES ASSUME NEW n \in Machines
                 PROVE  Complete(n, sent[n])' /\ Complete(n, late[n].facts)'
      BY DEF BatchInv
    <2>1. Complete(n, late[n].facts)'
      BY DEF BatchInv, Complete, Present, Sequence, FlushOutbox, store
    <2>2. CASE sent'[n] = sent[n]
      BY <2>1, <2>2 DEF BatchInv, Complete, Present, Sequence, FlushOutbox, store
    <2>3. CASE sent'[n] # sent[n]
      <3>1. sent'[n] = Pending(n) /\ UNCHANGED outbox
        BY <2>3 DEF FlushOutbox, store, TypeOK
      <3>2. \A f \in Facts : outbox[n][f].state \in {"absent", "pending", "submitted"}
        BY DEF TypeOK, OutboxRows
      <3> QED BY <2>1, <3>1, <3>2 DEF Complete, Present, Pending
    <2> QED BY <2>1, <2>2, <2>3
  <1> QED BY <1>1, <1>2, <1>3, <1>4

LEMMA CycleFailsStep ==
  ASSUME IInv, NEW m \in Machines, CycleFails(m)
  PROVE  IInv'
  <1>1. TypeOK'
    BY DEF IInv, TypeOK, CycleFails, Forget, store
  <1>2. CollectingInv'
    BY DEF IInv, CollectingInv, TypeOK, Present, CycleFails, Forget, store
  <1> QED BY <1>1, <1>2, QuietStep DEF IInv, TypeOK, CycleFails, Forget, store

LEMMA CrashStep ==
  ASSUME IInv, NEW m \in Machines, Crash(m)
  PROVE  IInv'
  <1>1. TypeOK'
    BY EventOutboxAssumption
       DEF IInv, TypeOK, Crash, Fault, Forget, store, Batch, Batches
  <1>2. CollectingInv'
    BY DEF IInv, CollectingInv, TypeOK, Present, Crash, Forget, store
  <1>3. \A n \in Machines : /\ sent'[n] \in {sent[n], {}}
                            /\ late'[n].facts \in {late[n].facts, sent[n]}
                            /\ claimed'[n] \in {claimed[n], NoFact}
    BY DEF IInv, TypeOK, Crash, Forget, Batch
  <1> QED BY <1>1, <1>2, <1>3, QuietStep DEF Crash, store

(* A new row gets the highest number: no batch misses it.                  *)
LEMMA EnqueueStep ==
  ASSUME IInv, NEW m \in Machines, EnqueueEvent(m)
  PROVE  IInv'
  <1> USE DEF IInv
  <1> PICK e \in Facts : e = claimed[m]
    BY DEF TypeOK, EnqueueEvent
  <1>1. /\ ~Present(m, e) /\ nextSequence[m] - 1 \in Nat
        /\ outbox'[m][e] = [state |-> "pending",
                            sequence |-> nextSequence[m] - 1,
                            registration |-> registration[m]]
        /\ \A n \in Machines, f \in Facts :
             n # m \/ f # e => outbox'[n][f] = outbox[n][f]
    <2>1. ~Present(m, e)
      BY DEF CollectingInv, EnqueueEvent
    <2>2. nextSequence[m] \in Nat \ {0}
      BY DEF TypeOK
    <2>3. outbox' = [outbox EXCEPT ![m][e] =
                       [state |-> "pending", sequence |-> nextSequence[m] - 1,
                        registration |-> registration[m]]]
      BY DEF EnqueueEvent
    <2>4. outbox \in [Machines -> [Facts -> OutboxRows]]
      BY DEF TypeOK
    <2>5. outbox'[m] = [outbox[m] EXCEPT ![e] =
                          [state |-> "pending", sequence |-> nextSequence[m] - 1,
                           registration |-> registration[m]]]
      BY <2>3, <2>4
    <2>6. \A n \in Machines : n # m => outbox'[n] = outbox[n]
      BY <2>3, <2>4
    <2> QED BY <2>1, <2>2, <2>4, <2>5, <2>6
  <1>2. TypeOK'
    <2>1. registration[m] \in Nat
      BY EventOutboxAssumption DEF TypeOK
    <2> QED BY <1>1, <2>1 DEF TypeOK, EnqueueEvent, OutboxRows
  <1>3. CollectingInv'
    BY <1>1 DEF CollectingInv, Present, TypeOK, EnqueueEvent
  <1>4. \A n \in Machines, f \in Facts :
          Present(n, f) => /\ n # m \/ f # e
                           /\ Present(n, f)'
                           /\ Sequence(n, f)' = Sequence(n, f)
                           /\ outbox'[n][f] = outbox[n][f]
    BY <1>1 DEF Present, Sequence
  <1>5. \A n \in Machines, f \in Facts :
          Present(n, f)' => Present(n, f) \/ (n = m /\ f = e)
    BY <1>1 DEF Present
  <1>6. Sequence(m, e)' = nextSequence[m] - 1
    BY <1>1 DEF Sequence
  <1>7. \A f \in Facts : Present(m, f) => Sequence(m, f) < nextSequence[m] - 1
    BY DEF NumberInv, EnqueueEvent
  <1>8. \A n \in Machines, f \in Facts :
          /\ Sequence(n, f) \in Nat /\ Sequence(n, f)' \in Nat
          /\ nextSequence[n] \in Nat
    BY <1>2 DEF TypeOK, OutboxRows, Sequence
  <1>9. NumberInv'
    <2> SUFFICES ASSUME NEW n \in Machines, NEW f \in Facts, Present(n, f)'
                 PROVE  /\ Sequence(n, f)' < nextSequence'[n]
                        /\ claimed'[n] # NoFact =>
                             Sequence(n, f)' < nextSequence'[n] - 1
                        /\ \A g \in Facts :
                             Present(n, g)' /\ Sequence(n, g)' = Sequence(n, f)' =>
                               f = g
      BY DEF NumberInv
    <2>1. /\ nextSequence' = nextSequence
          /\ claimed' = [claimed EXCEPT ![m] = NoFact]
      BY DEF EnqueueEvent
    <2>2. CASE n = m
      <3>1. claimed'[m] = NoFact
        BY <2>1 DEF TypeOK
      <3>2. CASE f = e
        BY <1>4, <1>5, <1>6, <1>7, <1>8, <2>1, <2>2, <3>1, <3>2
      <3>3. CASE f # e
        <4>1. Present(m, f) /\ Sequence(m, f)' < nextSequence[m] - 1
          BY <1>4, <1>5, <1>7, <2>2, <3>3
        <4>2. \A g \in Facts :
                Present(m, g)' /\ Sequence(m, g)' = Sequence(m, f)' => g # e
          BY <1>6, <1>8, <4>1
        <4>3. \A g \in Facts :
                Present(m, g)' /\ Sequence(m, g)' = Sequence(m, f)' => f = g
          BY <1>4, <1>5, <4>1, <4>2 DEF NumberInv
        <4> QED BY <1>8, <2>1, <2>2, <3>1, <4>1, <4>3
      <3> QED BY <3>2, <3>3
    <2>3. CASE n # m
      BY <1>4, <1>5, <1>8, <2>1, <2>3 DEF NumberInv, TypeOK
    <2> QED BY <2>2, <2>3
  <1>10. ingested' = ingested /\ sent' = sent /\ late' = late
    BY DEF EnqueueEvent
  <1>11. StoredInv'
    <2> SUFFICES ASSUME NEW n \in Machines, NEW f \in Facts, NEW r \in Nat,
                        ingested'[f].by = <<n, r>>
                 PROVE  /\ Present(n, f)'
                        /\ ingested'[f] =
                             [by |-> <<n, outbox'[n][f].registration>>,
                              sequence |-> Sequence(n, f)']
      BY DEF StoredInv
    <2>1. Present(n, f) /\ ingested[f] = [by |-> <<n, outbox[n][f].registration>>,
                                          sequence |-> Sequence(n, f)]
      BY <1>10 DEF StoredInv
    <2> QED BY <1>4, <1>10, <2>1
  <1>12. SubmittedIsIngested'
    <2> SUFFICES ASSUME NEW n \in Machines, NEW f \in Facts,
                        outbox'[n][f].state = "submitted"
                 PROVE  ingested'[f] =
                          [by |-> <<n, outbox'[n][f].registration>>,
                           sequence |-> Sequence(n, f)']
      BY DEF SubmittedIsIngested
    <2>1. Present(n, f)
      BY <1>1, <1>5 DEF Present
    <2> QED BY <1>4, <1>10, <2>1 DEF SubmittedIsIngested
  <1>13. IngestedIsPrefix'
    <2> SUFFICES ASSUME NEW n \in Machines, NEW f \in Facts, NEW g \in Facts,
                        Present(n, f)',
                        ingested'[g].by = <<n, outbox'[n][f].registration>>,
                        Sequence(n, f)' < ingested'[g].sequence
                 PROVE  ingested'[f].by = <<n, outbox'[n][f].registration>>
      BY DEF IngestedIsPrefix, Present
    <2>1. outbox'[n][f].registration \in Nat
      BY <1>2 DEF TypeOK, OutboxRows
    <2>2. Present(n, g) /\ ingested[g].sequence = Sequence(n, g)
      <3>1. ingested[g].by = <<n, outbox'[n][f].registration>>
        BY <1>10
      <3>2. /\ Present(n, g)
            /\ ingested[g] = [by |-> <<n, outbox[n][g].registration>>,
                              sequence |-> Sequence(n, g)]
        BY <2>1, <3>1 DEF StoredInv
      <3> QED BY <3>2
    <2>3. Present(n, f)
      BY <1>5, <1>6, <1>7, <1>8, <1>10, <2>2
    <2> QED BY <1>4, <1>10, <2>3 DEF IngestedIsPrefix, Present
  <1>14. BatchInv'
    <2> SUFFICES ASSUME NEW n \in Machines,
                        NEW F \in {sent[n], late[n].facts}
                 PROVE  \A g \in F :
                          /\ Present(n, g)'
                          /\ \A f \in Facts :
                               Present(n, f)' /\ Sequence(n, f)' < Sequence(n, g)' =>
                                 f \in F \/ outbox'[n][f].state = "submitted"
      BY <1>10 DEF BatchInv, Complete
    <2>1. Complete(n, F) /\ F \subseteq Facts
      BY DEF BatchInv, TypeOK, Batches
    <2> SUFFICES ASSUME NEW g \in F
                 PROVE  /\ Present(n, g)'
                        /\ \A f \in Facts :
                             Present(n, f)' /\ Sequence(n, f)' < Sequence(n, g)' =>
                               f \in F \/ outbox'[n][f].state = "submitted"
      OBVIOUS
    <2>2. Present(n, g) /\ g \in Facts
      BY <2>1 DEF Complete
    <2> QED BY <1>4, <1>5, <1>6, <1>7, <1>8, <2>1, <2>2 DEF Complete
  <1> QED BY <1>2, <1>3, <1>9, <1>11, <1>12, <1>13, <1>14

(* Rows marked after the batch they were in was accepted.                  *)
Marked(m, b, S) ==
  \/ UNCHANGED outbox
  \/ /\ Accepted(m, b) /\ S = Appended(m, b)
     /\ \E M \in SUBSET b.facts : MarkSubmitted(m, M)

LEMMA MarkedRows ==
  ASSUME IInv, NEW m \in Machines, NEW b \in Batches, Complete(m, b.facts),
         NEW S, Marked(m, b, S)
  PROVE  /\ SameRows
         /\ \A n \in Machines, f \in Facts :
              outbox[n][f].state = "submitted" => outbox'[n][f].state = "submitted"
         /\ \A n \in Machines, f \in Facts :
              outbox'[n][f].state = "submitted" =>
                \/ outbox[n][f].state = "submitted"
                \/ n = m /\ f \in b.facts /\ Accepted(m, b) /\ S = Appended(m, b)
  <1>1. outbox \in [Machines -> [Facts -> OutboxRows]]
    BY DEF IInv, TypeOK
  <1>2. CASE UNCHANGED outbox
    BY <1>1, <1>2 DEF SameRows
  <1>3. CASE ~UNCHANGED outbox
    <2>1. PICK M \in SUBSET b.facts : MarkSubmitted(m, M)
      BY <1>3 DEF Marked
    <2>2. Accepted(m, b) /\ S = Appended(m, b)
      BY <1>3 DEF Marked
    <2>3. \A n \in Machines : n # m => outbox'[n] = outbox[n]
      BY <1>1, <2>1 DEF MarkSubmitted
    <2>4. outbox'[m] = [f \in Facts |-> IF f \in M
                                        THEN [outbox[m][f] EXCEPT !.state = "submitted"]
                                        ELSE outbox[m][f]]
      BY <1>1, <2>1 DEF MarkSubmitted
    <2>5. \A f \in M : outbox[m][f].state # "absent"
      BY DEF Complete, Present
    <2>6. \A f \in Facts :
            /\ outbox'[m][f] \in OutboxRows
            /\ outbox'[m][f].sequence = outbox[m][f].sequence
            /\ outbox'[m][f].registration = outbox[m][f].registration
            /\ outbox'[m][f].state = IF f \in M THEN "submitted"
                                                ELSE outbox[m][f].state
      BY <1>1, <2>4 DEF OutboxRows
    <2>7. outbox' \in [Machines -> [Facts -> OutboxRows]]
      BY <1>1, <2>1, <2>4, <2>6 DEF MarkSubmitted
    <2> QED BY <2>2, <2>3, <2>5, <2>6, <2>7 DEF SameRows
  <1> QED BY <1>2, <1>3

LEMMA PublishStep ==
  ASSUME IInv, NEW m \in Machines, NEW b \in Batches, Complete(m, b.facts),
         \E S : Prefix(m, b, S) /\ Store(m, b, S) /\ Marked(m, b, S),
         UNCHANGED <<happened, trouble, registration, nextSequence, todo, claimed>>,
         late' = late \/ late' = [late EXCEPT ![m] = NoBatch],
         (pc' = pc /\ sent' = sent) \/ (pc[m] = "sending" /\ Forget(m)),
         faults' \in 0..MaxFaults
  PROVE  IInv'
  <1> PICK S : Prefix(m, b, S) /\ Store(m, b, S) /\ Marked(m, b, S)
    OBVIOUS
  <1> USE DEF IInv
  <1>0. /\ pc' \in [Machines -> {"idle", "collecting", "sending"}]
        /\ sent' \in [Machines -> SUBSET Facts]
        /\ todo' = todo
        /\ \A n \in Machines : sent'[n] = sent[n] \/ sent'[n] = {}
        /\ \A n \in Machines : pc'[n] = "collecting" <=> pc[n] = "collecting"
        /\ \A n \in Machines : pc'[n] # "sending" => sent'[n] = {}
    BY DEF Forget, TypeOK
  <1>1. /\ SameRows
        /\ \A n \in Machines, f \in Facts :
             outbox[n][f].state = "submitted" => outbox'[n][f].state = "submitted"
        /\ \A n \in Machines, f \in Facts :
             outbox'[n][f].state = "submitted" =>
               \/ outbox[n][f].state = "submitted"
               \/ n = m /\ f \in b.facts /\ Accepted(m, b) /\ S = Appended(m, b)
    BY MarkedRows
  <1>2. \A n \in Machines, f \in Facts : /\ Sequence(n, f)' = Sequence(n, f)
                                       /\ Present(n, f)' <=> Present(n, f)
    BY <1>1 DEF SameRows, Sequence, Present
  <1>3. /\ ingested' \in [Facts -> [by : Connectors \cup {NoConnector},
                                    sequence : Nat]]
        /\ \A f \in Facts : ingested[f].by # NoConnector => ingested'[f] = ingested[f]
    BY StoreKeeps
  <1>4. StoredInv' /\ IngestedIsPrefix'
    BY <1>1, StoreStep
  <1>5. late' \in [Machines -> Batches]
    <2>1. NoBatch \in Batches
      BY DEF NoBatch, Batches
    <2> QED BY <2>1 DEF TypeOK
  <1>6. TypeOK'
    BY <1>0, <1>1, <1>3, <1>5 DEF TypeOK, SameRows
  <1>7. CollectingInv'
    <2>1. \A n \in Machines, f \in Facts :
            outbox'[n][f].state # "absent" <=> outbox[n][f].state # "absent"
      BY <1>1 DEF SameRows
    <2>2. \A n \in Machines : /\ todo[n] \in SUBSET Facts
                              /\ claimed[n] # NoFact => claimed[n] \in Facts
                              /\ pc'[n] # "collecting" => pc[n] # "collecting"
      BY <1>0 DEF TypeOK
    <2> QED BY <1>0, <2>1, <2>2 DEF CollectingInv, Present
  <1>8. NumberInv'
    <2> SUFFICES ASSUME NEW n \in Machines, NEW f \in Facts, Present(n, f)'
                 PROVE  /\ Sequence(n, f)' < nextSequence'[n]
                        /\ claimed'[n] # NoFact =>
                             Sequence(n, f)' < nextSequence'[n] - 1
                        /\ \A g \in Facts :
                             Present(n, g)' /\ Sequence(n, g)' = Sequence(n, f)' =>
                               f = g
      BY DEF NumberInv
    <2>1. \A g \in Facts : /\ Sequence(n, g)' = Sequence(n, g)
                           /\ Present(n, g)' <=> Present(n, g)
      BY <1>1 DEF SameRows, Sequence, Present
    <2>2. UNCHANGED <<nextSequence, claimed>>
      OBVIOUS
    <2> QED BY <2>1, <2>2 DEF NumberInv
  <1>9. SubmittedIsIngested'
    <2> SUFFICES ASSUME NEW n \in Machines, NEW f \in Facts,
                        outbox'[n][f].state = "submitted"
                 PROVE  ingested'[f] =
                          [by |-> <<n, outbox'[n][f].registration>>,
                           sequence |-> Sequence(n, f)']
      BY DEF SubmittedIsIngested
    <2>0. /\ outbox'[n][f].registration = outbox[n][f].registration
          /\ Sequence(n, f)' = Sequence(n, f)
      BY <1>1 DEF SameRows, Sequence
    <2>1. CASE outbox[n][f].state = "submitted"
      <3>1. ingested[f] = [by |-> <<n, outbox[n][f].registration>>,
                           sequence |-> Sequence(n, f)]
        BY <2>1 DEF SubmittedIsIngested
      <3>2. outbox[n][f].registration \in Nat
        BY DEF TypeOK, OutboxRows
      <3>3. ingested[f].by # NoConnector
        BY <3>1, <3>2, EventOutboxAssumption
      <3> QED BY <1>3, <2>0, <3>1, <3>3
    <2>2. CASE n = m /\ f \in b.facts /\ Accepted(m, b) /\ S = Appended(m, b)
      <3>1. Accepted(m, b) /\ Store(m, b, Appended(m, b))
        BY <2>2
      <3>2. \A g \in b.facts :
              ingested'[g] = [by |-> <<m, outbox[m][g].registration>>,
                              sequence |-> Sequence(m, g)]
        BY <3>1, AcceptedIsStored
      <3> QED BY <2>0, <2>2, <3>2
    <2> QED BY <1>1, <2>1, <2>2
  <1>10. BatchInv'
    <2> SUFFICES ASSUME NEW n \in Machines
                 PROVE  Complete(n, sent[n])' /\ Complete(n, late[n].facts)'
      BY DEF BatchInv
    <2>1. \A F \in SUBSET Facts : Complete(n, F) => Complete(n, F)'
      BY <1>1, CompleteKept
    <2>2. /\ sent[n] \in SUBSET Facts /\ late[n].facts \in SUBSET Facts
          /\ Complete(n, sent[n]) /\ Complete(n, late[n].facts) /\ Complete(n, {})
      BY DEF BatchInv, TypeOK, Batches, Complete
    <2>3. /\ sent'[n] = sent[n] \/ sent'[n] = {}
          /\ late'[n].facts = late[n].facts \/ late'[n].facts = {}
      BY <1>0 DEF TypeOK, NoBatch
    <2>4. ASSUME NEW F \in SUBSET Facts, Complete(n, F),
                 NEW G, G = F \/ G = {}
          PROVE  Complete(n, G)'
      BY <2>1, <2>4 DEF Complete
    <2>5. Complete(n, sent[n])'
      BY <2>2, <2>3, <2>4 DEF Complete
    <2>6. Complete(n, late[n].facts)'
      BY <2>2, <2>3, <2>4 DEF Complete
    <2> QED BY <2>5, <2>6
  <1> QED BY <1>4, <1>6, <1>7, <1>8, <1>9, <1>10

(* Publishing, an answer cut short and a batch that arrives late are the   *)
(* three ways a batch reaches the store.                                   *)
LEMMA PublishedStep ==
  ASSUME IInv, NEW m \in Machines, Published(m) \/ PublishCutShort(m)
  PROVE  IInv'
  <1> PICK b \in Batches : b = Batch(m)
    <2>1. registration[m] \in Nat /\ sent[m] \in SUBSET Facts
      BY EventOutboxAssumption DEF IInv, TypeOK
    <2> QED BY <2>1 DEF Batch, Batches
  <1>1. b.facts = sent[m] /\ Complete(m, b.facts)
    BY DEF IInv, BatchInv, Batch
  <1>2. \E S : Prefix(m, b, S) /\ Store(m, b, S) /\ Marked(m, b, S)
    <2>1. Prefix(m, b, Appended(m, b))
      BY DEF Prefix
    <2>2. CASE Published(m)
      <3>1. \/ UNCHANGED outbox
            \/ Accepted(m, b) /\ MarkSubmitted(m, b.facts)
        BY <1>1, <2>2 DEF Published
      <3>2. Marked(m, b, Appended(m, b))
        BY <3>1 DEF Marked
      <3> QED BY <2>1, <2>2, <3>2 DEF Published
    <2>3. CASE StoreSome(m, b) /\ UNCHANGED outbox
      <3>1. PICK n \in 1..nextSequence[m] :
              Store(m, b, {f \in Appended(m, b) : Sequence(m, f) < n})
        BY <2>3 DEF StoreSome
      <3>2. \A f \in Appended(m, b) : Sequence(m, f) \in Nat
        BY DEF IInv, TypeOK, OutboxRows, Sequence, Appended, New, Batches
      <3>3. n \in Nat
        BY DEF IInv, TypeOK
      <3>4. Prefix(m, b, {f \in Appended(m, b) : Sequence(m, f) < n})
        BY <3>2, <3>3 DEF Prefix
      <3> QED BY <2>3, <3>1, <3>4 DEF Marked
    <2>4. CASE /\ Accepted(m, b)
               /\ Store(m, b, Appended(m, b))
               /\ \E M \in SUBSET sent[m] : MarkSubmitted(m, M)
      BY <1>1, <2>1, <2>4 DEF Marked
    <2> QED BY <2>2, <2>3, <2>4 DEF PublishCutShort
  <1>3. /\ pc[m] = "sending" /\ Forget(m)
        /\ UNCHANGED <<happened, trouble, registration, nextSequence, todo, claimed>>
        /\ late' = late
        /\ faults' \in 0..MaxFaults
    BY EventOutboxAssumption
       DEF Published, PublishCutShort, Fault, IInv, TypeOK
  <1> QED BY <1>1, <1>2, <1>3, PublishStep

LEMMA LateStep ==
  ASSUME IInv, NEW m \in Machines, LateBatch(m)
  PROVE  IInv'
  <1> PICK b \in Batches : b = late[m]
    BY DEF IInv, TypeOK
  <1>1. Complete(m, b.facts)
    BY DEF IInv, BatchInv
  <1>2. \E S : Prefix(m, b, S) /\ Store(m, b, S) /\ Marked(m, b, S)
    BY DEF LateBatch, Prefix, Marked, store
  <1>3. /\ UNCHANGED <<happened, trouble, registration, nextSequence, todo, claimed>>
        /\ pc' = pc /\ sent' = sent
        /\ late' = [late EXCEPT ![m] = NoBatch]
        /\ faults' \in 0..MaxFaults
    BY DEF LateBatch, store, memory, IInv, TypeOK
  <1> QED BY <1>1, <1>2, <1>3, PublishStep

LEMMA InvNext == IInv /\ [Next]_vars => IInv'
  <1> SUFFICES ASSUME IInv, [Next]_vars PROVE IInv'
    OBVIOUS
  <1>1. CASE UNCHANGED vars
    BY <1>1 DEF vars, store, memory, IInv, TypeOK, CollectingInv, NumberInv,
                StoredInv, BatchInv, Complete, SubmittedIsIngested,
                IngestedIsPrefix, Present, Sequence
  <1>2. CASE Next
    <2> PICK m \in Machines :
          \/ \E f \in Facts :
               Happen(m, f) \/ Pass(m, f) \/ ClaimNextSequence(m, f)
          \/ Bar(m) \/ Break(m) \/ Mend(m) \/ Register(m)
          \/ Collect(m) \/ EnqueueEvent(m) \/ FlushOutbox(m) \/ CycleFails(m)
          \/ Published(m) \/ PublishCutShort(m) \/ Crash(m) \/ LateBatch(m)
      BY <1>2 DEF Next
    <2> QED BY HappenStep, PassStep, TroubleStep, ClaimStep, RegisterStep,
               CollectStep, EnqueueStep, FlushStep, CycleFailsStep,
               PublishedStep, CrashStep, LateStep
  <1> QED BY <1>1, <1>2

LEMMA Invariance == Spec => []IInv
  BY InvInit, InvNext, PTL DEF Spec

-----------------------------------------------------------------------------
(* The outbox, the batches and the events of the control plane keep their  *)
(* shape in every step of the connectors and of ingestConnectorEvents.     *)
THEOREM TypeCorrect == Spec => []TypeOK
  <1>1. IInv => TypeOK
    BY DEF IInv
  <1> QED BY <1>1, Invariance, PTL

(* markSubmitted never marks an event the control plane does not have,     *)
(* with crashes between the store's writes and lost or late answers.       *)
THEOREM SubmittedStaysIngested == Spec => []SubmittedIsIngested
  <1>1. IInv => SubmittedIsIngested
    BY DEF IInv
  <1> QED BY <1>1, Invariance, PTL

(* ingestConnectorEvents stores the events of a connector from the first   *)
(* on, without a gap, whatever batches overlap or stop in the middle.      *)
THEOREM PrefixStaysIngested == Spec => []IngestedIsPrefix
  <1>1. IInv => IngestedIsPrefix
    BY DEF IInv
  <1> QED BY <1>1, Invariance, PTL

(* A number claimed in one write and used in another is never used twice,  *)
(* whatever stops in between: the control plane never sees two events of a *)
(* connector under one number.                                             *)
THEOREM NumbersNeverConflict == Spec => []NoSequenceConflict
  <1>1. IInv => NoSequenceConflict
    <2> SUFFICES ASSUME IInv, NEW m \in Machines, NEW f \in Facts, NEW g \in Facts,
                        Present(m, f),
                        ingested[g].by = <<m, outbox[m][f].registration>>,
                        ingested[g].sequence = Sequence(m, f)
                 PROVE  f = g
      BY DEF NoSequenceConflict, Present
    <2>1. outbox[m][f].registration \in Nat
      BY DEF IInv, TypeOK, OutboxRows
    <2>2. /\ Present(m, g)
          /\ ingested[g] = [by |-> <<m, outbox[m][g].registration>>,
                            sequence |-> Sequence(m, g)]
      BY <2>1 DEF IInv, StoredInv
    <2>3. Sequence(m, g) = Sequence(m, f)
      BY <2>2
    <2> QED BY <2>2, <2>3 DEF IInv, NumberInv
  <1> QED BY <1>1, Invariance, PTL
=============================================================================
