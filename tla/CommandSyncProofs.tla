-------------------------- MODULE CommandSyncProofs --------------------------
(***************************************************************************)
(* Proofs about CommandSync, for any number of commands, replays, crashes  *)
(* and lost answers.  The receipt of a command is what the argument turns  *)
(* on: it is written once, before anything is reported, and a status that  *)
(* names an outcome, a request on its way that names one, and the count of *)
(* executions all follow it.                                               *)
(***************************************************************************)
EXTENDS CommandSync, TLAPS

(* What the connector's place in its loop says of the current command.     *)
PlaceInv ==
  /\ pc \in {"announcing", "executing", "recording"} =>
       receipt[current] = "none"
  /\ pc \in {"reporting", "publishing"} => receipt[current] \in Outcomes
  /\ pc = "recording" => result \in Outcomes

(* The control plane records a completion only once the machine has it.    *)
AcceptedInv == \A c \in accepted : receipt[c] = "completed"

IInv ==
  /\ TypeOK
  /\ PlaceInv
  /\ OutcomesAreTrue
  /\ ExecutedOncePerReceipt
  /\ AcceptedInv

-----------------------------------------------------------------------------
(* Rows stay rows.                                                         *)

LEMMA ClaimedType ==
  ASSUME NEW r \in Rows
  PROVE  /\ Claimed(r) \in Rows
         /\ Claimed(r).status \in {r.status, "pending", "expired"}
  <1>1. Attempt(r.attempts) \in 0..RetryDelays + 1
    BY CommandSyncAssumption DEF Attempt, Rows
  <1> QED BY <1>1 DEF Claimed, Rows, Statuses

LEMMA ClaimInType ==
  ASSUME TypeOK, NEW S, ClaimIn(S)
  PROVE  /\ row' \in [Commands -> Rows]
         /\ \A c \in Commands :
              row'[c].status \in {row[c].status, "pending", "expired"}
  BY ClaimedType DEF ClaimIn, TypeOK

LEMMA AcknowledgedType ==
  ASSUME TypeOK, NEW c \in Commands, NEW s \in Acks, Acknowledge(c, s)
  PROVE  /\ row' \in [Commands -> Rows]
         /\ row'[c].status = s
         /\ \A d \in Commands : d # c => row'[d] = row[d]
         /\ issuedAt' = issuedAt /\ now' = now /\ revoked' = revoked
         /\ stuck' = stuck
         /\ accepted' \in SUBSET Commands
         /\ accepted' \subseteq accepted \cup {c}
         /\ accepted' # accepted => s = "completed"
  <1>1. row[c] \in Rows
    BY DEF TypeOK
  <1>2. /\ Acknowledged(c, s) \in Rows
        /\ Acknowledged(c, s).status = s
    BY <1>1 DEF Acknowledged, Repeats, Rows, Statuses, Acks, Outcomes
  <1> QED BY <1>2 DEF Acknowledge, TypeOK

(* The loop goes on with a command of the batch that has no receipt, or    *)
(* only reports.                                                           *)
LEMMA GoOnType ==
  ASSUME TypeOK, NEW S \in SUBSET Commands, GoOn(S)
  PROVE  /\ batch' \in SUBSET Commands
         /\ pc' \in {"idle", "announcing", "reporting"}
         /\ IF pc' \in {"idle", "pulling"}
            THEN batch' = {} ELSE current' \in batch'
         /\ current' \in Commands \cup {NoCommand}
         /\ result' = "none"
         /\ pc' = "announcing" => receipt[current'] = "none"
         /\ pc' = "reporting" => receipt[current'] \in Outcomes
  <1>1. CASE S = {}
    BY <1>1 DEF GoOn, TypeOK
  <1>2. CASE S # {}
    <2>1. PICK c \in Oldest(S) :
            /\ current' = c
            /\ pc' = IF receipt[c] = "none" THEN "announcing" ELSE "reporting"
      BY <1>2 DEF GoOn
    <2>2. c \in S
      BY <2>1 DEF Oldest
    <2> QED BY <1>2, <2>1, <2>2 DEF GoOn, TypeOK
  <1> QED BY <1>1, <1>2

-----------------------------------------------------------------------------
(* The types hold initially and after every step.                          *)

LEMMA TypeInit == Init => TypeOK
  <1> SUFFICES ASSUME Init PROVE TypeOK
    OBVIOUS
  <1>1. AbsentRow \in Rows
    BY CommandSyncAssumption DEF AbsentRow, Rows, Statuses
  <1>2. /\ row \in [Commands -> Rows]
        /\ late \in [Commands -> [Acks -> Nat]]
        /\ replays \in 0..MaxReplays /\ faults \in 0..MaxFaults
    BY <1>1, CommandSyncAssumption DEF Init
  <1> QED BY <1>2 DEF Init, TypeOK

(* Operators and time write one row and the counters of replays.           *)
LEMMA CloudMoves ==
  ASSUME TypeOK, NEW c \in Commands,
         \/ Queue(c) \/ Replay(c)
         \/ LeaseRunsOut(c) \/ RetryComesDue(c) \/ ExpiryPasses(c)
  PROVE  /\ row' \in [Commands -> Rows]
         /\ \A d \in Commands : row'[d].status \in {row[d].status, "pending"}
         /\ issuedAt' \in [Commands -> Nat] /\ now' \in Nat
         /\ replays' \in 0..MaxReplays
         /\ UNCHANGED <<revoked, stuck, accepted, process, receipt, late,
                        history, faults>>
  <1> USE CommandSyncAssumption
  <1>1. row[c] \in Rows
    BY DEF TypeOK
  <1>2. CASE Queue(c)
    <2>1. /\ row' \in [Commands -> Rows]
          /\ \A d \in Commands : row'[d].status \in {row[d].status, "pending"}
      BY <1>1, <1>2 DEF Queue, TypeOK, Rows, Statuses
    <2>2. now' \in Nat /\ issuedAt' \in [Commands -> Nat]
      BY <1>2 DEF Queue, TypeOK
    <2> QED BY <1>2, <2>1, <2>2 DEF Queue, TypeOK, counters
  <1>3. CASE Replay(c)
    <2>1. /\ row' \in [Commands -> Rows]
          /\ \A d \in Commands : row'[d].status \in {row[d].status, "pending"}
      BY <1>1, <1>3 DEF Replay, TypeOK, Rows, Statuses
    <2>2. replays' \in 0..MaxReplays
      BY <1>3 DEF Replay, TypeOK
    <2> QED BY <1>3, <2>1, <2>2 DEF Replay, TypeOK
  <1>4. CASE LeaseRunsOut(c)
    BY <1>1, <1>4 DEF LeaseRunsOut, TypeOK, Rows, Statuses, counters
  <1>5. CASE RetryComesDue(c)
    BY <1>1, <1>5 DEF RetryComesDue, TypeOK, Rows, Statuses, counters
  <1>6. CASE ExpiryPasses(c)
    BY <1>1, <1>6 DEF ExpiryPasses, TypeOK, Rows, Statuses, counters
  <1> QED BY <1>2, <1>3, <1>4, <1>5, <1>6

LEMMA TypeStep == TypeOK /\ PlaceInv /\ [Next]_vars => TypeOK'
  <1> SUFFICES ASSUME TypeOK, PlaceInv, [Next]_vars
               PROVE  TypeOK'
    OBVIOUS
  <1> USE CommandSyncAssumption
  <1>1. ASSUME NEW c \in Commands,
               \/ Queue(c) \/ Replay(c)
               \/ LeaseRunsOut(c) \/ RetryComesDue(c) \/ ExpiryPasses(c)
        PROVE  TypeOK'
    BY <1>1, CloudMoves DEF TypeOK, process, history
  <1>2. ASSUME NEW c \in Commands, NEW s \in Acks, LateAck(c, s)
        PROVE  TypeOK'
    <2>1. late' \in [Commands -> [Acks -> Nat]]
      BY <1>2 DEF LateAck, TypeOK
    <2> QED BY <1>2, <2>1, AcknowledgedType
            DEF LateAck, TypeOK, process, history, counters
  <1>3. ASSUME NEW c \in Commands, NEW s \in Acks, LateAckLost(c, s)
        PROVE  TypeOK'
    <2>1. late' \in [Commands -> [Acks -> Nat]]
      BY <1>3 DEF LateAckLost, TypeOK
    <2> QED BY <1>3, <2>1
            DEF LateAckLost, TypeOK, cloud, process, history, counters
  <1>4. ASSUME NEW o \in Outcomes, Execute(o)
        PROVE  TypeOK'
    BY <1>4 DEF Execute, TypeOK, cloud, counters
  <1>5. CASE Revoke \/ Stick \/ Synchronize
    BY <1>5 DEF Revoke, Stick, Synchronize, TypeOK, cloud, process, history,
       counters
  <1>6. CASE Pull
    <2> DEFINE S == {c \in Commands : Dispatchable(row[c])}
    <2>1. S \in SUBSET Commands /\ GoOn(S)
      BY <1>6 DEF Pull
    <2> HIDE DEF S
    <2>2. row' \in [Commands -> Rows]
      BY <1>6, ClaimInType DEF Pull
    <2>3. /\ batch' \in SUBSET Commands
          /\ pc' \in {"idle", "announcing", "reporting"}
          /\ IF pc' \in {"idle", "pulling"}
             THEN batch' = {} ELSE current' \in batch'
          /\ current' \in Commands \cup {NoCommand}
          /\ result' = "none"
      BY <2>1, GoOnType
    <2> QED BY <1>6, <2>2, <2>3 DEF Pull, TypeOK, history, counters
  <1>7. CASE PullUnanswered
    <2>1. row' \in [Commands -> Rows]
      BY <1>7, ClaimInType DEF PullUnanswered
    <2> QED BY <1>7, <2>1
            DEF PullUnanswered, DropBatch, Fault, TypeOK, history
  <1>8. CASE Announce
    <2>1. current \in Commands /\ "acked" \in Acks /\ Acknowledge(current, "acked")
      BY <1>8 DEF Announce, TypeOK, Acks
    <2> QED BY <1>8, <2>1, AcknowledgedType
            DEF Announce, TypeOK, history, counters
  <1>9. CASE SaveReceipt
    BY <1>9 DEF SaveReceipt, TypeOK, cloud, history, counters
  <1>10. CASE Report
    <2>1. /\ current \in Commands
          /\ receipt[current] \in Acks
          /\ Acknowledge(current, receipt[current])
      BY <1>10 DEF Report, TypeOK, Acks, PlaceInv
    <2>2. CASE result = "completed"
      BY <1>10, <2>1, <2>2, AcknowledgedType
      DEF Report, TypeOK, history, counters
    <2>3. CASE result # "completed"
      <3>1. batch \ {current} \in SUBSET Commands /\ GoOn(batch \ {current})
        BY <1>10, <2>3 DEF Report, TypeOK
      <3>2. /\ batch' \in SUBSET Commands
            /\ pc' \in {"idle", "announcing", "reporting"}
            /\ IF pc' \in {"idle", "pulling"}
               THEN batch' = {} ELSE current' \in batch'
            /\ current' \in Commands \cup {NoCommand}
            /\ result' = "none"
        BY <3>1, GoOnType
      <3> QED BY <1>10, <2>1, <3>2, AcknowledgedType
              DEF Report, TypeOK, history, counters
    <2> QED BY <2>2, <2>3
  <1>11. CASE Publish
    <2>1. batch \ {current} \in SUBSET Commands /\ GoOn(batch \ {current})
      BY <1>11 DEF Publish, TypeOK
    <2>2. /\ batch' \in SUBSET Commands
          /\ pc' \in {"idle", "announcing", "reporting"}
          /\ IF pc' \in {"idle", "pulling"}
             THEN batch' = {} ELSE current' \in batch'
          /\ current' \in Commands \cup {NoCommand}
          /\ result' = "none"
      BY <2>1, GoOnType
    <2> QED BY <1>11, <2>2 DEF Publish, TypeOK, cloud, history, counters
  <1>12. CASE Refused
    BY <1>12 DEF Refused, DropBatch, TypeOK, cloud, history, counters
  <1>13. CASE GiveUp
    <2>1. late' \in [Commands -> [Acks -> Nat]]
      <3>1. CASE pc \in {"announcing", "reporting"}
        <4>1. current \in Commands /\ Requested \in Acks
          BY <3>1 DEF TypeOK, Requested, Acks, PlaceInv
        <4>2. late[current] \in [Acks -> Nat]
          BY <4>1 DEF TypeOK
        <4>3. late[current][Requested] + 1 \in Nat
          BY <4>1, <4>2
        <4> QED BY <1>13, <3>1, <4>1, <4>2, <4>3 DEF GiveUp, TypeOK
      <3>2. CASE pc \notin {"announcing", "reporting"}
        BY <1>13, <3>2 DEF GiveUp, TypeOK
      <3> QED BY <3>1, <3>2
    <2>2. cut' \in [Commands -> Nat]
      BY <1>13 DEF GiveUp, TypeOK
    <2> QED BY <1>13, <2>1, <2>2 DEF GiveUp, DropBatch, Fault, TypeOK, cloud
  <1>14. CASE AckCutShort
    <2>1. row' \in [Commands -> Rows]
      <3>1. current \in Commands /\ row[current] \in Rows
        BY <1>14 DEF AckCutShort, TypeOK
      <3> QED BY <1>14, <3>1 DEF AckCutShort, TypeOK, Rows, Statuses
    <2> QED BY <1>14, <2>1
            DEF AckCutShort, DropBatch, Fault, TypeOK, history
  <1>15. CASE UNCHANGED vars
    BY <1>15 DEF vars, TypeOK, cloud, process, history, counters
  <1> QED BY <1>1, <1>2, <1>3, <1>4, <1>5, <1>6, <1>7, <1>8, <1>9, <1>10,
             <1>11, <1>12, <1>13, <1>14, <1>15 DEF Next

-----------------------------------------------------------------------------
(* Receipts decide.                                                        *)

(* A receipt is written once, with the outcome of the execution it ends.   *)
LEMMA ReceiptStep ==
  ASSUME IInv, [Next]_vars
  PROVE  \/ receipt' = receipt
         \/ /\ SaveReceipt
            /\ current \in Commands
            /\ receipt[current] = "none"
            /\ result \in Outcomes
            /\ receipt' = [receipt EXCEPT ![current] = result]
  <1>1. CASE SaveReceipt
    BY <1>1 DEF IInv, SaveReceipt, TypeOK, PlaceInv
  <1>2. CASE ~SaveReceipt
    BY <1>2 DEF Next, vars, Queue, Replay, LeaseRunsOut, RetryComesDue,
       ExpiryPasses, LateAck, LateAckLost, Execute, Revoke, Stick, Synchronize,
       Pull, PullUnanswered, Announce, Report, Publish, Refused, GiveUp, AckCutShort
  <1> QED BY <1>1, <1>2

(* So a receipt that names an outcome is there for good.                   *)
LEMMA ReceiptsStay ==
  ASSUME IInv, [Next]_vars, NEW c \in Commands, receipt[c] \in Outcomes
  PROVE  receipt'[c] = receipt[c]
  BY ReceiptStep DEF IInv, TypeOK, Outcomes

LEMMA PlaceStep == IInv /\ [Next]_vars => PlaceInv'
  <1> SUFFICES ASSUME IInv, [Next]_vars
               PROVE  PlaceInv'
    OBVIOUS
  <1> USE DEF IInv
  <1>1. CASE \/ UNCHANGED <<process, receipt>>
             \/ Synchronize \/ PullUnanswered \/ Refused \/ GiveUp
             \/ AckCutShort
    BY <1>1 DEF PlaceInv, process, Synchronize, PullUnanswered, Refused,
       GiveUp, AckCutShort, DropBatch
  <1>2. ASSUME NEW o \in Outcomes, Execute(o)
        PROVE  PlaceInv'
    BY <1>2 DEF Execute, PlaceInv
  <1>3. CASE Announce
    BY <1>3 DEF Announce, PlaceInv
  <1>4. CASE SaveReceipt
    BY <1>4 DEF SaveReceipt, PlaceInv, TypeOK
  <1>5. ASSUME NEW S \in SUBSET Commands, GoOn(S), UNCHANGED receipt
        PROVE  PlaceInv'
    BY <1>5, GoOnType DEF PlaceInv
  <1>6. CASE Pull
    <2>1. {c \in Commands : Dispatchable(row[c])} \in SUBSET Commands
      OBVIOUS
    <2> QED BY <1>5, <1>6, <2>1 DEF Pull
  <1>7. CASE Report
    <2>1. CASE result = "completed"
      BY <1>7, <2>1 DEF Report, PlaceInv
    <2>2. CASE result # "completed"
      BY <1>5, <1>7, <2>2 DEF Report, TypeOK
    <2> QED BY <2>1, <2>2
  <1>8. CASE Publish
    BY <1>5, <1>8 DEF Publish, TypeOK
  <1>9. ASSUME NEW c \in Commands,
               \/ Queue(c) \/ Replay(c)
               \/ LeaseRunsOut(c) \/ RetryComesDue(c) \/ ExpiryPasses(c)
               \/ \E s \in Acks : LateAck(c, s) \/ LateAckLost(c, s)
        PROVE  UNCHANGED <<process, receipt>>
    BY <1>9 DEF Queue, Replay, LeaseRunsOut, RetryComesDue, ExpiryPasses,
       LateAck, LateAckLost
  <1>10. CASE Revoke \/ Stick \/ UNCHANGED vars
    BY <1>1, <1>10 DEF Revoke, Stick, vars
  <1> QED BY <1>1, <1>2, <1>3, <1>4, <1>6, <1>7, <1>8, <1>9, <1>10 DEF Next

(* An acknowledgement that reaches the control plane names the receipt.    *)
LEMMA AcknowledgeKeeps ==
  ASSUME IInv, [Next]_vars, NEW c \in Commands, NEW s \in Acks,
         Acknowledge(c, s), s \in Outcomes => receipt[c] = s
  PROVE  /\ \A d \in Commands :
              row'[d].status \in Outcomes => receipt'[d] = row'[d].status
         /\ AcceptedInv'
  <1> USE DEF IInv
  <1>1. ASSUME NEW d \in Commands, row'[d].status \in Outcomes
        PROVE  receipt[d] = row'[d].status
    <2>1. CASE d = c
      BY <1>1, <2>1, AcknowledgedType
    <2>2. CASE d # c
      BY <1>1, <2>2, AcknowledgedType DEF OutcomesAreTrue
    <2> QED BY <2>1, <2>2
  <1>2. ASSUME NEW d \in accepted'
        PROVE  d \in Commands /\ receipt[d] = "completed"
    <2>1. CASE d \in accepted
      BY <2>1 DEF AcceptedInv, TypeOK
    <2>2. CASE d \notin accepted
      <3>1. s = "completed" /\ d = c
        BY <1>2, <2>2, AcknowledgedType
      <3> QED BY <3>1 DEF Outcomes
    <2> QED BY <2>1, <2>2
  <1>3. QED
    <2>1. \A d \in Commands : receipt[d] \in Outcomes => receipt'[d] = receipt[d]
      BY ReceiptsStay
    <2> QED BY <1>1, <1>2, <2>1 DEF AcceptedInv, Outcomes

LEMMA OutcomesStep ==
  IInv /\ [Next]_vars => OutcomesAreTrue' /\ AcceptedInv'
  <1> SUFFICES ASSUME IInv, [Next]_vars
               PROVE  OutcomesAreTrue' /\ AcceptedInv'
    OBVIOUS
  <1> USE DEF IInv
  <1> DEFINE Statuses1 ==
        \A d \in Commands :
          row'[d].status \in Outcomes => receipt'[d] = row'[d].status
      Late1 ==
        \A d \in Commands, s \in Outcomes : late'[d][s] > 0 => receipt'[d] = s
  <1>a. \A d \in Commands : receipt[d] \in Outcomes => receipt'[d] = receipt[d]
    BY ReceiptsStay
  <1>b. /\ (\A d \in Commands :
              row'[d].status \in {row[d].status, "pending", "expired"})
             => Statuses1
        /\ accepted' = accepted => AcceptedInv'
        /\ late' = late => Late1
    BY <1>a DEF OutcomesAreTrue, AcceptedInv, TypeOK, Outcomes
  <1>c. Statuses1 /\ Late1 => OutcomesAreTrue'
    BY DEF OutcomesAreTrue
  <1> HIDE DEF Statuses1, Late1
  <1>1. ASSUME NEW c \in Commands,
               \/ Queue(c) \/ Replay(c)
               \/ LeaseRunsOut(c) \/ RetryComesDue(c) \/ ExpiryPasses(c)
        PROVE  Statuses1 /\ Late1 /\ AcceptedInv'
    BY <1>1, <1>b, CloudMoves
  <1>2. ASSUME NEW c \in Commands, NEW s \in Acks, late[c][s] > 0,
               late' = [late EXCEPT ![c][s] = @ - 1]
        PROVE  Late1 /\ (s \in Outcomes => receipt[c] = s)
    <2>1. ASSUME NEW d \in Commands, NEW t \in Outcomes, late'[d][t] > 0
          PROVE  late[d][t] > 0
      BY <1>2, <2>1 DEF TypeOK, Acks
    <2> QED BY <1>2, <1>a, <2>1 DEF OutcomesAreTrue, Late1
  <1>3. ASSUME NEW c \in Commands, NEW s \in Acks, LateAck(c, s)
        PROVE  Statuses1 /\ Late1 /\ AcceptedInv'
    BY <1>2, <1>3, AcknowledgeKeeps DEF LateAck, Statuses1
  <1>4. ASSUME NEW c \in Commands, NEW s \in Acks, LateAckLost(c, s)
        PROVE  Statuses1 /\ Late1 /\ AcceptedInv'
    <2>1. row' = row /\ accepted' = accepted
      BY <1>4 DEF LateAckLost, cloud
    <2> QED BY <1>2, <1>4, <1>b, <2>1 DEF LateAckLost
  <1>5. CASE Announce
    <2>1. /\ current \in Commands /\ "acked" \in Acks
          /\ "acked" \notin Outcomes
          /\ Acknowledge(current, "acked") /\ late' = late
      BY <1>5 DEF Announce, TypeOK, Acks, Outcomes
    <2> QED BY <2>1, <1>b, <1>c, AcknowledgeKeeps DEF Statuses1
  <1>6. CASE Report
    <2>1. /\ current \in Commands /\ receipt[current] \in Acks
          /\ Acknowledge(current, receipt[current]) /\ late' = late
      BY <1>6 DEF Report, TypeOK, Acks, PlaceInv
    <2> QED BY <2>1, <1>b, <1>c, AcknowledgeKeeps DEF Statuses1
  <1>7. CASE Pull \/ PullUnanswered
    BY <1>7, <1>b, <1>c, ClaimInType DEF Pull, PullUnanswered
  <1>8. CASE \/ Revoke \/ Stick \/ Synchronize \/ SaveReceipt \/ Publish
             \/ Refused \/ UNCHANGED vars
             \/ \E o \in Outcomes : Execute(o)
    BY <1>8, <1>b, <1>c
    DEF Revoke, Stick, Synchronize, SaveReceipt, Publish, Refused, Execute,
        vars, cloud
  <1>9. CASE GiveUp
    <2>1. row' = row /\ accepted' = accepted
      BY <1>9 DEF GiveUp, cloud
    <2>2. CASE pc \in {"announcing", "reporting"}
      <3>1. /\ current \in Commands
            /\ Requested \in Acks
            /\ Requested \in Outcomes => receipt[current] = Requested
        BY <2>2 DEF TypeOK, Requested, PlaceInv, Acks, Outcomes
      <3>2. late' = [late EXCEPT ![current][Requested] = @ + 1]
        BY <1>9, <2>2 DEF GiveUp
      <3> HIDE DEF Requested
      <3>3. ASSUME NEW d \in Commands, NEW t \in Outcomes, late'[d][t] > 0
            PROVE  late[d][t] > 0 \/ (d = current /\ t = Requested)
        BY <3>1, <3>2, <3>3 DEF TypeOK, Acks
      <3> QED BY <1>a, <1>b, <1>c, <2>1, <3>1, <3>3 DEF OutcomesAreTrue, Late1
    <2>3. CASE pc \notin {"announcing", "reporting"}
      BY <1>9, <1>b, <1>c, <2>1, <2>3 DEF GiveUp
    <2> QED BY <2>2, <2>3
  <1>10. CASE AckCutShort
    <2>1. /\ current \in Commands /\ receipt[current] = "failed"
          /\ row' = [row EXCEPT ![current].status = "failed",
                                ![current].lease = "none",
                                ![current].next = "none"]
          /\ accepted' = accepted /\ late' = late /\ receipt' = receipt
      BY <1>10 DEF AckCutShort, TypeOK
    <2>2. ASSUME NEW d \in Commands
          PROVE  row'[d].status = IF d = current THEN "failed" ELSE row[d].status
      BY <2>1 DEF TypeOK, Rows
    <2> QED BY <1>b, <1>c, <2>1, <2>2 DEF Statuses1, OutcomesAreTrue
  <1> QED BY <1>1, <1>3, <1>4, <1>5, <1>6, <1>7, <1>8, <1>9, <1>10, <1>b, <1>c
          DEF Next

LEMMA ExecutionsStep == IInv /\ [Next]_vars => ExecutedOncePerReceipt'
  <1> SUFFICES ASSUME IInv, [Next]_vars
               PROVE  ExecutedOncePerReceipt'
    OBVIOUS
  <1> USE DEF IInv
  <1>1. ASSUME UNCHANGED <<runs, cut, receipt>>, pc # "recording",
               pc' # "recording"
        PROVE  ExecutedOncePerReceipt'
    BY <1>1 DEF ExecutedOncePerReceipt
  <1>2. ASSUME UNCHANGED <<process, receipt, history>>
        PROVE  ExecutedOncePerReceipt'
    BY <1>2 DEF ExecutedOncePerReceipt, process, history
  <1>3. ASSUME NEW c \in Commands,
               \/ Queue(c) \/ Replay(c)
               \/ LeaseRunsOut(c) \/ RetryComesDue(c) \/ ExpiryPasses(c)
               \/ \E s \in Acks : LateAck(c, s) \/ LateAckLost(c, s)
        PROVE  UNCHANGED <<process, receipt, history>>
    BY <1>3 DEF Queue, Replay, LeaseRunsOut, RetryComesDue, ExpiryPasses,
       LateAck, LateAckLost
  <1>4. CASE Revoke \/ Stick \/ UNCHANGED vars
    BY <1>2, <1>4 DEF Revoke, Stick, vars
  <1>5. ASSUME NEW S \in SUBSET Commands, GoOn(S)
        PROVE  pc' # "recording"
    BY <1>5, GoOnType
  <1>6. CASE Pull
    <2>1. {c \in Commands : Dispatchable(row[c])} \in SUBSET Commands
      OBVIOUS
    <2> QED BY <1>1, <1>5, <1>6, <2>1 DEF Pull, history
  <1>7. CASE \/ Synchronize \/ PullUnanswered \/ Announce \/ Refused
             \/ AckCutShort
    BY <1>1, <1>7 DEF Synchronize, PullUnanswered, Announce, Refused,
       AckCutShort, DropBatch, history
  <1>8. CASE Report
    <2>1. batch \ {current} \in SUBSET Commands
      BY DEF TypeOK
    <2> QED BY <1>1, <1>5, <1>8, <2>1 DEF Report, history
  <1>9. CASE Publish
    <2>1. batch \ {current} \in SUBSET Commands
      BY DEF TypeOK
    <2> QED BY <1>1, <1>5, <1>9, <2>1 DEF Publish, history
  <1>10. ASSUME NEW o \in Outcomes, Execute(o)
         PROVE  ExecutedOncePerReceipt'
    <2>1. /\ pc = "executing" /\ pc' = "recording"
          /\ current \in Commands /\ receipt[current] = "none"
          /\ UNCHANGED <<current, receipt, cut>>
          /\ runs' = [runs EXCEPT ![current] = @ + 1]
      BY <1>10 DEF Execute, TypeOK, PlaceInv
    <2> QED BY <2>1 DEF ExecutedOncePerReceipt, TypeOK
  <1>11. CASE SaveReceipt
    <2>1. /\ pc = "recording" /\ pc' = "reporting"
          /\ current \in Commands
          /\ UNCHANGED <<runs, cut>>
          /\ receipt' = [receipt EXCEPT ![current] = result]
          /\ result \in Outcomes
      BY <1>11 DEF SaveReceipt, TypeOK, PlaceInv, history
    <2> QED BY <2>1 DEF ExecutedOncePerReceipt, TypeOK, Outcomes
  <1>12. CASE GiveUp
    <2>1. CASE pc = "recording"
      <3>1. /\ pc' = "idle" /\ current \in Commands
            /\ receipt[current] = "none"
            /\ UNCHANGED <<runs, receipt>>
            /\ cut' = [cut EXCEPT ![current] = @ + 1]
        BY <1>12, <2>1 DEF GiveUp, DropBatch, TypeOK, PlaceInv
      <3> QED BY <2>1, <3>1 DEF ExecutedOncePerReceipt, TypeOK
    <2>2. CASE pc # "recording"
      BY <1>1, <1>12, <2>2 DEF GiveUp, DropBatch
    <2> QED BY <2>1, <2>2
  <1> QED BY <1>2, <1>3, <1>4, <1>6, <1>7, <1>8, <1>9, <1>10, <1>11, <1>12
          DEF Next

LEMMA Inductive == Spec => []IInv
  <1>1. Init => IInv
    BY TypeInit DEF Init, IInv, PlaceInv, OutcomesAreTrue, AbsentRow, Outcomes,
       ExecutedOncePerReceipt, AcceptedInv, Acks
  <1>2. IInv /\ [Next]_vars => IInv'
    BY TypeStep, PlaceStep, OutcomesStep, ExecutionsStep DEF IInv
  <1> QED BY <1>1, <1>2, PTL DEF Spec

-----------------------------------------------------------------------------
(* Every variable keeps its type.                                          *)
THEOREM TypeCorrect == Spec => []TypeOK
  <1>1. IInv => TypeOK
    BY DEF IInv
  <1> QED BY <1>1, Inductive, PTL

(* The control plane never shows, and is never sent, an outcome that is    *)
(* not the one in the connector's receipt.                                 *)
THEOREM OutcomesTrue == Spec => []OutcomesAreTrue
  <1>1. IInv => OutcomesAreTrue
    BY DEF IInv
  <1> QED BY <1>1, Inductive, PTL

(* A command is executed once, plus once for each execution that was cut   *)
(* before its receipt, however often it is leased, retried or replayed.    *)
THEOREM ExecutedOnce == Spec => []ExecutedOncePerReceipt
  <1>1. IInv => ExecutedOncePerReceipt
    BY DEF IInv
  <1> QED BY <1>1, Inductive, PTL

-----------------------------------------------------------------------------
(* Commands execute in the order they were queued in, as long as nothing   *)
(* fails and nothing is replayed.  A pull takes every command that is open *)
(* and waits for nothing, so what was queued earlier and is not in the     *)
(* batch is over, and stays so while the batch shrinks from its oldest.    *)

Undisturbed == faults = 0 /\ replays = 0

NothingLate == \A c \in Commands, s \in Acks : late[c][s] = 0

(* Numbers are given in the order of queueing, none to an absent command.  *)
NumbersInv ==
  \A c \in Commands :
    /\ issuedAt[c] <= now
    /\ row[c].status = "absent" => issuedAt[c] = 0 /\ row[c].lease = "none"

(* A lease that runs is one of the batch, or of a command that is over,    *)
(* unless nothing will be pulled any more.                                 *)
LeasesHeld ==
  ~revoked /\ (stuck => pc # "idle") => \A c \in Commands :
    row[c].status \in {"pending", "acked"} /\ row[c].lease = "active" =>
      c \in batch \/ receipt[c] # "none"

Before(d, c) == issuedAt[d] \in 1..issuedAt[c] - 1

IsOver(d) == receipt[d] # "none" \/ row[d].status = "expired"

BatchIsPrefix ==
  \A c \in batch, d \in Commands \ batch : Before(d, c) => IsOver(d)

BatchIsQueued == \A c \in batch : row[c].status # "absent"

CurrentIsOldest == pc \notin {"idle", "pulling"} => current \in Oldest(batch)

OrderParts ==
  /\ NothingLate
  /\ NumbersInv
  /\ LeasesHeld
  /\ BatchIsPrefix
  /\ BatchIsQueued
  /\ CurrentIsOldest

OrderInv == Undisturbed => OrderParts

LEMMA GoOnOldest ==
  ASSUME NEW S \in SUBSET Commands, GoOn(S), UNCHANGED issuedAt
  PROVE  batch' = S /\ CurrentIsOldest'
  <1>1. CASE S = {}
    BY <1>1 DEF GoOn, CurrentIsOldest
  <1>2. CASE S # {}
    <2>1. batch' = S /\ current' \in Oldest(S)
      BY <1>2 DEF GoOn
    <2> QED BY <2>1 DEF Oldest, CurrentIsOldest
  <1> QED BY <1>1, <1>2

(* The loop goes on without its current command, which has its receipt.    *)
LEMMA BatchShrinks ==
  ASSUME IInv, OrderParts, receipt[current] # "none",
         GoOn(batch \ {current}),
         UNCHANGED <<receipt, late, issuedAt, now, revoked>>,
         row' \in [Commands -> Rows],
         \A d \in Commands : d # current => row'[d] = row[d],
         pc \notin {"idle", "pulling"}, row'[current].status # "absent"
  PROVE  OrderParts'
  <1>1. batch' = batch \ {current} /\ CurrentIsOldest'
    BY GoOnOldest DEF IInv, TypeOK
  <1>2. current \in Commands
    BY DEF IInv, TypeOK
  <1>3. NothingLate' /\ NumbersInv'
    BY <1>2 DEF OrderParts, NothingLate, NumbersInv
  <1>4. LeasesHeld'
    BY <1>1, <1>2 DEF OrderParts, LeasesHeld
  <1>5. BatchIsQueued'
    BY <1>1, <1>2 DEF OrderParts, BatchIsQueued, IInv, TypeOK
  <1>6. ASSUME NEW c \in batch', NEW d \in Commands \ batch', Before(d, c)'
        PROVE  IsOver(d)'
    <2>1. CASE d = current
      BY <2>1 DEF IsOver
    <2>2. CASE d # current
      <3>1. c \in batch /\ d \in Commands \ batch /\ Before(d, c)
        BY <1>1, <1>6, <2>2 DEF Before
      <3> QED BY <2>2, <3>1 DEF OrderParts, BatchIsPrefix, IsOver
    <2> QED BY <2>1, <2>2
  <1> QED BY <1>1, <1>3, <1>4, <1>5, <1>6 DEF OrderParts, BatchIsPrefix

(* A pull leaves out only what is over.                                    *)
LEMMA PullKeepsOrder ==
  ASSUME IInv, OrderParts, Pull
  PROVE  OrderParts'
  <1> DEFINE S == {c \in Commands : Dispatchable(row[c])}
  <1>1. /\ S \in SUBSET Commands /\ GoOn(S)
        /\ pc = "pulling" /\ ~revoked /\ batch = {}
        /\ ClaimIn(Commands)
        /\ UNCHANGED <<issuedAt, now, revoked, receipt, late>>
    BY DEF Pull, IInv, TypeOK
  <1>2. batch' = S /\ CurrentIsOldest'
    BY <1>1, GoOnOldest
  <1>3. \A c \in Commands : row'[c] = Claimed(row[c]) /\ row[c] \in Rows
    BY <1>1 DEF ClaimIn, IInv, TypeOK
  <1>4. ASSUME NEW c \in Commands
        PROVE  /\ c \in S => row'[c].status = "pending"
               /\ c \notin S =>
                    \/ row'[c] = row[c]
                    \/ row'[c].status = "expired" /\ row[c].status # "absent"
               /\ row[c].overdue /\ row[c].status # "absent" =>
                    row'[c].status = "expired"
    BY <1>3 DEF Claimed, Dispatchable, Rows
  <1>5. NothingLate' /\ NumbersInv'
    <2>1. ASSUME NEW c \in Commands, row'[c].status = "absent"
          PROVE  row'[c] = row[c]
      BY <1>4, <2>1
    <2> QED BY <1>1, <2>1 DEF OrderParts, NothingLate, NumbersInv
  <1>6. LeasesHeld'
    <2>1. ASSUME NEW c \in Commands, c \notin S,
                 row'[c].status \in {"pending", "acked"},
                 row'[c].lease = "active"
          PROVE  receipt[c] # "none"
      BY <1>1, <1>4, <2>1 DEF OrderParts, LeasesHeld
    <2> QED BY <1>1, <1>2, <2>1 DEF LeasesHeld
  <1>7. BatchIsQueued'
    BY <1>1, <1>2, <1>4 DEF BatchIsQueued
  <1>8. ASSUME NEW c \in S, NEW d \in Commands \ S, Before(d, c)
        PROVE  receipt[d] # "none" \/ row'[d].status = "expired"
    <2>1. row[d].status # "absent" /\ ~Dispatchable(row[d])
      BY <1>8 DEF OrderParts, NumbersInv, Before
    <2>2. CASE row[d].overdue
      BY <1>4, <2>1, <2>2
    <2>3. CASE ~row[d].overdue /\ row[d].status = "expired"
      BY <1>4, <2>3
    <2>4. CASE row[d].status \in Outcomes
      BY <2>4 DEF IInv, OutcomesAreTrue, Outcomes
    <2>5. CASE ~row[d].overdue /\ row[d].status \in {"pending", "acked"}
      <3>1. row[d].lease = "active"
        BY <2>1, <2>5 DEF Dispatchable
      <3> QED BY <1>1, <2>5, <3>1 DEF OrderParts, LeasesHeld
    <2>6. row[d].status \in Statuses
      BY <1>3 DEF Rows
    <2> QED BY <2>1, <2>2, <2>3, <2>4, <2>5, <2>6 DEF Statuses, Outcomes
  <1>9. BatchIsPrefix'
    BY <1>1, <1>2, <1>8 DEF BatchIsPrefix, Before, IsOver
  <1> QED BY <1>2, <1>5, <1>6, <1>7, <1>9 DEF OrderParts

(* Outside the batch a row keeps its status, and no lease begins.          *)
RowKept(c) ==
  /\ row'[c].status # "absent" \/ row[c].status = "absent"
  /\ c \notin batch =>
       /\ row'[c].status = row[c].status
       /\ row'[c].lease = "active" => row[c].lease = "active"
       /\ row[c].lease = "none" => row'[c].lease = "none"

(* Steps that touch neither the batch nor an outcome, and queue nothing.   *)
LEMMA OrderStays ==
  ASSUME IInv, OrderParts,
         UNCHANGED <<batch, current, late, issuedAt, now>>,
         revoked => revoked', stuck => stuck',
         \A c \in Commands : receipt[c] # "none" => receipt'[c] # "none",
         \A c \in Commands : RowKept(c),
         pc' = pc \/ {pc, pc'} \cap {"idle", "pulling"} = {}
  PROVE  OrderParts'
  <1>1. NothingLate' /\ CurrentIsOldest'
    BY DEF OrderParts, NothingLate, CurrentIsOldest, Oldest
  <1>2. NumbersInv'
    <2>1. ASSUME NEW c \in Commands, row'[c].status = "absent"
          PROVE  c \notin batch /\ row[c].status = "absent" /\ RowKept(c)
      BY <2>1 DEF OrderParts, BatchIsQueued, RowKept
    <2> QED BY <2>1 DEF OrderParts, NumbersInv, RowKept
  <1>3. LeasesHeld'
    BY DEF OrderParts, LeasesHeld, RowKept
  <1>4. BatchIsPrefix'
    BY DEF OrderParts, BatchIsPrefix, Before, IsOver, RowKept
  <1>5. BatchIsQueued'
    BY DEF OrderParts, BatchIsQueued, RowKept, IInv, TypeOK
  <1> QED BY <1>1, <1>2, <1>3, <1>4, <1>5 DEF OrderParts

(* A command is queued behind all others.                                  *)
LEMMA QueueKeepsOrder ==
  ASSUME IInv, OrderParts, NEW q \in Commands, Queue(q)
  PROVE  OrderParts'
  <1>1. /\ q \notin batch
        /\ issuedAt[q] = 0 /\ row[q].lease = "none"
        /\ row[q].status = "absent"
    BY DEF Queue, OrderParts, NumbersInv, BatchIsQueued
  <1>2. /\ UNCHANGED <<revoked, stuck, pc, batch, current, receipt, late>>
        /\ now' = now + 1
    BY DEF Queue, process
  <1>3. \A d \in Commands :
          /\ row'[d].status = IF d = q THEN "pending" ELSE row[d].status
          /\ row'[d].lease = row[d].lease
          /\ issuedAt'[d] = IF d = q THEN now + 1 ELSE issuedAt[d]
    BY <1>1, <1>2 DEF Queue, IInv, TypeOK, Rows
  <1>4. now \in Nat /\ \A d \in Commands : issuedAt[d] \in Nat
    BY DEF IInv, TypeOK
  <1>5. batch \subseteq Commands
    BY DEF IInv, TypeOK
  <1>6. NothingLate' /\ BatchIsQueued'
    BY <1>2, <1>3, <1>5 DEF OrderParts, NothingLate, BatchIsQueued
  <1>7. NumbersInv'
    BY <1>2, <1>3, <1>4 DEF OrderParts, NumbersInv
  <1>8. LeasesHeld'
    BY <1>1, <1>2, <1>3 DEF OrderParts, LeasesHeld
  <1>9. ASSUME NEW c \in batch, NEW d \in Commands \ batch, Before(d, c)'
        PROVE  IsOver(d)'
    <2>1. issuedAt[c] <= now /\ c # q
      BY <1>1, <1>5 DEF OrderParts, NumbersInv
    <2>2. d # q /\ Before(d, c)
      BY <1>3, <1>4, <1>5, <1>9, <2>1 DEF Before
    <2> QED BY <1>2, <1>3, <2>2 DEF OrderParts, BatchIsPrefix, IsOver
  <1>10. CurrentIsOldest'
    <2>1. \A c \in batch : issuedAt'[c] = issuedAt[c]
      BY <1>1, <1>3, <1>5
    <2> QED BY <1>2, <2>1 DEF OrderParts, CurrentIsOldest, Oldest
  <1> QED BY <1>2, <1>6, <1>7, <1>8, <1>9, <1>10 DEF OrderParts, BatchIsPrefix

LEMMA OrderStep == IInv /\ OrderInv /\ [Next]_vars => OrderInv'
  <1> SUFFICES ASSUME IInv, OrderInv, [Next]_vars, Undisturbed'
               PROVE  OrderParts'
    BY DEF OrderInv
  <1> USE DEF IInv
  <1>1. ASSUME NEW c \in Commands, Queue(c)
        PROVE  OrderParts'
    BY <1>1, QueueKeepsOrder DEF Queue, counters, OrderInv, Undisturbed
  <1>2. ASSUME NEW c \in Commands, Replay(c)
        PROVE  FALSE
    BY <1>2 DEF Replay, TypeOK, Undisturbed
  <1>3. ASSUME NEW c \in Commands,
               LeaseRunsOut(c) \/ RetryComesDue(c) \/ ExpiryPasses(c)
        PROVE  OrderParts'
    <2>1. /\ OrderParts
          /\ UNCHANGED <<batch, current, late, issuedAt, now, revoked, stuck,
                         receipt, pc>>
      BY <1>3 DEF LeaseRunsOut, RetryComesDue, ExpiryPasses, process,
         counters, OrderInv, Undisturbed
    <2>2. row[c] \in Rows
      BY DEF TypeOK
    <2>3. PICK r :
            /\ row' = [row EXCEPT ![c] = r]
            /\ r.status = row[c].status
            /\ r.lease \in {row[c].lease, "over"}
            /\ row[c].lease = "none" => r.lease = "none"
      BY <1>3, <2>2 DEF LeaseRunsOut, RetryComesDue, ExpiryPasses, Rows
    <2>4. \A d \in Commands : RowKept(d)
      BY <2>3 DEF TypeOK, RowKept
    <2> QED BY <2>1, <2>4, OrderStays
  <1>4. ASSUME NEW c \in Commands, NEW s \in Acks,
               LateAck(c, s) \/ LateAckLost(c, s)
        PROVE  FALSE
    BY <1>4 DEF LateAck, LateAckLost, OrderInv, OrderParts, NothingLate,
       Undisturbed, counters
  <1>a. row' = row => \A d \in Commands : RowKept(d)
    BY DEF RowKept
  <1>5. ASSUME NEW o \in Outcomes, Execute(o)
        PROVE  OrderParts'
    <2>1. /\ OrderParts
          /\ UNCHANGED <<row, batch, current, late, issuedAt, now, revoked,
                         stuck, receipt>>
          /\ pc = "executing" /\ pc' = "recording"
      BY <1>5 DEF Execute, cloud, counters, OrderInv, Undisturbed
    <2> QED BY <1>a, <2>1, OrderStays
  <1>6. CASE Revoke \/ Stick
    <2>1. /\ OrderParts
          /\ UNCHANGED <<row, batch, current, late, issuedAt, now, receipt, pc>>
          /\ (revoked => revoked') /\ (stuck => stuck')
      BY <1>6 DEF Revoke, Stick, process, counters, OrderInv, Undisturbed
    <2> QED BY <1>a, <2>1, OrderStays
  <1>b. CASE Synchronize
    <2>1. /\ OrderParts
          /\ pc' = "pulling" /\ ~stuck
          /\ UNCHANGED <<row, batch, receipt, late, issuedAt, now, revoked,
                         stuck>>
      BY <1>b DEF Synchronize, cloud, counters, OrderInv, Undisturbed
    <2> QED BY <2>1 DEF OrderParts, NothingLate, NumbersInv, LeasesHeld,
               BatchIsPrefix, BatchIsQueued, CurrentIsOldest, Before, IsOver
  <1>7. CASE Pull
    BY <1>7, PullKeepsOrder DEF Pull, counters, OrderInv, Undisturbed
  <1>8. CASE PullUnanswered \/ GiveUp \/ AckCutShort
    BY <1>8 DEF PullUnanswered, GiveUp, AckCutShort, Fault, TypeOK, Undisturbed
  <1>9. CASE Announce
    <2>1. /\ OrderParts
          /\ UNCHANGED <<batch, current, late, receipt>>
          /\ pc = "announcing" /\ pc' = "executing"
          /\ current \in batch /\ current \in Commands
          /\ Acknowledge(current, "acked") /\ "acked" \in Acks
      BY <1>9 DEF Announce, TypeOK, Acks, counters, OrderInv, Undisturbed
    <2>2. /\ \A d \in Commands : d # current => row'[d] = row[d]
          /\ row'[current].status = "acked"
          /\ UNCHANGED <<issuedAt, now, revoked, stuck>>
      BY <2>1, AcknowledgedType
    <2>3. \A d \in Commands : RowKept(d)
      BY <2>1, <2>2 DEF RowKept
    <2> QED BY <2>1, <2>2, <2>3, OrderStays
  <1>10. CASE SaveReceipt
    <2>1. \A c \in Commands : receipt[c] # "none" => receipt'[c] # "none"
      BY <1>10 DEF SaveReceipt, TypeOK, PlaceInv, Outcomes
    <2>2. /\ OrderParts
          /\ UNCHANGED <<row, batch, current, late, issuedAt, now, revoked,
                         stuck>>
          /\ pc = "recording" /\ pc' = "reporting"
      BY <1>10 DEF SaveReceipt, cloud, counters, OrderInv, Undisturbed
    <2> QED BY <1>a, <2>1, <2>2, OrderStays
  <1>11. CASE Report
    <2>1. /\ OrderParts
          /\ pc = "reporting"
          /\ UNCHANGED <<receipt, late>>
          /\ current \in batch /\ current \in Commands
          /\ receipt[current] \in Acks /\ receipt[current] \in Outcomes
          /\ Acknowledge(current, receipt[current])
      BY <1>11 DEF Report, TypeOK, PlaceInv, Acks, Outcomes, counters, OrderInv,
         Undisturbed
    <2>2. /\ row' \in [Commands -> Rows]
          /\ \A d \in Commands : d # current => row'[d] = row[d]
          /\ row'[current].status = receipt[current]
          /\ UNCHANGED <<issuedAt, now, revoked, stuck>>
      BY <2>1, AcknowledgedType
    <2>3. receipt[current] # "none" /\ row'[current].status # "absent"
      BY <2>1, <2>2 DEF Outcomes
    <2>4. CASE result = "completed"
      <3>1. \A d \in Commands : RowKept(d)
        BY <2>1, <2>2, <2>3 DEF RowKept
      <3>2. UNCHANGED <<batch, current>> /\ pc' = "publishing"
        BY <1>11, <2>4 DEF Report
      <3> QED BY <2>1, <2>2, <3>1, <3>2, OrderStays
    <2>5. CASE result # "completed"
      BY <1>11, <2>1, <2>2, <2>3, <2>5, BatchShrinks DEF Report
    <2> QED BY <2>4, <2>5
  <1>12. CASE Publish
    <2>1. /\ OrderParts
          /\ pc = "publishing"
          /\ GoOn(batch \ {current})
          /\ UNCHANGED <<receipt, late, row, issuedAt, now, revoked>>
          /\ current \in batch /\ current \in Commands
          /\ receipt[current] \in Outcomes
      BY <1>12 DEF Publish, TypeOK, PlaceInv, counters, OrderInv, Undisturbed,
         cloud
    <2>2. receipt[current] # "none" /\ row[current].status # "absent"
      BY <2>1 DEF OrderParts, BatchIsQueued, Outcomes
    <2> QED BY <2>1, <2>2, BatchShrinks DEF TypeOK
  <1>13. CASE Refused
    <2>1. /\ OrderParts
          /\ revoked \/ stuck
          /\ batch' = {} /\ pc' = "idle"
          /\ UNCHANGED <<row, receipt, late, issuedAt, now, revoked, stuck>>
      BY <1>13 DEF Refused, DropBatch, cloud, counters, OrderInv, Undisturbed
    <2> QED BY <2>1 DEF OrderParts, NothingLate, NumbersInv, LeasesHeld,
               BatchIsPrefix, BatchIsQueued, CurrentIsOldest
  <1>14. CASE UNCHANGED vars
    <2>1. /\ OrderParts
          /\ UNCHANGED <<row, batch, current, late, issuedAt, now, revoked,
                         stuck, receipt, pc>>
      BY <1>14 DEF vars, cloud, process, counters, OrderInv, Undisturbed
    <2> QED BY <1>a, <2>1, OrderStays
  <1> QED BY <1>1, <1>2, <1>3, <1>4, <1>5, <1>6, <1>b, <1>7, <1>8, <1>9,
             <1>10, <1>11, <1>12, <1>13, <1>14 DEF Next

(* As long as nothing fails and nothing is replayed, commands execute in   *)
(* the order they were queued in, whatever leases run out meanwhile.       *)
THEOREM IssueOrderIsKept == Spec => []InIssueOrder
  <1>1. Init => OrderInv
    BY DEF Init, OrderInv, OrderParts, NothingLate, NumbersInv, LeasesHeld,
       BatchIsPrefix, BatchIsQueued, CurrentIsOldest, AbsentRow
  <1>2. IInv /\ OrderInv => InIssueOrder
    <2> SUFFICES ASSUME IInv, OrderInv, pc = "executing", Undisturbed,
                        NEW c \in Commands, Before(c, current)
                 PROVE  IsOver(c)
      BY DEF InIssueOrder, Undisturbed, Before, IsOver
    <2>1. OrderParts /\ current \in batch /\ batch \subseteq Commands
      BY DEF OrderInv, IInv, TypeOK
    <2>2. c \notin batch
      <3>1. issuedAt[current] \in Nat /\ issuedAt[c] \in Nat
        BY <2>1 DEF IInv, TypeOK
      <3>2. c \in batch => issuedAt[current] <= issuedAt[c]
        BY <2>1 DEF OrderParts, CurrentIsOldest, Oldest
      <3> QED BY <3>1, <3>2 DEF Before
    <2> QED BY <2>1, <2>2 DEF OrderParts, BatchIsPrefix
  <1> QED BY <1>1, <1>2, OrderStep, Inductive, PTL DEF Spec

-----------------------------------------------------------------------------
(* CommandSync implements CommandPromise.                                  *)

(* Steps that neither show an outcome nor decide one only withdraw.        *)
LEMMA Withdraws ==
  ASSUME TypeOK, UNCHANGED receipt,
         \A c \in Commands : row'[c].status \in {row[c].status, "pending",
                                                 "acked", "expired"}
  PROVE  Promise!Withdraw
  <1>1. Shown' \in [Commands -> {"open", "expired"} \cup Outcomes]
    BY DEF Shown
  <1>2. \A c \in Commands : Shown'[c] \in {Shown[c], "open", "expired"}
    BY DEF Shown, Outcomes
  <1> QED BY <1>1, <1>2 DEF Promise!Withdraw, Promise!Outcomes, Outcomes

(* Showing the receipt of one command.                                     *)
LEMMA Shows ==
  ASSUME TypeOK, UNCHANGED receipt, NEW c \in Commands,
         receipt[c] \in Outcomes, row'[c].status = receipt[c],
         \A d \in Commands : d # c => row'[d].status = row[d].status
  PROVE  Promise!Show(c)
  <1>1. Shown' = [Shown EXCEPT ![c] = receipt[c]]
    BY DEF Shown, Outcomes
  <1> QED BY <1>1 DEF Promise!Show, Promise!Outcomes, Outcomes

(* An acknowledgement shows the receipt, or reopens the command.           *)
LEMMA AcknowledgeMaps ==
  ASSUME TypeOK, UNCHANGED receipt, NEW c \in Commands, NEW s \in Acks,
         Acknowledge(c, s), s \in Outcomes => receipt[c] = s
  PROVE  Promise!Next
  <1>1. CASE s \in Outcomes
    BY <1>1, AcknowledgedType, Shows DEF Promise!Next
  <1>2. CASE s = "acked"
    BY <1>2, AcknowledgedType, Withdraws DEF Promise!Next
  <1> QED BY <1>1, <1>2 DEF Acks

LEMMA StepMaps == IInv /\ [Next]_vars => [Promise!Next]_(Promise!vars)
  <1> SUFFICES ASSUME IInv, [Next]_vars
               PROVE  Promise!Next \/ UNCHANGED <<receipt, Shown>>
    BY DEF Promise!vars
  <1> USE DEF IInv
  <1>1. ASSUME NEW c \in Commands,
               \/ Queue(c) \/ Replay(c)
               \/ LeaseRunsOut(c) \/ RetryComesDue(c) \/ ExpiryPasses(c)
        PROVE  Promise!Next
    BY <1>1, CloudMoves, Withdraws DEF Promise!Next
  <1>2. ASSUME NEW c \in Commands, NEW s \in Acks, LateAck(c, s)
        PROVE  Promise!Next
    BY <1>2, AcknowledgeMaps DEF LateAck, OutcomesAreTrue
  <1>3. ASSUME NEW c \in Commands, NEW s \in Acks, LateAckLost(c, s)
        PROVE  UNCHANGED <<receipt, Shown>>
    BY <1>3 DEF LateAckLost, cloud, Shown
  <1>4. CASE Announce
    <2>1. /\ current \in Commands /\ "acked" \in Acks
          /\ "acked" \notin Outcomes
          /\ Acknowledge(current, "acked") /\ receipt' = receipt
      BY <1>4 DEF Announce, TypeOK, Acks, Outcomes
    <2> QED BY <2>1, AcknowledgeMaps
  <1>5. CASE Report
    <2>1. /\ current \in Commands /\ receipt[current] \in Acks
          /\ Acknowledge(current, receipt[current]) /\ receipt' = receipt
      BY <1>5 DEF Report, TypeOK, Acks, PlaceInv
    <2> QED BY <2>1, AcknowledgeMaps
  <1>6. CASE Pull \/ PullUnanswered
    <2>1. \A c \in Commands :
            row'[c].status \in {row[c].status, "pending", "expired"}
      BY <1>6, ClaimInType DEF Pull, PullUnanswered
    <2>2. receipt' = receipt
      BY <1>6 DEF Pull, PullUnanswered
    <2> QED BY <2>1, <2>2, Withdraws DEF Promise!Next
  <1>7. CASE \/ Revoke \/ Stick \/ Synchronize \/ Publish \/ Refused
             \/ GiveUp \/ UNCHANGED vars
             \/ \E o \in Outcomes : Execute(o)
    BY <1>7 DEF Revoke, Stick, Synchronize, Publish, Refused, GiveUp, Execute,
       vars, cloud, Shown
  <1>8. CASE SaveReceipt
    <2>1. /\ current \in Commands /\ receipt[current] = "none"
          /\ result \in Outcomes
          /\ receipt' = [receipt EXCEPT ![current] = result]
          /\ Shown' = Shown
      BY <1>8 DEF SaveReceipt, TypeOK, PlaceInv, cloud, Shown
    <2>2. Promise!Decide(current, result)
      BY <2>1 DEF Promise!Decide
    <2> QED BY <2>1, <2>2 DEF Promise!Next, Promise!Outcomes, Outcomes
  <1>9. CASE AckCutShort
    <2>1. /\ current \in Commands /\ receipt[current] = "failed"
          /\ row' = [row EXCEPT ![current].status = "failed",
                                ![current].lease = "none",
                                ![current].next = "none"]
          /\ receipt' = receipt
      BY <1>9 DEF AckCutShort, TypeOK
    <2>2. ASSUME NEW d \in Commands
          PROVE  row'[d].status = IF d = current THEN "failed" ELSE row[d].status
      BY <2>1 DEF TypeOK, Rows
    <2>3. Promise!Show(current)
      BY <2>1, <2>2, Shows DEF Outcomes
    <2> QED BY <2>1, <2>3 DEF Promise!Next
  <1> QED BY <1>1, <1>2, <1>3, <1>4, <1>5, <1>6, <1>7, <1>8, <1>9 DEF Next

(* The outcome of a command is decided once, and only that outcome is ever *)
(* shown: CommandSync implements CommandPromise.                           *)
THEOREM CommandSyncKeepsPromise == Spec => KeepsPromise
  <1>1. Init => Promise!Init
    BY DEF Init, Promise!Init, Shown, AbsentRow, Outcomes
  <1> QED BY <1>1, StepMaps, Inductive, PTL DEF Spec, KeepsPromise, Promise!Spec

-----------------------------------------------------------------------------
(* When a completion is final.                                             *)

(* The day of a completed command does not end, and no request of an       *)
(* earlier attempt is on its way that would announce it once more.         *)
Undelayed ==
  \A c \in accepted : ~row[c].overdue /\ late[c]["acked"] = 0

StaysCompleted == \A c \in accepted : row[c].status = "completed"

LEMMA CompletedStep ==
  ASSUME IInv, Undelayed, StaysCompleted, [Next]_vars
  PROVE  StaysCompleted'
  <1> TypeOK /\ AcceptedInv /\ OutcomesAreTrue
    BY DEF IInv
  <1> DEFINE Kept(c) == row'[c].status = "completed"
  <1>1. ASSUME NEW S, ClaimIn(S), UNCHANGED accepted
        PROVE  StaysCompleted'
    <2> SUFFICES ASSUME NEW c \in accepted PROVE Kept(c)
      BY <1>1 DEF StaysCompleted
    <2>1. c \in Commands /\ row[c].status = "completed" /\ ~row[c].overdue
      BY DEF TypeOK, StaysCompleted, Undelayed
    <2>2. Claimed(row[c]) = row[c]
      BY <2>1 DEF Claimed, Dispatchable
    <2> QED BY <1>1, <2>1, <2>2 DEF ClaimIn
  <1>2. ASSUME NEW c \in Commands, NEW s \in Acks, Acknowledge(c, s),
               c \in accepted => s = "completed"
        PROVE  StaysCompleted'
    <2>1. /\ row'[c].status = s
          /\ \A d \in Commands : d # c => row'[d] = row[d]
          /\ accepted' = IF s = "completed" THEN accepted \cup {c} ELSE accepted
      BY <1>2, AcknowledgedType DEF Acknowledge
    <2> QED BY <1>2, <2>1 DEF StaysCompleted, TypeOK
  <1>3. ASSUME NEW c \in Commands,
               \/ Queue(c) \/ Replay(c)
               \/ LeaseRunsOut(c) \/ RetryComesDue(c) \/ ExpiryPasses(c)
        PROVE  StaysCompleted'
    <2>1. row[c] \in Rows /\ UNCHANGED accepted
      BY <1>3, CloudMoves DEF TypeOK, cloud
    <2>2. c \in accepted => row[c].status = "completed"
      BY DEF StaysCompleted
    <2>3. CASE Queue(c) \/ Replay(c)
      <3>1. c \notin accepted /\ \A d \in Commands \ {c} : row'[d] = row[d]
        BY <2>2, <2>3 DEF Queue, Replay, Replayable, TypeOK
      <3> QED BY <2>1, <3>1 DEF StaysCompleted, TypeOK
    <2>4. CASE LeaseRunsOut(c) \/ RetryComesDue(c) \/ ExpiryPasses(c)
      <3>1. /\ row'[c].status = row[c].status
            /\ \A d \in Commands \ {c} : row'[d] = row[d]
        <4>1. row \in [Commands -> Rows]
          BY DEF TypeOK
        <4> QED BY <2>1, <2>4, <4>1
            DEF LeaseRunsOut, RetryComesDue, ExpiryPasses, Rows
      <3> QED BY <2>1, <3>1 DEF StaysCompleted, TypeOK
    <2> QED BY <1>3, <2>3, <2>4
  <1>4. ASSUME NEW c \in Commands, NEW s \in Acks, LateAck(c, s)
        PROVE  StaysCompleted'
    <2>1. c \in accepted => s = "completed"
      <3>1. c \in accepted => late[c]["acked"] = 0 /\ receipt[c] = "completed"
        BY DEF Undelayed, AcceptedInv
      <3>2. s \in Outcomes => receipt[c] = s
        BY <1>4 DEF LateAck, OutcomesAreTrue
      <3>3. late[c][s] > 0
        BY <1>4 DEF LateAck
      <3> QED BY <3>1, <3>2, <3>3 DEF Acks
    <2> QED BY <1>2, <1>4, <2>1 DEF LateAck
  <1>5. CASE Announce
    <2>1. current \in Commands /\ receipt[current] = "none"
      BY <1>5 DEF Announce, IInv, PlaceInv, TypeOK
    <2>2. current \notin accepted
      BY <2>1 DEF AcceptedInv
    <2> QED BY <1>2, <1>5, <2>1, <2>2 DEF Announce, Acks
  <1>6. CASE Report
    <2>1. current \in Commands /\ receipt[current] \in Acks
      BY <1>6 DEF Report, IInv, PlaceInv, TypeOK, Acks
    <2>2. current \in accepted => receipt[current] = "completed"
      BY DEF AcceptedInv
    <2> QED BY <1>2, <1>6, <2>1, <2>2 DEF Report
  <1>7. CASE AckCutShort
    <2>1. current \notin accepted
      BY <1>7 DEF AckCutShort, AcceptedInv
    <2>2. \A d \in Commands \ {current} : row'[d] = row[d]
      BY <1>7 DEF AckCutShort, TypeOK
    <2> QED BY <1>7, <2>1, <2>2 DEF AckCutShort, StaysCompleted, TypeOK
  <1>8. CASE Pull \/ PullUnanswered
    BY <1>1, <1>8 DEF Pull, PullUnanswered
  <1>9. CASE \/ \E o \in Outcomes : Execute(o)
             \/ \E c \in Commands, s \in Acks : LateAckLost(c, s)
             \/ Revoke \/ Stick \/ Synchronize \/ SaveReceipt \/ Publish
             \/ Refused \/ GiveUp \/ UNCHANGED vars
    BY <1>9
    DEF Execute, LateAckLost, Revoke, Stick, Synchronize, SaveReceipt, Publish,
        Refused, GiveUp, cloud, vars, StaysCompleted
  <1> QED BY <1>3, <1>4, <1>5, <1>6, <1>7, <1>8, <1>9 DEF Next

(* An operator cannot replay a command once it is recorded as completed,   *)
(* unless its day ended or an announcement of an earlier attempt came      *)
(* after it: these two are all that lets retryConnectorCommand accept it.  *)
THEOREM CompletionsAreFinal == Spec /\ []Undelayed => CompletedIsNotReplayed
  <1>1. Init => StaysCompleted
    BY DEF Init, StaysCompleted
  <1>2. IInv /\ Undelayed /\ StaysCompleted /\ [Next]_vars => StaysCompleted'
    BY CompletedStep
  <1>3. StaysCompleted => [\A c \in accepted : ~Replay(c)]_vars
    BY DEF StaysCompleted, Replay, Replayable
  <1>4. Spec /\ []Undelayed => []StaysCompleted
    BY <1>1, <1>2, Inductive, PTL DEF Spec
  <1> QED BY <1>3, <1>4, PTL DEF CompletedIsNotReplayed
=============================================================================
