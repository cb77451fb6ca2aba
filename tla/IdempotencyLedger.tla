------------------------- MODULE IdempotencyLedger -------------------------
(***************************************************************************)
(* The idempotent_mutations table of the run journal (run-journal).  One   *)
(* row per (session, idempotency key): the method and payload digest that  *)
(* first used the key, the state of that use and the response stored for   *)
(* replays.  A single session is modelled, so a key names a row.           *)
(***************************************************************************)
EXTENDS Naturals, FiniteSets

CONSTANTS Keys,       (* idempotency keys of the session                   *)
          Requests,   (* requests a client may send; a request also names  *)
                      (* the action and the approval it creates            *)
          NoRequest   (* no request                                        *)

ASSUME LedgerAssumption ==
  /\ NoRequest \notin Requests
  /\ Keys # {}

VARIABLE ledger       (* the table: key -> row                             *)

RowStates == {"absent", "pending", "completed", "outcome_unknown"}

(* "absent" is the row that is not there; `call` is the method and payload *)
(* digest; `response` names the request whose success response is stored.  *)
Row(calls) ==
  [state : RowStates, call : calls, response : Requests \cup {NoRequest}]

AbsentRow(noCall) ==
  [state |-> "absent", call |-> noCall, response |-> NoRequest]

-----------------------------------------------------------------------------
(* Faulty variants, each used by a run that shows a property can fail.     *)

(* A key whose outcome is unknown may be claimed again, as if the pending  *)
(* row had been released when its handler failed.                          *)
ClaimStatusReleased(k, c) ==
  IF ledger[k].state \in {"absent", "outcome_unknown"} THEN "claimed"
  ELSE IF ledger[k].call # c THEN "conflict"
  ELSE IF ledger[k].state = "completed" THEN "replay" ELSE "in_progress"

(* The fingerprint of the request is not compared with the row's.          *)
ClaimStatusNoFingerprint(k, c) ==
  IF ledger[k].state = "absent" THEN "claimed"
  ELSE IF ledger[k].state = "completed" THEN "replay" ELSE "in_progress"

(* A pending row found by a second request is taken over.                  *)
ClaimStatusTakeover(k, c) ==
  IF ledger[k].state \in {"absent", "pending"} THEN "claimed"
  ELSE IF ledger[k].call # c THEN "conflict"
  ELSE IF ledger[k].state = "completed" THEN "replay" ELSE "outcome_unknown"

(* The startup reconciliation of pending rows is forgotten.                *)
ReconcileNothing == ledger' = ledger

-----------------------------------------------------------------------------
(* What the claim transaction finds for a request c under key k.           *)
ClaimStatus(k, c) ==
  IF ledger[k].state = "absent" THEN "claimed"
  ELSE IF ledger[k].call # c THEN "conflict"
  ELSE IF ledger[k].state = "completed" THEN "replay"
  ELSE IF ledger[k].state = "outcome_unknown" THEN "outcome_unknown"
  ELSE "in_progress"

(* The same transaction inserts the pending row when it claims the key.    *)
InsertPending(k, c) ==
  ledger' = [ledger EXCEPT ![k] =
               [state |-> "pending", call |-> c, response |-> NoRequest]]

(* No condition on the row's state: an unknown outcome is overwritten.     *)
CompleteMutation(k, r) ==
  ledger' = [ledger EXCEPT ![k].state = "completed", ![k].response = r]

(* UPDATE ... WHERE state != 'completed'.                                  *)
MarkOutcomeUnknown(k) ==
  ledger' = IF ledger[k].state = "completed" THEN ledger
            ELSE [ledger EXCEPT ![k].state = "outcome_unknown",
                                ![k].response = NoRequest]

(* Every pending row of every session, in one UPDATE.                      *)
ReconcilePending ==
  ledger' = [k \in Keys |->
               IF ledger[k].state = "pending"
               THEN [ledger[k] EXCEPT !.state = "outcome_unknown"]
               ELSE ledger[k]]
=============================================================================
