---------------------------- MODULE KeyedMutation ----------------------------
(***************************************************************************)
(* What an idempotency key promises a client, with no table, no event loop *)
(* and no restart: the first request that uses a key is the only one that  *)
(* ever runs under it, its effect happens at most once and before its      *)
(* result is known, and every answer given for the key is that result.     *)
(***************************************************************************)
CONSTANTS Keys, Requests, NoRequest

VARIABLES runners,   (* key -> requests that ran under it: none, or one    *)
          applied,   (* requests whose effect happened                     *)
          result,    (* key -> "none", "unknown", or "known" for good      *)
          answers    (* request -> the request whose result it was given   *)

vars == <<runners, applied, result, answers>>

Init ==
  /\ runners = [k \in Keys |-> {}]
  /\ applied = {}
  /\ result = [k \in Keys |-> "none"]
  /\ answers = [r \in Requests |-> NoRequest]

Begin(r, k) ==
  /\ runners[k] = {}
  /\ \A j \in Keys : r \notin runners[j]
  /\ runners' = [runners EXCEPT ![k] = {r}]
  /\ UNCHANGED <<applied, result, answers>>

Apply(r, k) ==
  /\ runners[k] = {r}
  /\ result[k] # "known"
  /\ r \notin applied
  /\ applied' = applied \cup {r}
  /\ UNCHANGED <<runners, result, answers>>

(* The result becomes known; the client that ran may or may not hear it.   *)
Publish(r, k) ==
  /\ runners[k] = {r}
  /\ result[k] # "known"
  /\ result' = [result EXCEPT ![k] = "known"]
  /\ \/ answers' = [answers EXCEPT ![r] = r]
     \/ UNCHANGED answers
  /\ UNCHANGED <<runners, applied>>

(* Whether the requests under these keys took effect is no longer known.   *)
Lose(ks) ==
  /\ \A k \in ks : runners[k] # {} /\ result[k] = "none"
  /\ result' = [k \in Keys |-> IF k \in ks THEN "unknown" ELSE result[k]]
  /\ UNCHANGED <<runners, applied, answers>>

(* A retry is given the known result.                                      *)
Replay(q, k) ==
  /\ result[k] = "known"
  /\ answers[q] = NoRequest
  /\ \E r \in Requests :
       /\ runners[k] = {r}
       /\ answers' = [answers EXCEPT ![q] = r]
  /\ UNCHANGED <<runners, applied, result>>

Next ==
  \/ \E r \in Requests, k \in Keys :
       Begin(r, k) \/ Apply(r, k) \/ Publish(r, k) \/ Replay(r, k)
  \/ \E ks \in SUBSET Keys : Lose(ks)

Spec == Init /\ [][Next]_vars
=============================================================================
