---------------------------- MODULE RequestPromise ----------------------------
(***************************************************************************)
(* What calls of send and subscribe promise over a connection that may be  *)
(* lost and made again: a request is executed at most once more than the   *)
(* connection was lost, and only while its caller waits; the caller gets   *)
(* one result, that of an execution of this very request; and a call fails *)
(* without a result only if it was never executed.                         *)
(***************************************************************************)
EXTENDS Naturals

CONSTANT Requests

VARIABLES call,    \* each call: "idle", "pending", "settled" or "failed"
          runs,    \* how often its request was executed
          result,  \* the execution whose result its caller got: 0 for none
          losses   \* how often the connection was lost

promiseVars == <<call, runs, result, losses>>

Init ==
    /\ call = [r \in Requests |-> "idle"]
    /\ runs = [r \in Requests |-> 0]
    /\ result = [r \in Requests |-> 0]
    /\ losses = 0

Ask(r) ==
    /\ call[r] = "idle"
    /\ call' = [call EXCEPT ![r] = "pending"]
    /\ UNCHANGED <<runs, result, losses>>

(* Calls fail together when the connection is closed.                      *)
Refuse(refused) ==
    /\ \A r \in refused : call[r] \in {"idle", "pending"} /\ runs[r] = 0
    /\ call' = [r \in Requests |-> IF r \in refused THEN "failed" ELSE call[r]]
    /\ UNCHANGED <<runs, result, losses>>

Run(r) ==
    /\ call[r] = "pending"
    /\ runs[r] <= losses
    /\ runs' = [runs EXCEPT ![r] = @ + 1]
    /\ UNCHANGED <<call, result, losses>>

Settle(r) ==
    /\ call[r] = "pending"
    /\ \E run \in 1..runs[r] : result' = [result EXCEPT ![r] = run]
    /\ call' = [call EXCEPT ![r] = "settled"]
    /\ UNCHANGED <<runs, losses>>

Lose ==
    /\ losses' = losses + 1
    /\ UNCHANGED <<call, runs, result>>

Next ==
    \/ \E r \in Requests : Ask(r) \/ Run(r) \/ Settle(r)
    \/ \E refused \in SUBSET Requests : Refuse(refused)
    \/ Lose

Spec == Init /\ [][Next]_promiseVars
=============================================================================
