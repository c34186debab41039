---------------------------- MODULE CallContract ----------------------------
(***************************************************************************)
(* What Coordinator.call promises to its callers (the heartbeat loop,      *)
(* Predict and computeShard), with no connection, channel or goroutine in  *)
(* sight.  A call either returns the answer the worker gave to this very   *)
(* request, or an error; it returns once.  An error says nothing about the *)
(* worker: the request may have been served, may be served later, or may   *)
(* never be.                                                               *)
(***************************************************************************)
CONSTANT Calls

VARIABLES
    status,     \* what the caller sees of each call
    answer      \* what the worker has answered to each call, seen or not

vars == <<status, answer>>

TypeOK == /\ status \in [Calls -> {"idle", "running", "ok", "failed"}]
          /\ answer \in [Calls -> {"none", "ok", "error"}]

Init == /\ status = [k \in Calls |-> "idle"]
        /\ answer = [k \in Calls |-> "none"]

Begin(k) == /\ status[k] = "idle"
            /\ status' = [status EXCEPT ![k] = "running"]
            /\ UNCHANGED answer

\* The worker answers at most once, possibly after the caller has given up.
Answer(k) == /\ status[k] # "idle"
             /\ answer[k] = "none"
             /\ \E a \in {"ok", "error"} : answer' = [answer EXCEPT ![k] = a]
             /\ UNCHANGED status

Succeed(k) == /\ status[k] = "running"
              /\ answer[k] = "ok"
              /\ status' = [status EXCEPT ![k] = "ok"]
              /\ UNCHANGED answer

Fail(k) == /\ status[k] = "running"
           /\ status' = [status EXCEPT ![k] = "failed"]
           /\ UNCHANGED answer

Next == \E k \in Calls : Begin(k) \/ Answer(k) \/ Succeed(k) \/ Fail(k)

Spec == Init /\ [][Next]_vars
=============================================================================
