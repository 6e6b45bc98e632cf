---------------------------- MODULE AdminActions ----------------------------
(***************************************************************************)
(* internal/adminapi/actions.go: an operator retries, cancels, requeues or *)
(* reruns a run.  runAction reads the row without a lock, checks it, and   *)
(* then updates by id alone, so the row may change between the two steps.  *)
(***************************************************************************)
EXTENDS RunScheduler

CONSTANTS
  Operators,    \* concurrent admin requests
  MaxAdminOps   \* bound on the requests accepted in one behaviour

ASSUME MaxAdminOpsAssumption == MaxAdminOps \in Nat

VARIABLES
  request,      \* the request each operator has past its check
  adminOps      \* requests accepted so far

adminVars == <<request, adminOps>>

AdminOps == {"retry_run", "cancel_run", "requeue_run", "rerun_run"}
NoRequest == [op |-> "none", run |-> 0]

AdminTypeOK ==
  /\ request \in [Operators -> [op : AdminOps \cup {"none"}, run : 0..lastId]]
  /\ \A o \in Operators : request[o].run = 0 <=> request[o].op = "none"
  /\ adminOps \in 0..MaxAdminOps

AdminInit ==
  /\ request = [o \in Operators |-> NoRequest]
  /\ adminOps = 0

\* The condition under which each action does not answer 409.
Accepts(op, row) ==
  \/ /\ op = "retry_run"
     /\ row.status = "failed" /\ row.superseded_by = 0
  \/ op = "cancel_run" /\ Active(row)
  \/ /\ op = "requeue_run"
     /\ row.superseded_by = 0 /\ row.error_code # "superseded_by_new_head"
     /\ row.status \in {"cancelled", "failed"}
  \/ /\ op = "rerun_run"
     /\ row.status \in {"completed", "failed", "cancelled"}

AdminCheck(o) ==
  /\ request[o] = NoRequest
  /\ adminOps < MaxAdminOps
  /\ \E op \in AdminOps, i \in DOMAIN runs :
       /\ Accepts(op, runs[i])
       /\ request' = [request EXCEPT ![o] = [op |-> op, run |-> i]]
  /\ adminOps' = adminOps + 1
  /\ UNCHANGED schedAllVars

\* A run made claimable while a worker is busy with it is taken from it.
TakenBy(op, i) == {j \in {i} : op \in {"retry_run", "requeue_run"} /\ Held(i)}

AdminWrite(o) ==
  LET op == request[o].op
      i  == request[o].run
  IN
  /\ op # "none"
  /\ \/ op = "retry_run" /\ SetRow(i, RetryReviewRunNow(runs[i])) /\ UNCHANGED lastId
     \/ op = "cancel_run" /\ SetRow(i, CancelReviewRun(runs[i])) /\ UNCHANGED lastId
     \/ op = "requeue_run" /\ SetRow(i, RequeueReviewRun(runs[i])) /\ UNCHANGED lastId
     \/ /\ op = "rerun_run"
        /\ lastId' = lastId + 1
        /\ runs' = Inserted(runs, lastId,
             InsertReviewRun(runs[i].mr, runs[i].head,
               [trigger |-> "admin", mr |-> runs[i].mr, head |-> runs[i].head,
                nonce |-> lastId + 1]))
  /\ broken' = broken \cup TakenBy(op, i)
  /\ request' = [request EXCEPT ![o] = NoRequest]
  /\ UNCHANGED <<adminOps, workerVars, check, gated, faults>>

AdminStep == \E o \in Operators : AdminCheck(o) \/ AdminWrite(o)
=============================================================================
