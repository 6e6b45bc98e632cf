------------------------------- MODULE JobQueue -------------------------------
(***************************************************************************)
(* What a queue of review runs promises, whoever its workers are and       *)
(* however they fail.  A job is queued, leased to a worker, or settled.    *)
(* A lease may be taken away and the job queued again, a job may be        *)
(* dropped before it settles, and only a leased job can succeed or fail.   *)
(* A settled job stays as it is.                                           *)
(***************************************************************************)
VARIABLE jobs   \* jobs[i] is the state of the i-th job submitted

Settled == {"succeeded", "failed", "dropped"}
JobStates == {"queued", "leased"} \cup Settled

Init == \A i \in DOMAIN jobs : jobs[i] = "queued"

Lease(i) ==
  /\ jobs[i] = "queued"
  /\ jobs' = [jobs EXCEPT ![i] = "leased"]

Settle(i) ==
  /\ jobs[i] = "leased"
  /\ \E s \in {"succeeded", "failed"} : jobs' = [jobs EXCEPT ![i] = s]

\* Several leases may be taken back at once.
Release ==
  /\ DOMAIN jobs' = DOMAIN jobs
  /\ \A i \in DOMAIN jobs :
       \/ jobs'[i] = jobs[i]
       \/ jobs[i] = "leased" /\ jobs'[i] = "queued"

\* Unsettled jobs are dropped, for a new job or for none.
Drop ==
  /\ \/ DOMAIN jobs' = DOMAIN jobs
     \/ \E new \in DOMAIN jobs' : /\ new \notin DOMAIN jobs
                                 /\ DOMAIN jobs' = DOMAIN jobs \cup {new}
                                 /\ jobs'[new] = "queued"
  /\ \A i \in DOMAIN jobs :
       \/ jobs'[i] = jobs[i]
       \/ jobs[i] \notin Settled /\ jobs'[i] = "dropped"

Next ==
  \/ \E i \in DOMAIN jobs : Lease(i) \/ Settle(i)
  \/ Release
  \/ Drop

Spec == Init /\ [][Next]_jobs
=============================================================================
