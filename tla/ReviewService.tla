---------------------------- MODULE ReviewService ----------------------------
(***************************************************************************)
(* The service as deployed: webhook intake, operators and workers on one   *)
(* review_runs table.                                                      *)
(***************************************************************************)
EXTENDS AdminActions, RunIntake

vars == <<schedAllVars, adminVars, intakeVars>>

TypeOK == SchedTypeOK /\ AdminTypeOK /\ IntakeTypeOK

Init == SchedInit /\ AdminInit /\ IntakeInit

Next ==
  \/ SchedNext /\ UNCHANGED <<adminVars, intakeVars>>
  \/ AdminStep /\ UNCHANGED intakeVars
  \/ IntakeStep /\ UNCHANGED <<schedVars, adminVars>>

Spec == Init /\ [][Next]_vars
-----------------------------------------------------------------------------
(* Properties                                                              *)

\* No delivery, repeated or reordered, and no rerun comment creates a second run for
\* an idempotency key.
NoDuplicateRun ==
  \A i, j \in DOMAIN runs : runs[i].key = runs[j].key => i = j

\* The supersession trail leads forward: to a later run of the same merge
\* request, whatever late events and late workers did to either since.
SupersessionPointsForward ==
  \A i \in DOMAIN runs :
    runs[i].superseded_by # 0 =>
      /\ runs[i].superseded_by \in (i + 1)..lastId
      /\ runs[runs[i].superseded_by].mr = runs[i].mr

\* Latest head wins: a run created by a webhook leaves no older run of its
\* merge request active, and none comes back to life afterwards through a
\* retry, the reaper or a late worker.
NewerRunReplacesOlder ==
  \A i, j \in DOMAIN runs :
    /\ i < j /\ runs[i].mr = runs[j].mr
    /\ runs[j].key.trigger = "webhook"
    => ~Active(runs[i])

Quiet(m, states) == wire[m] = {} /\ forge[m].state \in states

\* Once every event has been delivered, an open merge request has a run for
\* its head, and every run still active is for that head.
QuietMRReviewsItsHead ==
  \A m \in MRs : Quiet(m, {"opened"}) =>
    /\ \E i \in DOMAIN runs : runs[i].mr = m /\ runs[i].head = forge[m].head
    /\ \A i \in DOMAIN runs :
         runs[i].mr = m /\ Active(runs[i]) => runs[i].head = forge[m].head

\* Once every event has been delivered, a closed or merged merge request has
\* no active run: no late worker and no retry revives one that close or merge
\* cancelled.
ClosedMRHasNoActiveRun ==
  \A m \in MRs : Quiet(m, {"closed", "merged"}) =>
    \A i \in DOMAIN runs : runs[i].mr = m => ~Active(runs[i])

\* scheduler/service_test.go, TestCancelledRunCannotComplete: a run that was
\* cancelled while it was processed stays cancelled.
CancelledStaysCancelled ==
  [][\A i \in DOMAIN runs :
       runs[i].status = "cancelled" => runs'[i].status = "cancelled"]_vars
=============================================================================
