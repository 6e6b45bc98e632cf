----------------------------- MODULE Deployment -----------------------------
(***************************************************************************)
(* The service with what creates runs in detail: webhook handlers with     *)
(* concurrent requests and manual triggers, beside the workers.            *)
(* Operators, who are in ReviewService, do nothing here.                   *)
(***************************************************************************)
EXTENDS ReviewService, WebhookIngress, ManualTrigger

deploymentVars == <<vars, ingressVars, command>>

DeploymentInit == Init /\ IngressInit /\ ManualInit

CommandsRun == \E c \in Commands : command[c].pc # "start"

\* The command asks GitLab.
CommandStarts(c) ==
  /\ moves < MaxOddMoves /\ ~Odd
  /\ \E m \in MRs : platform[m] = "gitlab" /\ GetMergeRequest(c, m)

DeploymentNext ==
  \/ SchedNext /\ UNCHANGED <<adminVars, intakeVars, ingressVars, command>>
  \/ /\ CommandsRun => moves < MaxOddMoves
     /\ \E m \in MRs : ForgeMovesOn(m)
     /\ UNCHANGED <<schedVars, adminVars, command>>
  \/ /\ IngressStep
     /\ CommandsRun => losses' = losses
     /\ UNCHANGED <<schedVars, adminVars, command>>
  \/ \E c \in Commands : /\ CommandStarts(c) \/ CommandStep(c)
                         /\ UNCHANGED <<schedVars, adminVars, ingressVars>>

DeploymentSpec == DeploymentInit /\ [][DeploymentNext]_deploymentVars
-----------------------------------------------------------------------------
(* Properties                                                              *)

\* A run that was created by hand leaves no older run of its merge request
\* active, and none comes back to life later.  Older runs that were created by
\* hand themselves are not meant: their own command may still write "failed"
\* over whatever they are, and UpdateReviewRunStatus keeps a next_retry_at.
ManualRunReplacesOlder ==
  \A i, j \in DOMAIN runs :
    /\ i < j /\ runs[i].mr = runs[j].mr
    /\ runs[j].key.trigger = "manual" /\ runs[i].key.trigger # "manual"
    => ~Active(runs[i])

\* Once the command has exited with success nobody works on its run any
\* more: a worker that claimed it meanwhile does not queue it again.
ReportedSuccessIsFinal ==
  \A c \in Commands :
    runSucceeded(command[c].result) => ~Active(runs[command[c].run])
=============================================================================
