------------------------------ MODULE RunIntake ------------------------------
(***************************************************************************)
(* internal/runs/service.go and the rerun command of internal/commands:    *)
(* how events of the forge (GitLab, GitHub) become review runs.            *)
(*                                                                         *)
(* The forge is the environment.  It changes merge requests, and every     *)
(* change it announces is an event on the wire of its merge request, where *)
(* it may be overtaken or delivered again if the constants allow it.  One  *)
(* delivery is one transaction, and the transactions of one merge request  *)
(* are serialised by the row locks its upserts take, so a delivery is one  *)
(* step.                                                                   *)
(***************************************************************************)
EXTENDS ReviewRunStore

CONSTANTS
  InOrder,      \* the events of a merge request arrive in order
  Rewinds,      \* a push may go back to an earlier head
  LateComments, \* comments on merge requests that are not open
  MaxMoves,     \* bound on the changes the forge makes
  MaxDuplicates \* bound on deliveries that are repeated

ASSUME IntakeAssumption ==
  /\ {InOrder, Rewinds, LateComments} \subseteq BOOLEAN
  /\ MaxMoves \in Nat
  /\ MaxDuplicates \in Nat

VARIABLES
  forge,        \* merge requests as the forge has them
  wire,         \* events not yet delivered, numbered as they were sent
  moves,        \* changes so far
  duplicates,   \* repeated deliveries so far
  mrs           \* the merge_requests table

intakeVars == <<forge, wire, moves, duplicates, mrs>>

MRStates == {"none", "opened", "closed", "merged"}
Actions == {"open", "reopen", "update", "close", "merge", "rerun"}

Events == [n : Nat, action : Actions, state : MRStates, head : Heads]

IntakeTypeOK ==
  /\ forge \in [MRs -> [state : MRStates, head : Heads, past : SUBSET Heads]]
  /\ wire \in [MRs -> SUBSET Events]
  /\ moves \in 0..MaxMoves
  /\ duplicates \in 0..MaxDuplicates
  /\ mrs \in [MRs -> [state : MRStates, head : Heads]]

IntakeInit ==
  /\ forge \in [MRs -> {[state |-> "none", head |-> h, past |-> {}] : h \in Heads}]
  /\ wire = [m \in MRs |-> {}]
  /\ moves = 0
  /\ duplicates = 0
  /\ mrs = [m \in MRs |-> [state |-> "none", head |-> forge[m].head]]

-----------------------------------------------------------------------------
(* The forge                                                               *)

Becomes(m, state, head) ==
  forge' = [forge EXCEPT ![m] = [state |-> state, head |-> head,
                                 past |-> @.past \cup {@.head}]]

Announce(m, action, state, head) ==
  wire' = [wire EXCEPT ![m] = @ \cup
    {[n |-> moves + 1, action |-> action, state |-> state, head |-> head]}]

NewHeads(m) ==
  {h \in Heads : h # forge[m].head /\ (Rewinds \/ h \notin forge[m].past)}

ForgeChanges(m) ==
  LET head == forge[m].head IN
  \/ /\ forge[m].state = "none"
     /\ Becomes(m, "opened", head) /\ Announce(m, "open", "opened", head)
  \/ /\ forge[m].state = "opened"
     /\ \E h \in NewHeads(m) :
          Becomes(m, "opened", h) /\ Announce(m, "update", "opened", h)
  \/ /\ forge[m].state = "opened"       \* a title or a label changes
     /\ Becomes(m, "opened", head) /\ Announce(m, "update", "opened", head)
  \/ /\ forge[m].state = "opened"
     /\ Becomes(m, "closed", head) /\ Announce(m, "close", "closed", head)
  \/ /\ forge[m].state = "opened"
     /\ Becomes(m, "merged", head) /\ Announce(m, "merge", "merged", head)
  \/ /\ forge[m].state = "closed"       \* pushed to meanwhile, or not
     /\ \E h \in NewHeads(m) \cup {head} :
          Becomes(m, "opened", h) /\ Announce(m, "reopen", "opened", h)
  \/ /\ forge[m].state = "opened" \/ (LateComments /\ forge[m].state # "none")
     /\ Becomes(m, forge[m].state, head)
     /\ Announce(m, "rerun", forge[m].state, head)

ForgeMoves(m) ==
  /\ moves < MaxMoves
  /\ moves' = moves + 1
  /\ ForgeChanges(m)
  /\ UNCHANGED <<runs, lastId, duplicates, mrs>>

-----------------------------------------------------------------------------
(* Event handling                                                          *)

WebhookKey(m, head) ==
  [trigger |-> "webhook", mr |-> m, head |-> head, nonce |-> 0]

\* Of a command: its delivery key makes it unique.
CommandKey(m, head, delivery) ==
  [trigger |-> "command", mr |-> m, head |-> head, nonce |-> delivery]

\* The rows of the instance and of the project are upserted with it.
UpsertMergeRequest(m, e) ==
  mrs' = [mrs EXCEPT ![m] = [state |-> e.state, head |-> e.head]]

UpdateMergeRequestState(m, e) ==
  mrs' = [mrs EXCEPT ![m] =
    [state |-> IF e.action = "merge" THEN "merged" ELSE "closed", head |-> e.head]]

\* Events other than close and merge bring the rows of a merge request into
\* being, with those of its project and instance.
resolveEntities(m) == mrs[m].state # "none"

\* Mutant of CreatePendingRun: the key is not looked up.
CreatePendingRunUnchecked(m, e) ==
  /\ UpsertMergeRequest(m, e)
  /\ lastId' = lastId + 1
  /\ runs' = Inserted(runs, lastId,
               InsertReviewRun(m, e.head, WebhookKey(m, e.head)))

\* open and reopen: a run unless there is one with this key.
CreatePendingRun(m, e) ==
  /\ UpsertMergeRequest(m, e)
  /\ IF KeyExists(WebhookKey(m, e.head))
     THEN UNCHANGED <<runs, lastId>>
     ELSE /\ lastId' = lastId + 1
          /\ runs' = Inserted(runs, lastId,
                       InsertReviewRun(m, e.head, WebhookKey(m, e.head)))

\* Mutant of HandleUpdate: the update is handled like an open.
UpdateLikeOpen(m, e) == CreatePendingRun(m, e)

\* update: the same, and the new run supersedes the active ones.
HandleUpdate(m, e) ==
  /\ UpsertMergeRequest(m, e)
  /\ IF KeyExists(WebhookKey(m, e.head))
     THEN UNCHANGED <<runs, lastId>>
     ELSE /\ lastId' = lastId + 1
          /\ runs' = Inserted(
                [i \in DOMAIN runs |->
                   SupersedeActiveRunsForMR(runs[i], m, lastId + 1)],
                lastId, InsertReviewRun(m, e.head, WebhookKey(m, e.head)))

\* close and merge: nothing for a merge request never seen before.
CancelRuns(m, e) ==
  /\ UNCHANGED lastId
  /\ IF mrs[m].state = "none"
     THEN UNCHANGED <<runs, mrs>>
     ELSE /\ UpdateMergeRequestState(m, e)
          /\ runs' = [i \in DOMAIN runs |-> CancelPendingRunsForMR(runs[i], m)]

\* /ai-review rerun: fails for a merge request never seen before.
ExecuteRerun(m, e) ==
  LET key == CommandKey(m, e.head, e.n)
  IN  /\ UNCHANGED mrs
      /\ IF ~resolveEntities(m) \/ KeyExists(key)
         THEN UNCHANGED <<runs, lastId>>
         ELSE /\ lastId' = lastId + 1
              /\ runs' = Inserted(runs, lastId, InsertReviewRun(m, e.head, key))

ProcessEvent(m, e) ==
  \/ e.action \in {"open", "reopen"} /\ CreatePendingRun(m, e)
  \/ e.action = "update" /\ HandleUpdate(m, e)
  \/ e.action \in {"close", "merge"} /\ CancelRuns(m, e)
  \/ e.action = "rerun" /\ ExecuteRerun(m, e)

Deliver(m) ==
  \E e \in wire[m] :
    /\ InOrder => \A f \in wire[m] : e.n <= f.n
    /\ ProcessEvent(m, e)
    /\ \/ /\ wire' = [wire EXCEPT ![m] = @ \ {e}]
          /\ UNCHANGED duplicates
       \/ /\ duplicates < MaxDuplicates
          /\ duplicates' = duplicates + 1
          /\ UNCHANGED wire
    /\ UNCHANGED <<forge, moves>>

IntakeStep == \E m \in MRs : ForgeMoves(m) \/ Deliver(m)
=============================================================================
