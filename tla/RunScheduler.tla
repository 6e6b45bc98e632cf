---------------------------- MODULE RunScheduler ----------------------------
(***************************************************************************)
(* internal/scheduler/service.go: worker goroutines that claim runs,       *)
(* process them and record how they ended, the reaper that takes runs away *)
(* from workers that hold them too long, and the worker processes they     *)
(* live in.  A goroutine's steps are its database statements and published *)
(* statuses; anything else in the system may happen between two of them.   *)
(*                                                                         *)
(* The processor is a parameter, because the scheduler accepts three kinds *)
(* and treats the row differently after each:                              *)
(*   "engine"  reviewrun.EngineProcessor (what cmd/worker runs): writes the *)
(*             final status itself, whatever the row says by then;         *)
(*   "llm"     llm.Processor: looks for a cancellation, then does the same; *)
(*   "plain"   a processor that leaves the status to the scheduler.        *)
(* All three are wrapped by wrapProcessorWithWriteback (cmd/worker).       *)
(***************************************************************************)
EXTENDS ReviewRunStore, Sequences, FiniteSets

CONSTANTS
  Workers,      \* worker goroutines
  ProcessOf,    \* the process each goroutine runs in
  Processor,    \* the kind of processor: "engine", "llm" or "plain"
  Backlog,      \* the [mr, head] pairs of the runs pending at the start
  MaxFaults     \* bound on process stops, lost statuses and overruns

ASSUME ProcessOfAssumption == ProcessOf \in [Workers -> Processes]
ASSUME ProcessorAssumption == Processor \in {"engine", "llm", "plain"}
ASSUME BacklogAssumption == Backlog \in Seq([mr : MRs, head : Heads])
ASSUME MaxFaultsAssumption == MaxFaults \in Nat

VARIABLES
  pc,           \* where each goroutine is
  claim,        \* the id of the run it claimed, 0 for none
  snap,         \* retry_count of that run as reloadRunningRun read it
  wbsnap,       \* retry_count as the writeback wrapper read it
  outcome,      \* ProcessOutcome.Status
  check,        \* the commit status last published for a head
  gated,        \* ids with a gate_published audit entry
  faults,       \* faults so far, at most MaxFaults
  broken        \* history: runs taken from a worker still busy with them

workerVars == <<pc, claim, snap, wbsnap, outcome>>
schedVars == <<workerVars, check, gated, faults, broken>>

Labels == {"down", "idle", "claimed", "announce", "processing", "persist",
           "load", "writeback", "finish", "complete", "parser_write",
           "publish_failed", "fail_retry", "fail", "skipped_completed",
           "skipped_failed", "skipped_retry"}

FinalStatuses == {"completed", "requested_changes", "parser_error"}

SchedTypeOK ==
  /\ StoreTypeOK
  /\ pc \in [Workers -> Labels]
  /\ claim \in [Workers -> 0..lastId]
  /\ snap \in [Workers -> Nat]
  /\ wbsnap \in [Workers -> Nat]
  /\ outcome \in [Workers -> FinalStatuses \cup {"", "cancelled"}]
  /\ check \in [Heads -> {"none", "running", "passed", "failed"}]
  /\ gated \subseteq 1..lastId
  /\ faults \in 0..MaxFaults
  /\ broken \subseteq 1..lastId
  /\ \A w \in Workers : pc[w] \in {"down", "idle"} <=> claim[w] = 0

SchedInit ==
  /\ lastId = Len(Backlog)
  /\ runs = [i \in 1..Len(Backlog) |->
       InsertReviewRun(Backlog[i].mr, Backlog[i].head,
         [trigger |-> "webhook", mr |-> Backlog[i].mr,
          head |-> Backlog[i].head, nonce |-> 0])]
  /\ pc = [w \in Workers |-> "idle"]
  /\ claim = [w \in Workers |-> 0]
  /\ snap = [w \in Workers |-> 0]
  /\ wbsnap = [w \in Workers |-> 0]
  /\ outcome = [w \in Workers |-> ""]
  /\ check = [h \in Heads |-> "none"]
  /\ gated = {}
  /\ faults = 0
  /\ broken = {}

-----------------------------------------------------------------------------
(* Worker-local bookkeeping                                                *)

Row(w) == runs[claim[w]]

Held(i) == \E w \in Workers : claim[w] = i

Goto(w, label) ==
  /\ pc' = [pc EXCEPT ![w] = label]
  /\ UNCHANGED <<claim, snap, wbsnap, outcome>>

Leave(group, label) ==
  /\ pc' = [w \in Workers |-> IF w \in group THEN label ELSE pc[w]]
  /\ claim' = [w \in Workers |-> IF w \in group THEN 0 ELSE claim[w]]
  /\ snap' = [w \in Workers |-> IF w \in group THEN 0 ELSE snap[w]]
  /\ wbsnap' = [w \in Workers |-> IF w \in group THEN 0 ELSE wbsnap[w]]
  /\ outcome' = [w \in Workers |-> IF w \in group THEN "" ELSE outcome[w]]

\* RunOnce returns nil and the loop goes round.
Return(w) == Leave({w}, "idle")

GroupOf(p) == {w \in Workers : ProcessOf[w] = p}

\* RunOnce returns an error: runWorkerGroup cancels the context of all the
\* goroutines of the process, whose unfinished runs stay as they are.
StopGroup(w) == Leave(GroupOf(ProcessOf[w]), "down")

SetRow(i, row) == runs' = [runs EXCEPT ![i] = row]

\* Commit status writes are best effort: an error is only logged.
PublishDirectStatus(w, states) ==
  \/ /\ \E s \in states : check' = [check EXCEPT ![Row(w).head] = s]
     /\ UNCHANGED faults
  \/ /\ faults < MaxFaults
     /\ faults' = faults + 1
     /\ UNCHANGED check

-----------------------------------------------------------------------------
(* One goroutine                                                           *)

\* Select and claim are one transaction.  SKIP LOCKED passes over a row only
\* while another transaction changes it, and that one counts as the earlier.
ClaimNextRun(w) ==
  /\ pc[w] = "idle"
  /\ \E i \in NextClaimable(runs) :
       /\ SetRow(i, ClaimReviewRun(runs[i], ProcessOf[w]))
       /\ claim' = [claim EXCEPT ![w] = i]
  /\ pc' = [pc EXCEPT ![w] = "claimed"]
  /\ UNCHANGED <<lastId, snap, wbsnap, outcome, check, gated, faults, broken>>

ReloadRunningRun(w) ==
  /\ pc[w] = "claimed"
  /\ \/ /\ Row(w).status = "cancelled"
        /\ Return(w)
     \/ /\ Row(w).status = "running"
        /\ pc' = [pc EXCEPT ![w] = "announce"]
        /\ snap' = [snap EXCEPT ![w] = Row(w).retry_count]
        /\ UNCHANGED <<claim, wbsnap, outcome>>
     \/ /\ Row(w).status \notin {"cancelled", "running"}
        /\ StopGroup(w)
  /\ UNCHANGED <<runs, lastId, check, gated, faults, broken>>

PublishInProgressStatus(w) ==
  /\ pc[w] = "announce"
  /\ PublishDirectStatus(w, {"running"})
  /\ Goto(w, "processing")
  /\ UNCHANGED <<runs, lastId, gated, broken>>

\* isRunCancelled of llm.Processor.
CheckCancelled(w) ==
  /\ Processor = "llm"
  /\ pc[w] = "processing"
  /\ \/ /\ Row(w).status = "cancelled"
        /\ pc' = [pc EXCEPT ![w] = "load"]
        /\ outcome' = [outcome EXCEPT ![w] = "cancelled"]
     \/ /\ Row(w).status # "cancelled"
        /\ pc' = [pc EXCEPT ![w] = "persist"]
        /\ UNCHANGED outcome
  /\ UNCHANGED <<runs, lastId, claim, snap, wbsnap, check, gated, faults,
                 broken>>

\* The status write that ends PersistReviewResult and llm.Processor.
PersistReviewResult(w) ==
  /\ \/ Processor = "engine" /\ pc[w] = "processing"
     \/ Processor = "llm" /\ pc[w] = "persist"
  /\ \E final \in FinalStatuses :
       /\ SetRow(claim[w], UpdateReviewRunStatus(Row(w), final, ""))
       /\ outcome' = [outcome EXCEPT ![w] = final]
  /\ pc' = [pc EXCEPT ![w] = "load"]
  /\ UNCHANGED <<lastId, claim, snap, wbsnap, check, gated, faults, broken>>

\* A processor that reports a result and leaves the row alone.
ProcessPlain(w) ==
  /\ Processor = "plain"
  /\ pc[w] = "processing"
  /\ pc' = [pc EXCEPT ![w] = "load"]
  /\ outcome' = [outcome EXCEPT ![w] = "completed"]
  /\ UNCHANGED <<runs, lastId, claim, snap, wbsnap, check, gated, faults,
                 broken>>

\* classifyRunError: EngineProcessor returns no retryable error.
ProcessFails(w) ==
  /\ pc[w] \in {"processing", "persist"}
  /\ \E retryable \in IF Processor = "engine" THEN {FALSE} ELSE BOOLEAN :
       Goto(w, IF retryable /\ snap[w] < MaxRetries
               THEN "fail_retry" ELSE "fail")
  /\ UNCHANGED <<runs, lastId, check, gated, faults, broken>>

LoadForWriteback(w) ==
  /\ pc[w] = "load"
  /\ pc' = [pc EXCEPT ![w] = "writeback"]
  /\ wbsnap' = [wbsnap EXCEPT ![w] = Row(w).retry_count]
  /\ UNCHANGED <<runs, lastId, claim, snap, outcome, check, gated, faults,
                 broken>>

\* Mutant of WritebackSucceeds: the gate is passed by.
WritebackSkipsGate(w) ==
  /\ pc[w] = "writeback"
  /\ Goto(w, "complete")
  /\ UNCHANGED <<runs, lastId, check, gated, faults, broken>>

WritebackSucceeds(w) ==
  /\ pc[w] = "writeback"
  /\ Goto(w, "finish")
  /\ UNCHANGED <<runs, lastId, check, gated, faults, broken>>

\* The writer's persistRunFailure marks the run failed if it is running; an
\* error before or outside the writer leaves the row alone.  Either error is
\* passed on as it is, not retryable.
WritebackFails(w) ==
  /\ pc[w] = "writeback"
  /\ \/ SetRow(claim[w], MarkReviewRunFailedIfRunning(Row(w), wbsnap[w]))
     \/ UNCHANGED runs
  /\ Goto(w, "fail")
  /\ UNCHANGED <<lastId, check, gated, faults, broken>>

\* parser_error results skip the gate; the row must still say parser_error.
FinishParserError(w) ==
  /\ pc[w] = "finish"
  /\ outcome[w] = "parser_error"
  /\ \/ Row(w).status = "cancelled" /\ Return(w)
     \/ Row(w).status = "parser_error" /\ Goto(w, "parser_write")
     \/ Row(w).status \notin {"cancelled", "parser_error"} /\ StopGroup(w)
  /\ UNCHANGED <<runs, lastId, check, gated, faults, broken>>

WriteParserError(w) ==
  /\ pc[w] = "parser_write"
  /\ SetRow(claim[w], UpdateReviewRunStatus(Row(w), "parser_error", ""))
  /\ Goto(w, "publish_failed")
  /\ UNCHANGED <<lastId, check, gated, faults, broken>>

PublishGateResult(w) ==
  /\ pc[w] = "finish"
  /\ outcome[w] # "parser_error"
  /\ \/ /\ outcome[w] \in {"completed", "requested_changes"}
        /\ gated' = gated \cup {claim[w]}
        /\ PublishDirectStatus(w, {"passed", "failed"})
     \/ /\ outcome[w] = "cancelled"
        /\ UNCHANGED <<check, gated, faults>>
  /\ Goto(w, "complete")
  /\ UNCHANGED <<runs, lastId, broken>>

CompleteRun(w) ==
  /\ pc[w] = "complete"
  /\ SetRow(claim[w], UpdateReviewRunCompletedIfRunning(Row(w)))
  /\ IF Row(w).status = "running" THEN Return(w) ELSE Goto(w, "skipped_completed")
  /\ UNCHANGED <<lastId, check, gated, faults, broken>>

\* Mutant of ScheduleRetry: the failure is published after the retry is
\* scheduled, while the worker still has the run.
ScheduleRetryThenPublish(w) ==
  /\ pc[w] = "fail_retry"
  /\ SetRow(claim[w],
       MarkReviewRunRetryableFailureIfRunning(Row(w), snap[w] + 1))
  /\ Goto(w, IF Row(w).status = "running"
             THEN "publish_failed" ELSE "skipped_retry")
  /\ UNCHANGED <<lastId, check, gated, faults, broken>>

ScheduleRetry(w) ==
  /\ pc[w] = "fail_retry"
  /\ SetRow(claim[w],
       MarkReviewRunRetryableFailureIfRunning(Row(w), snap[w] + 1))
  /\ IF Row(w).status = "running" THEN Return(w) ELSE Goto(w, "skipped_retry")
  /\ UNCHANGED <<lastId, check, gated, faults, broken>>

FailRun(w) ==
  /\ pc[w] = "fail"
  /\ SetRow(claim[w], MarkReviewRunFailedIfRunning(Row(w), snap[w]))
  /\ Goto(w, IF Row(w).status = "running"
             THEN "publish_failed" ELSE "skipped_failed")
  /\ UNCHANGED <<lastId, check, gated, faults, broken>>

\* Mutant of PublishFailedStatus: the worker goes on to the next run without
\* letting go of this one.
PublishFailedKeepsRun(w) ==
  /\ pc[w] = "publish_failed"
  /\ PublishDirectStatus(w, {"failed"})
  /\ Goto(w, "idle")
  /\ UNCHANGED <<runs, lastId, gated, broken>>

PublishFailedStatus(w) ==
  /\ pc[w] = "publish_failed"
  /\ PublishDirectStatus(w, {"failed"})
  /\ Return(w)
  /\ UNCHANGED <<runs, lastId, gated, broken>>

\* Mutant of SkippedWriteAccepts: the writer's own failure mark is unexpected.
SkippedWriteRejectsFailed(label, row) ==
  \/ row.status = "cancelled"
  \/ label = "skipped_completed" /\ row.status \in {"completed", "requested_changes"}
  \/ label = "skipped_retry" /\ row.status = "failed" /\ row.next_retry_at # "null"

\* What the row may say when the conditional write found it not running.
SkippedWriteAccepts(label, row) ==
  \/ row.status = "cancelled"
  \/ label = "skipped_completed" /\ row.status \in {"completed", "requested_changes"}
  \/ label = "skipped_failed" /\ row.status = "failed"
  \/ label = "skipped_retry" /\ row.status = "failed" /\ row.next_retry_at # "null"

HandleSkippedTerminalWrite(w) ==
  /\ pc[w] \in {"skipped_completed", "skipped_failed", "skipped_retry"}
  /\ IF SkippedWriteAccepts(pc[w], Row(w)) THEN Return(w) ELSE StopGroup(w)
  /\ UNCHANGED <<runs, lastId, check, gated, faults, broken>>

WorkerStep(w) ==
  \/ ReloadRunningRun(w)
  \/ PublishInProgressStatus(w)
  \/ CheckCancelled(w)
  \/ PersistReviewResult(w)
  \/ ProcessPlain(w)
  \/ ProcessFails(w)
  \/ LoadForWriteback(w)
  \/ WritebackSucceeds(w)
  \/ WritebackFails(w)
  \/ FinishParserError(w)
  \/ WriteParserError(w)
  \/ PublishGateResult(w)
  \/ CompleteRun(w)
  \/ ScheduleRetry(w)
  \/ FailRun(w)
  \/ PublishFailedStatus(w)
  \/ HandleSkippedTerminalWrite(w)

-----------------------------------------------------------------------------
(* The reaper, the clock, and the processes                                *)

Stale(i) == runs[i].status = "running" /\ runs[i].claimed_at = "stale"

\* One tick of the reaper of any process that is up.
ReapStaleRuns ==
  /\ \E w \in Workers : pc[w] # "down"
  /\ \E i \in DOMAIN runs : Stale(i)
  /\ runs' = [i \in DOMAIN runs |-> ReapStaleRunningRuns(runs[i])]
  /\ broken' = broken \cup {i \in DOMAIN runs : Stale(i) /\ Held(i)}
  /\ UNCHANGED <<lastId, workerVars, check, gated, faults>>

RetryFallsDue(i) ==
  /\ runs[i].next_retry_at = "future"
  /\ SetRow(i, [runs[i] EXCEPT !.next_retry_at = "due"])
  /\ UNCHANGED <<lastId, schedVars>>

\* The claim timeout passes: of a run nobody works on any more, or, as a
\* fault, of one whose worker is still busy.
ClaimTimesOut(i) ==
  /\ runs[i].status = "running"
  /\ runs[i].claimed_at = "fresh"
  /\ SetRow(i, [runs[i] EXCEPT !.claimed_at = "stale"])
  /\ \/ ~Held(i) /\ UNCHANGED faults
     \/ Held(i) /\ faults < MaxFaults /\ faults' = faults + 1
  /\ UNCHANGED <<lastId, workerVars, check, gated, broken>>

\* A crash, a shutdown, or a database error in one of the goroutines.
ProcessStops(p) ==
  /\ faults < MaxFaults
  /\ faults' = faults + 1
  /\ \E w \in GroupOf(p) : pc[w] # "down"
  /\ Leave(GroupOf(p), "down")
  /\ UNCHANGED <<runs, lastId, check, gated, broken>>

ProcessStarts(p) ==
  /\ \E w \in GroupOf(p) : pc[w] = "down"
  /\ Leave(GroupOf(p), "idle")
  /\ UNCHANGED <<runs, lastId, check, gated, faults, broken>>

SchedNext ==
  \/ \E w \in Workers : ClaimNextRun(w) \/ WorkerStep(w)
  \/ ReapStaleRuns
  \/ \E i \in DOMAIN runs : RetryFallsDue(i) \/ ClaimTimesOut(i)
  \/ \E p \in Processes : ProcessStops(p) \/ ProcessStarts(p)

schedAllVars == <<runs, lastId, schedVars>>

\* The loops poll for ever, the reaper ticks, time passes, and a process that
\* stopped is started again (restart: unless-stopped in docker-compose).
SchedFairness ==
  /\ \A w \in Workers : /\ WF_schedAllVars(ClaimNextRun(w))
                       /\ WF_schedAllVars(WorkerStep(w))
  /\ WF_schedAllVars(ReapStaleRuns)
  /\ \A i \in 1..Len(Backlog) :
       /\ WF_schedAllVars(RetryFallsDue(i))
       /\ WF_schedAllVars(~Held(i) /\ ClaimTimesOut(i))
  /\ \A p \in Processes : WF_schedAllVars(ProcessStarts(p))

SchedSpec == SchedInit /\ [][SchedNext]_schedAllVars
FairSchedSpec == SchedSpec /\ SchedFairness
-----------------------------------------------------------------------------
(* Properties                                                              *)

\* A run is worked on by one goroutine at a time, unless the reaper or an
\* operator gave it away while its worker was still busy: nothing else, and
\* no order of claims, reaps, restarts and terminal writes, lets a second
\* goroutine past ClaimNextRun.
OneWorkerPerRun ==
  \A v, w \in Workers :
    v # w /\ claim[v] = claim[w] => claim[v] \in broken \cup {0}

\* No run waits for a second worker while its first one is busy with it,
\* unless it was taken away.  This is what makes OneWorkerPerRun inductive:
\* a worker lets go of a run in the very step that schedules its retry.
HeldRunsAreNotQueued ==
  \A w \in Workers :
    claim[w] \notin broken \cup {0} => ~Queued(runs[claim[w]])

\* The retries a run has used up are never given back: the *IfRunning writes
\* store a retry_count computed from an old read (the scheduler passes
\* run.RetryCount), and it is out of date only for runs that were taken from
\* their worker.
RetryCountNeverFalls ==
  [][\A i \in DOMAIN runs \ broken' :
       runs'[i].retry_count >= runs[i].retry_count]_schedAllVars

\* A running run can always be recovered: it has the claimed_at the reaper
\* compares and no retry time, so the claim timeout ends every lease that no
\* worker ends.
RunningRunsAreLeased ==
  \A i \in DOMAIN runs :
    runs[i].status = "running" =>
      /\ runs[i].claimed_at # "null" /\ runs[i].claimed_by # Nobody
      /\ runs[i].next_retry_at = "null"

\* The scheduler marks a run completed only after its gate verdict has been
\* published, even if the worker that publishes and the worker that marks are
\* different ones.
CompletedRunsHaveVerdict ==
  \A i \in DOMAIN runs : runs[i].completed_at => i \in gated

\* When a terminal write finds the run no longer running, the reload explains
\* why, and the goroutine goes on to other work instead of stopping its
\* process with "unexpected status" -- unless the run was taken from it.
SkippedWritesAreExplained ==
  \A w \in Workers :
    /\ pc[w] \in {"skipped_completed", "skipped_failed", "skipped_retry"}
    /\ claim[w] \notin broken
    => SkippedWriteAccepts(pc[w], Row(w))

\* The state of a run as the job queue sees it.
JobOf(row) ==
  CASE row.status = "running" -> "leased"
    [] row.status = "cancelled" -> "dropped"
    [] row.status \in {"completed", "requested_changes"} -> "succeeded"
    [] row.status = "parser_error" -> "failed"
    [] row.status = "pending" -> "queued"
    [] row.status = "failed" ->
         IF row.next_retry_at = "null" THEN "failed" ELSE "queued"

Q == INSTANCE JobQueue WITH jobs <- [i \in DOMAIN runs |-> JobOf(runs[i])]

\* The runs are a job queue: settled runs are final whatever late workers
\* write, and only a leased run completes or fails.
RunsAreAJobQueue == Q!Spec

\* Every run settles for good: after finitely many crashes, overruns and lost
\* statuses, the retries, the reaper and the restarts bring each run to an end.
EveryRunSettles ==
  \A i \in 1..Len(Backlog) : <>[](~Active(runs[i]))

\* docs/plans/2026-03-23-gitlab-external-commit-status.md: the commit status
\* is running while the review is executing and success or failed when it
\* has finished.  For a run that is settled and that no worker holds.
CommitStatusSettles ==
  \A i \in DOMAIN runs :
    ~Active(runs[i]) /\ ~Held(i) => check[runs[i].head] # "running"
=============================================================================
