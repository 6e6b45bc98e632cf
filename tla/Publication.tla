---------------------------- MODULE Publication ----------------------------
(***************************************************************************)
(* From the result of a review to the gate: runs of one merge request are  *)
(* processed by workers (internal/reviewrun after the engine has answered, *)
(* cmd/worker/runtime.go, publishGateResult of internal/scheduler), while  *)
(* people ignore and resolve findings by comments (internal/commands).     *)
(* Which worker gets a run is the matter of RunScheduler; here a run may   *)
(* be begun when it is pending, or running and abandoned, or, which is a   *)
(* fault, running and overdue.                                             *)
(***************************************************************************)
EXTENDS CommentWriter

CONSTANTS
  ShortReports,      \* the reports of workers that overlap
  GateMode           \* policy.GateMode

VARIABLES
  verdict,           \* the gate result published for each run
  byCommand,         \* history: discussions a command marked as resolved
  shared,            \* history: runs that two workers were busy with at once
  overlap,           \* history: runs at work while another worker was busy
  openAt             \* history: findings of the merge request with an open
                     \* thread when the outcome of a run was read

publicationVars == <<verdict, byCommand, shared, overlap, openAt>>
vars == <<storeVars, dedupVars, writerVars, publicationVars>>

Holders(r) == {w \in Workers : work[w].pc # "idle" /\ work[w].run = r}

PublicationInit ==
  /\ findings = <<>> /\ threads = <<>> /\ actions = NoCopy
  /\ status = [r \in Runs |-> "pending"]
  /\ work = [w \in Workers |-> Idle]
  /\ platform \in Platforms
  /\ forge = <<>> /\ upsets = 0 /\ cut = {}
  /\ verdict = [r \in Runs |-> "none"]
  /\ byCommand = {} /\ shared = {} /\ overlap = {}
  /\ openAt = [r \in Runs |-> {}]

-----------------------------------------------------------------------------

\* EngineProcessor.ProcessRun up to PersistReviewResult: the review is done
\* and its result is at hand.  Runs of a merge request begin in their order.
\* To begin while a worker is busy, with the same or with another run, is
\* counted as a fault.
Begin(w, r, report) ==
  LET busy == {work[v].run : v \in Workers} \ {0} IN
  /\ At(w, "idle")
  /\ status[r] \in {"pending", "running"}
  /\ \A q \in Runs : q < r => status[q] # "pending"
  /\ IF busy = {} THEN UNCHANGED <<upsets, overlap>>
     ELSE /\ upsets < MaxUpsets /\ upsets' = upsets + 1
          /\ ({report} \cup {work[v].report : v \in Workers})
               \subseteq ShortReports \cup {NoReport}
          /\ overlap' = overlap \cup busy \cup {r}
  /\ shared' = shared \cup (busy \cap {r})
  /\ status' = [status EXCEPT ![r] = "running"]
  /\ work' = [work EXCEPT ![w] = [Idle EXCEPT !.pc = "list", !.run = r,
                                              !.report = report]]
  /\ UNCHANGED <<storeVars, platform, forge, cut, verdict, byCommand,
                 openAt>>

\* The process stops, or a statement fails and the worker gives up.
Stop(w) ==
  /\ ~At(w, "idle") /\ upsets < MaxUpsets
  /\ upsets' = upsets + 1
  /\ Abandon(w)
  /\ UNCHANGED <<storeVars, status, platform, forge, publicationVars>>

\* CancelPendingRunsForMR and its like: the worker is not told.
Cancel(r) ==
  /\ status[r] \in {"pending", "running"} /\ upsets < MaxUpsets
  /\ upsets' = upsets + 1
  /\ status' = [status EXCEPT ![r] = "cancelled"]
  /\ UNCHANGED <<storeVars, work, platform, forge, cut, publicationVars>>

-----------------------------------------------------------------------------
(* The gate                                                                *)

\* discussionStateByFinding has no entry for a finding without a discussion.
discussionResolved(i) ==
  \E d \in GetGitlabDiscussionByMergeRequestAndFinding(threads, i) :
    threads[d].resolved

qualifies(row, i) ==
  /\ row.state \notin {"ignored", "fixed", "stale", "superseded", "filtered"}
  /\ gateSeverityRank(row.severity) >= gateSeverityRank(Threshold.severity)
  /\ row.confidence >= Threshold.confidence
  /\ GateMode = "threads_resolved" => row.disc # 0 /\ ~discussionResolved(i)

ComputeResultWithDiscussionState(rows) ==
  IF \E i \in DOMAIN rows : qualifies(rows[i], i) THEN "failed" ELSE "passed"

\* Mutant: the findings of the run only.
publishGateResult_RunOnly(w) ==
  LET r == work[w].run IN
  /\ At(w, "gate")
  /\ verdict' = [verdict EXCEPT ![r] =
       ComputeResultWithDiscussionState(ListFindingsByRun(findings, r))]
  /\ work' = [work EXCEPT ![w] = Idle]
  /\ UNCHANGED <<storeVars, status, writerVars, byCommand, shared, overlap, openAt>>

\* publishGateResult decides by the findings of the outcome, as they were
\* before the writeback.
publishGateResult(w) ==
  LET r == work[w].run
      final == canonicalRunStatus(work[w].report.status, DOMAIN work[w].outcome)
  IN /\ At(w, "gate")
     /\ verdict' = IF final = "parser_error" THEN verdict
                   ELSE [verdict EXCEPT ![r] =
                           ComputeResultWithDiscussionState(work[w].outcome)]
     /\ work' = [work EXCEPT ![w] = Idle]
     /\ UNCHANGED <<storeVars, status, writerVars, byCommand, shared,
                    overlap, openAt>>

-----------------------------------------------------------------------------
(* Note commands; each is one transaction                                  *)

executeIgnore(gid) ==
  /\ upsets < MaxUpsets
  /\ upsets' = upsets + 1
  /\ \E i \in GetFindingByMRAndDiscussionID(findings, gid) :
       LET d == GetGitlabDiscussionByMergeRequestAndFinding(threads, i) IN
       /\ findings' = UpdateFindingState(findings, i, "ignored", 0)
       /\ threads' = [j \in DOMAIN threads |->
            IF j \in d THEN [threads[j] EXCEPT !.resolved = TRUE] ELSE threads[j]]
       /\ byCommand' = byCommand \cup d
  /\ UNCHANGED <<actions, dedupVars, platform, forge, cut, verdict, shared,
                 overlap, openAt>>

executeResolve(gid) ==
  /\ upsets < MaxUpsets
  /\ upsets' = upsets + 1
  /\ \E i \in GetFindingByMRAndDiscussionID(findings, gid) :
       LET d == GetGitlabDiscussionByMergeRequestAndFinding(threads, i) IN
       /\ threads' = [j \in DOMAIN threads |->
            IF j \in d THEN [threads[j] EXCEPT !.resolved = TRUE] ELSE threads[j]]
       /\ byCommand' = byCommand \cup d
  /\ UNCHANGED <<findings, actions, dedupVars, platform, forge, cut, verdict,
                 shared, overlap, openAt>>

-----------------------------------------------------------------------------

HasOpenThread(i) ==
  /\ findings[i].state \in ActiveStates
  /\ findings[i].disc # 0
  /\ \E d \in GetGitlabDiscussionByFinding(threads, i) : ~threads[d].resolved

PersistStep(w) ==
  /\ DedupStep(w)
  /\ openAt' = IF work[w].pc = "match" /\ work'[w].pc = "status"
               THEN [openAt EXCEPT ![work[w].run] =
                       {i \in DOMAIN findings : HasOpenThread(i)}]
               ELSE openAt
  /\ UNCHANGED <<writerVars, verdict, byCommand, shared, overlap>>

WritebackStep(w) == WriterStep(w) /\ UNCHANGED publicationVars

PublicationNext ==
  \/ \E w \in Workers :
       \/ \E r \in Runs : \E report \in Reports[r] : Begin(w, r, report)
       \/ PersistStep(w)
       \/ WritebackStep(w)
       \/ publishGateResult(w)
       \/ Stop(w)
  \/ \E r \in Runs : Cancel(r)
  \/ \E gid \in DOMAIN forge : executeIgnore(gid) \/ executeResolve(gid)

PublicationSpec == PublicationInit /\ [][PublicationNext]_vars

-----------------------------------------------------------------------------
(* Properties                                                              *)

Resting(r) == Holders(r) = {}

\* Idempotency of the writer: a finding has one comment per run, in one of the
\* three forms, unless an answer was lost, the writer was stopped between the
\* comment and its record, or two workers had the run.
CommentsAreExplained ==
  \A a, b \in DOMAIN forge :
    \/ a = b \/ {a, b} \cap cut # {}
    \/ forge[a].run # forge[b].run \/ forge[a].run \in shared
    \/ forge[a].finding # forge[b].finding
    \/ "github" \in {forge[a].kind, forge[b].kind}
    \/ {forge[a].kind, forge[b].kind} \cap {"summary", "parser"} # {}
         /\ forge[a].kind # forge[b].kind

\* A comment on a finding is on record in gitlab_discussions, unless the
\* goroutine that made it is about to record it, it was cut off before it
\* could, or the finding has a discussion already.
ThreadsAreKnown ==
  \A g \in DOMAIN forge :
    forge[g].finding = 0 \/ forge[g].kind = "github" \/ g \in cut
    \/ (\E w \in Workers : g \in Unrecorded(w))
    \/ GetGitlabDiscussionByFinding(threads, forge[g].finding) # {}

\* gitlab_discussions.resolved is the truth: a discussion marked as resolved
\* is resolved on the forge, or a command marked it (which does not call the
\* forge).
ResolvedRowsAreTrue ==
  \A d \in DOMAIN threads :
    threads[d].resolved => forge[threads[d].gid].resolved \/ d \in byCommand

\* A discussion is marked as replaced by the discussion of the finding that
\* replaced its own, as long as runs did not overlap.
ThreadsFollowFindings ==
  \A d \in DOMAIN threads :
    LET f == findings[threads[d].finding] IN
    threads[d].superseded_by = 0 \/ overlap # {} \/ f.state = "ignored"
    \/ f.matched = threads[threads[d].superseded_by].finding

\* Deduplication: without overlapping runs no two active findings have the
\* same anchor.
NoDuplicateFinding ==
  overlap = {} =>
    \A i, j \in DOMAIN findings :
      i = j \/ findings[i].anchor_fp # findings[j].anchor_fp
      \/ ~({findings[i].state, findings[j].state} \subseteq ActiveStates)

\* The row of the finding n was found by its anchor and then taken by another
\* finding of the report, which found it by its meaning: the copy the worker
\* decides by does not learn of its own updates.
Displaced(x, n, reported) ==
  \E i \in DOMAIN x.existing, m \in reported :
    /\ x.existing[i].anchor_fp = n.anchor_fp
    /\ m.anchor_fp # n.anchor_fp /\ m.semantic_fp # n.semantic_fp
    /\ x.existing[i].semantic_fp = m.semantic_fp

\* What a review reports is kept: when the outcome is read every finding that
\* passed the thresholds has an active or ignored row with its anchor or its
\* meaning that this run has seen, or one that a row of this run replaced,
\* unless another finding of the report took its row.
ReportedFindingsAreKept ==
  \A w \in Workers :
    (At(w, "status") /\ work[w].run \notin overlap) =>
      LET r == work[w].run
          found == {normalized(work[w].report, k) : k \in persisted(work[w].report)}
          reported == {n \in found : evaluateFindingState(n) = "new"}
      IN \A n \in reported : Displaced(work[w], n, reported) \/ \E i \in DOMAIN findings :
           LET f == findings[i] IN
           /\ SeenBy(f, r)
           /\ f.anchor_fp = n.anchor_fp \/ f.semantic_fp = n.semantic_fp
           /\ \/ f.state \in ActiveStates \cup {"ignored"}
              \/ f.state = "superseded" /\ findings[f.matched].run = r

\* In the mode threads_resolved the gate passes only when every thread that
\* was open when the outcome of the run was read has been resolved, also the
\* threads of findings that earlier runs made.
PassedGateMeansThreadsResolved ==
  \A r \in Runs :
    (verdict[r] = "passed" /\ r \notin shared /\ Resting(r)) =>
      \A i \in openAt[r] : discussionResolved(i)

\* A finding that a person ignored comes back to life or is settled otherwise
\* only by a worker that listed the findings before the command.
IgnoredFindingsAreLeftAlone ==
  [][\A i \in DOMAIN findings :
       (findings[i].state = "ignored" /\ findings'[i].state # "ignored") =>
         \E w \in Workers : /\ i \in DOMAIN work[w].existing
                            /\ work[w].existing[i].state # "ignored"]_vars
=============================================================================
