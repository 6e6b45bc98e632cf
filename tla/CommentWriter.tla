--------------------------- MODULE CommentWriter ---------------------------
(***************************************************************************)
(* internal/writer and internal/platform: a worker writes what it found to *)
(* the forge.  On GitLab there is one goroutine per finding, and each      *)
(* statement and each call of a goroutine is a step; on GitHub comments    *)
(* are posted one after the other, without a record of them.               *)
(*                                                                         *)
(* The forge is external: it may answer, refuse a position, refuse a call, *)
(* or carry a call out although its answer never arrives.                  *)
(***************************************************************************)
EXTENDS FindingDedup

CONSTANTS
  Platforms,         \* the forges to consider, "gitlab" or "github"
  Unplaced,          \* paths whose lines the forge may not find in the diff
  MaxWriteRetries,   \* maxWriteRetries
  MaxUpsets          \* lost answers, refused calls, crashes, cancels,
                     \* workers that overlap

VARIABLES
  platform,          \* where the merge request lives
  forge,             \* the comments on it: [run, finding, kind, resolved]
  upsets,            \* how many faults happened
  cut                \* history: comments that were made but not recorded

writerVars == <<platform, forge, upsets, cut>>

\* The idempotency keys of comment_actions: run, finding or 0, what is done.
Key(r, f, kind) == <<r, f, kind>>

Post(kind) == [pc |-> "check", kind |-> kind, tries |-> 0, answer |-> "", gid |-> 0]

isRunActive(r) == status[r] # "cancelled"

isTerminalRun(st) == st \in {"completed", "requested_changes", "parser_error"}

\* The comments a worker has made and not yet put on record.
Unrecorded(w) ==
  {work[w].posts[f].gid : f \in {g \in DOMAIN work[w].posts :
     work[w].posts[g].pc \in {"call", "final", "row"}}} \ {0}

\* The worker leaves with an error; its goroutines are cancelled with it.
Abandon(w) ==
  /\ work' = [work EXCEPT ![w] = Idle]
  /\ cut' = cut \cup Unrecorded(w)

Goes(w, f, p) == work' = [work EXCEPT ![w].posts[f] = p]

\* What GitHub is sent: the summary, candidate 0, and the findings.
Candidates(report) == 0..Len(report.findings)

-----------------------------------------------------------------------------
(* platformRuntimeWriteback.WriteBundle, RuntimeWriteback.WriteBundle and  *)
(* the beginning of Write                                                  *)

StartWriteback(w) ==
  LET r == work[w].run
      posts == IF status[r] = "parser_error" THEN [f \in {0} |-> Post("parser")]
               ELSE [f \in DOMAIN ListFindingsByRun(findings, r) |-> Post("diff")]
  IN /\ At(w, "writeback")
     /\ work' =
          IF platform = "github"
          THEN [work EXCEPT ![w].pc = "publish",
                            ![w].todo = Candidates(work[w].report)]
          ELSE IF ~isRunActive(r) THEN [work EXCEPT ![w].pc = "gate"]
          ELSE [work EXCEPT ![w].pc = "posting", ![w].posts = posts]
     /\ UNCHANGED <<status, storeVars, writerVars>>

\* writeFinding, writeSummaryNote and writeParserErrorNote up to the action.
CheckPost(w, f) ==
  LET p == work[w].posts[f]
      skip == \/ ~isRunActive(work[w].run)
              \/ GetCommentActionByIdempotencyKey(actions,
                   Key(work[w].run, f, p.kind)) = "succeeded"
  IN /\ p.pc = "check"
     /\ Goes(w, f, [p EXCEPT !.pc = IF skip THEN "done" ELSE "ensure"])
     /\ UNCHANGED <<status, storeVars, writerVars>>

restoreDiscussion(f) ==
  IF f = 0 THEN {} ELSE GetGitlabDiscussionByMergeRequestAndFinding(threads, f)

\* A succeeded action whose discussion cannot be restored is an error that is
\* no position failure.
ensureAction(w, f) ==
  LET p == work[w].posts[f]
      k == Key(work[w].run, f, p.kind)
      known == restoreDiscussion(f)
  IN /\ p.pc = "ensure"
     /\ \/ /\ GetCommentActionByIdempotencyKey(actions, k) = "succeeded"
           /\ \/ known # {} /\ Goes(w, f, [p EXCEPT !.pc = "done"])
                 /\ UNCHANGED cut
              \/ known = {} /\ Abandon(w)
           /\ UNCHANGED actions
        \/ /\ GetCommentActionByIdempotencyKey(actions, k) # "succeeded"
           /\ actions' = InsertCommentAction(actions, k)
           /\ Goes(w, f, [p EXCEPT !.pc = "call", !.tries = 0])
           /\ UNCHANGED cut
     /\ UNCHANGED <<status, findings, threads, platform, forge, upsets>>

\* The errors of a call: the forge answers with a status other than success,
\* its answer does not arrive, or cannot be decoded; the call may have been
\* carried out.  (Told to slow down, the client repeats the call by itself.)
\* What the writer makes of an error depends on its text, which quotes the URL
\* and the answer: the number of a merge request or the words of a page may be
\* taken for a status.
WriteErrors ==
  {e \in [cause : {"status", "network", "decode"}, mentions : SUBSET {"400", "503"},
          carried : BOOLEAN] :
     /\ e.cause = "status" => ~e.carried
     /\ e.cause = "decode" => e.carried}

\* The clients' errors have no method StatusCode, so that the status counts
\* only if it is one of those looked for in the text.
isRetryableWriteError(e) == e.cause = "network" \/ "503" \in e.mentions

isPositionFailure(e) == "400" \in e.mentions

\* The next form of comment if a position is refused.
Fallback == [diff |-> "file", file |-> "note"]

retryWrite(p, e) ==
  IF isRetryableWriteError(e) /\ p.tries + 1 < MaxWriteRetries
  THEN [p EXCEPT !.tries = @ + 1]
  ELSE [p EXCEPT !.pc = "final",
          !.answer = IF isPositionFailure(e) /\ p.kind \in DOMAIN Fallback
                     THEN "position" ELSE "refused"]

\* That the forge refuses a position is no fault.
Expected(p, f, e) ==
  /\ f # 0 /\ findings[f].path \in Unplaced /\ p.kind \in {"diff", "file"}
  /\ e.cause = "status" /\ e.mentions = {"400"}

\* One attempt of performDiscussionAction or performNoteAction.
CallForge(w, f) ==
  LET p == work[w].posts[f]
      gid == Len(forge) + 1
      made == Append(forge, [run |-> work[w].run, finding |-> f,
                             kind |-> p.kind, resolved |-> FALSE])
  IN /\ p.pc = "call"
     /\ \/ /\ forge' = made
           /\ Goes(w, f, [p EXCEPT !.pc = "final", !.answer = "ok", !.gid = gid])
           /\ UNCHANGED <<upsets, cut>>
        \/ \E e \in WriteErrors :
           /\ IF Expected(p, f, e) THEN UNCHANGED upsets
              ELSE upsets < MaxUpsets /\ upsets' = upsets + 1
           /\ forge' = IF e.carried THEN made ELSE forge
           /\ cut' = IF e.carried THEN cut \cup {gid} ELSE cut
           /\ Goes(w, f, retryWrite(p, e))
     /\ UNCHANGED <<status, storeVars, platform>>

\* finalizeAction and what its caller makes of the answer: the comment is put
\* on record, the next form of comment is tried, or the run fails if it is
\* still running, which ends the writeback.
\* Mutant: no return after the comment on the file.
finalizeAction_NoReturn(w, f) ==
  LET p == work[w].posts[f]
      k == Key(work[w].run, f, p.kind)
  IN /\ p.pc = "final"
     /\ actions' = UpdateCommentActionStatus(actions, k,
                     IF p.answer = "ok" THEN "succeeded" ELSE "failed")
     /\ \/ /\ p.answer = "ok" /\ p.kind # "file"
           /\ Goes(w, f, [p EXCEPT !.pc = IF f = 0 THEN "done" ELSE "row"])
        \/ /\ p.answer = "position" \/ p.kind = "file"
           /\ Goes(w, f, [p EXCEPT !.pc = "ensure", !.kind = Fallback[p.kind],
                                   !.answer = ""])
     /\ UNCHANGED <<status, findings, threads, writerVars>>

finalizeAction(w, f) ==
  LET p == work[w].posts[f]
      k == Key(work[w].run, f, p.kind)
      r == work[w].run
  IN /\ p.pc = "final"
     /\ \/ /\ p.answer = "ok"
           /\ actions' = UpdateCommentActionStatus(actions, k, "succeeded")
           /\ Goes(w, f, [p EXCEPT !.pc = IF f = 0 THEN "done" ELSE "row"])
           /\ UNCHANGED <<status, cut>>
        \/ /\ p.answer = "position"
           /\ actions' = UpdateCommentActionStatus(actions, k, "failed")
           /\ Goes(w, f, [p EXCEPT !.pc = "ensure", !.kind = Fallback[p.kind],
                                   !.answer = ""])
           /\ UNCHANGED <<status, cut>>
        \/ /\ p.answer = "refused"
           /\ actions' = UpdateCommentActionStatus(actions, k, "failed")
           /\ status' = [status EXCEPT ![r] = IF @ = "running" THEN "failed" ELSE @]
           /\ Abandon(w)
     /\ UNCHANGED <<findings, threads, platform, forge, upsets>>

\* persistDiscussion: nothing is inserted for a finding that has a discussion.
\* Mutant: only comments on lines are put on record.
persistDiscussion_LinesOnly(w, f) ==
  LET p == work[w].posts[f] IN
  /\ p.pc = "row"
  /\ threads' = IF p.kind # "diff" THEN threads
                ELSE InsertGitlabDiscussion(threads, f, p.gid, p.kind)
  /\ Goes(w, f, [p EXCEPT !.pc = IF p.kind # "diff" THEN "done" ELSE "link"])
  /\ UNCHANGED <<status, findings, actions, writerVars>>

persistDiscussion(w, f) ==
  LET p == work[w].posts[f]
      known == GetGitlabDiscussionByMergeRequestAndFinding(threads, f)
  IN /\ p.pc = "row"
     /\ threads' = IF known # {} THEN threads
                   ELSE InsertGitlabDiscussion(threads, f, p.gid, p.kind)
     /\ Goes(w, f, [p EXCEPT !.pc = IF known # {} THEN "done" ELSE "link"])
     /\ UNCHANGED <<status, findings, actions, writerVars>>

persistFindingDiscussionLink(w, f) ==
  LET p == work[w].posts[f] IN
  /\ p.pc = "link"
  /\ findings' = UpdateFindingDiscussionID(findings, f, p.gid)
  /\ Goes(w, f, [p EXCEPT !.pc = "done"])
  /\ UNCHANGED <<status, threads, actions, writerVars>>

PostStep(w, f) ==
  \/ CheckPost(w, f) \/ ensureAction(w, f) \/ CallForge(w, f)
  \/ finalizeAction(w, f) \/ persistDiscussion(w, f)
  \/ persistFindingDiscussionLink(w, f)

\* The goroutines run side by side; defaultWriteConcurrency exceeds the number
\* of findings of the instances.
writeFindings(w) ==
  At(w, "posting") /\ \E f \in DOMAIN work[w].posts : PostStep(w, f)

-----------------------------------------------------------------------------
(* After the findings: settled discussions, then the summary               *)

activeDiscussion(row, f) ==
  LET d == GetGitlabDiscussionByFinding(threads, f) IN
  IF d = {} THEN 0 ELSE CHOOSE i \in d : TRUE

\* resolveCompletedFindings reads everything it needs before its first call.
\* newDiscussions holds discussions of this run's findings only.
ListSettled(w) ==
  LET r == work[w].run
      newDiscussion(m) ==
        IF m # 0 /\ findings[m].run = r THEN activeDiscussion(findings[m], m) ELSE 0
      settled == {f \in DOMAIN ListFindingsByMergeRequest(findings) :
                    findings[f].state \in {"fixed", "stale", "superseded"}}
  IN /\ At(w, "posting")
     /\ 0 \notin DOMAIN work[w].posts
     /\ \A f \in DOMAIN work[w].posts : work[w].posts[f].pc = "done"
     /\ work' = [work EXCEPT
          ![w].pc = IF isTerminalRun(status[r]) THEN "settle" ELSE "gate",
          ![w].posts = NoCopy,
          ![w].settle = [f \in settled |->
             IF findings[f].state = "superseded"
             THEN newDiscussion(findings[f].matched) ELSE 0]]
     /\ UNCHANGED <<status, storeVars, writerVars>>

Drop(f, s) == [x \in DOMAIN s \ {f} |-> s[x]]

\* resolveFindingDiscussion up to the call.
SettleFinding(w) ==
  LET f == Min(DOMAIN work[w].settle)
      d == activeDiscussion(findings[f], f)
      k == Key(work[w].run, f, "resolve")
      done == GetCommentActionByIdempotencyKey(actions, k) = "succeeded"
  IN /\ At(w, "settle") /\ DOMAIN work[w].settle # {}
     /\ IF ~isRunActive(work[w].run) \/ d = 0
        THEN /\ work' = [work EXCEPT ![w].settle = Drop(f, @)]
             /\ UNCHANGED actions
        ELSE /\ work' = [work EXCEPT ![w].thread = d,
                           ![w].pc = IF done THEN "mark" ELSE "resolve"]
             /\ actions' = InsertCommentAction(actions, k)
     /\ UNCHANGED <<status, findings, threads, writerVars>>

\* An answer that the discussion is resolved already counts as success.
ResolveDiscussion(w) ==
  LET settled == [forge EXCEPT ![threads[work[w].thread].gid].resolved = TRUE] IN
  /\ At(w, "resolve")
  /\ \/ /\ forge' = settled
        /\ work' = [work EXCEPT ![w].pc = "resolved", ![w].answer = "ok"]
        /\ UNCHANGED upsets
     \/ /\ upsets < MaxUpsets
        /\ upsets' = upsets + 1
        /\ work' = [work EXCEPT ![w].pc = "resolved", ![w].answer = "refused"]
        /\ forge' \in {forge, settled}
  /\ UNCHANGED <<status, storeVars, platform, cut>>

\* Mutant: the error of the call is recorded and forgotten.
FinalizeResolve_NoError(w) ==
  LET k == Key(work[w].run, Min(DOMAIN work[w].settle), "resolve") IN
  /\ At(w, "resolved")
  /\ actions' = UpdateCommentActionStatus(actions, k,
                  IF work[w].answer = "ok" THEN "succeeded" ELSE "failed")
  /\ work' = [work EXCEPT ![w].pc = "mark"]
  /\ UNCHANGED <<status, findings, threads, writerVars>>

FinalizeResolve(w) ==
  LET k == Key(work[w].run, Min(DOMAIN work[w].settle), "resolve") IN
  /\ At(w, "resolved")
  /\ \/ /\ work[w].answer = "ok"
        /\ actions' = UpdateCommentActionStatus(actions, k, "succeeded")
        /\ work' = [work EXCEPT ![w].pc = "mark"]
     \/ /\ work[w].answer # "ok"
        /\ actions' = UpdateCommentActionStatus(actions, k, "failed")
        /\ work' = [work EXCEPT ![w] = Idle]
  /\ UNCHANGED <<status, findings, threads, writerVars>>

MarkResolved(w) ==
  LET f == Min(DOMAIN work[w].settle) IN
  /\ At(w, "mark")
  /\ threads' = UpdateGitlabDiscussionResolved(threads, work[w].thread)
  /\ work' = IF work[w].settle[f] # 0 THEN [work EXCEPT ![w].pc = "supersedes"]
             ELSE [work EXCEPT ![w].pc = "settle", ![w].settle = Drop(f, @)]
  /\ UNCHANGED <<status, findings, actions, writerVars>>

\* Mutant: the two discussions are swapped.
linkSupersededDiscussion_Swapped(w) ==
  LET f == Min(DOMAIN work[w].settle) IN
  /\ At(w, "supersedes")
  /\ threads' = UpdateGitlabDiscussionSupersededBy(threads,
                  work[w].settle[f], work[w].thread)
  /\ work' = [work EXCEPT ![w].pc = "settle", ![w].settle = Drop(f, @)]
  /\ UNCHANGED <<status, findings, actions, writerVars>>

linkSupersededDiscussion(w) ==
  LET f == Min(DOMAIN work[w].settle) IN
  /\ At(w, "supersedes")
  /\ threads' = UpdateGitlabDiscussionSupersededBy(threads, work[w].thread,
                                                   work[w].settle[f])
  /\ work' = [work EXCEPT ![w].pc = "settle", ![w].settle = Drop(f, @)]
  /\ UNCHANGED <<status, findings, actions, writerVars>>

StartSummary(w) ==
  /\ At(w, "settle") /\ DOMAIN work[w].settle = {}
  /\ work' = [work EXCEPT ![w].pc = "posting",
                          ![w].posts = [f \in {0} |-> Post("summary")]]
  /\ UNCHANGED <<status, storeVars, writerVars>>

FinishWriteback(w) ==
  /\ At(w, "posting") /\ 0 \in DOMAIN work[w].posts
  /\ work[w].posts[0].pc = "done"
  /\ work' = [work EXCEPT ![w].pc = "gate", ![w].posts = NoCopy]
  /\ UNCHANGED <<status, storeVars, writerVars>>

-----------------------------------------------------------------------------
(* platform/github/publish.go: candidates in order, then the gate          *)

Publish(w) ==
  LET todo == work[w].todo
      made == Append(forge, [run |-> work[w].run, finding |-> Min(todo),
                             kind |-> "github", resolved |-> FALSE])
  IN /\ At(w, "publish")
     /\ \/ /\ todo = {}
           /\ work' = [work EXCEPT ![w].pc = "gate"]
           /\ UNCHANGED <<forge, upsets, cut>>
        \/ /\ todo # {}
           /\ forge' = made
           /\ work' = [work EXCEPT ![w].todo = @ \ {Min(@)}]
           /\ UNCHANGED <<upsets, cut>>
        \/ /\ todo # {} /\ upsets < MaxUpsets
           /\ upsets' = upsets + 1
           /\ forge' \in {forge, made}
           /\ work' = [work EXCEPT ![w] = Idle]
           /\ cut' = cut \cup (DOMAIN forge' \ DOMAIN forge)
     /\ UNCHANGED <<status, storeVars, platform>>

WriterStep(w) ==
  \/ StartWriteback(w)
  \/ writeFindings(w)
  \/ ListSettled(w) \/ SettleFinding(w) \/ ResolveDiscussion(w)
  \/ FinalizeResolve(w) \/ MarkResolved(w) \/ linkSupersededDiscussion(w)
  \/ StartSummary(w) \/ FinishWriteback(w) \/ Publish(w)
=============================================================================
