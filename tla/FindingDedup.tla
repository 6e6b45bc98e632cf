---------------------------- MODULE FindingDedup ----------------------------
(***************************************************************************)
(* internal/llm/dedup.go and persist.go: what a review reports is matched  *)
(* against the active findings of the merge request.  A worker reads that  *)
(* list once and then goes through the reported findings and through the   *)
(* list, one statement at a time; it never looks at the table again, so    *)
(* what it decides by is a copy that others may have outdated.             *)
(***************************************************************************)
EXTENDS FindingStore, Integers, FiniteSetsExt, RunVerdict

CONSTANTS
  Workers,      \* goroutines that process runs
  Runs,         \* ids of the runs of the merge request, 1..n
  Reports,      \* for each run, what its review may return
  Threshold,    \* [confidence, severity] of the project policy
  UseMatcher    \* whether a SemanticMatcher is configured

\* A run id is an auto-increment key; confidences are compared as numbers.
ASSUME ReportsAssumption ==
  /\ Runs \subseteq Nat \ {0}
  /\ Threshold.confidence \in Int
  /\ \A r \in Runs : \A report \in Reports[r] :
       /\ report.findings \in Seq({report.findings[k] : k \in DOMAIN report.findings})
       /\ \A k \in DOMAIN report.findings : report.findings[k].confidence \in Int

VARIABLES
  status,       \* review_runs.status of each run
  work          \* the local state of each worker

dedupVars == <<status, work>>

NoReport == [status |-> "none", findings |-> <<>>, reviewed |-> {}, deleted |-> {}]
NoCopy == [i \in {} |-> <<>>]

Idle ==
  [pc |-> "idle", run |-> 0, report |-> NoReport, existing |-> NoCopy,
   todo |-> {}, matched |-> {}, replaced |-> <<>>, outcome |-> NoCopy,
   posts |-> NoCopy, settle |-> NoCopy, thread |-> 0, answer |-> ""]

At(w, label) == work[w].pc = label

-----------------------------------------------------------------------------
(* Pure parts                                                              *)

normalizeAnchorKind(k) ==
  CASE k \in {"new", "new_line", "added"} -> "new_line"
    [] k \in {"old", "old_line", "deleted"} -> "old_line"
    [] k \in {"context", "context_line", "unchanged"} -> "context_line"
    [] OTHER -> k

\* hashFingerprint is injective; category and canonical key are one datum.
computeAnchorFingerprint(f) == <<f.path, f.kind, f.snippet, f.key>>
computeSemanticFingerprint(f) == <<f.path, f.key, f.symbol>>

\* Paths and texts are names, equal when their normal forms are.  A finding
\* without a kind takes it from the one line number it has.
normalizeFinding(f) ==
  LET k == normalizeAnchorKind(f.kind)
      kind == IF k # "" THEN k
              ELSE IF f.new_line /\ ~f.old_line THEN "new"
              ELSE IF f.old_line /\ ~f.new_line THEN "old" ELSE ""
      n == [f EXCEPT !.kind = kind]
  IN [path |-> f.path, kind |-> n.kind, severity |-> f.severity,
      confidence |-> f.confidence, old_line |-> f.old_line,
      new_line |-> f.new_line, anchor_fp |-> computeAnchorFingerprint(n),
      semantic_fp |-> computeSemanticFingerprint(n)]

isDeletedFile(n) ==
  normalizeAnchorKind(n.kind) = "old_line" /\ n.old_line /\ ~n.new_line

severityRank(s) ==
  CASE s = "critical" -> 4 [] s = "high" -> 3 [] s = "medium" -> 2
    [] s = "low" -> 1 [] s \in {"info", "nit"} -> 0 [] OTHER -> -1

evaluateFindingState(n) ==
  IF isDeletedFile(n) THEN "__deleted__"
  ELSE IF \/ n.confidence < Threshold.confidence
          \/ severityRank(n.severity) < severityRank(Threshold.severity)
       THEN "filtered" ELSE "new"

normalized(report, k) == normalizeFinding(report.findings[k])

\* The places of the findings to persist: of those with one anchor the first
\* reported is kept.
persisted(report) ==
  {k \in DOMAIN report.findings : \A j \in 1..(k - 1) :
     normalized(report, j).anchor_fp # normalized(report, k).anchor_fp}

SeenBy(row, r) == row.run = r \/ row.last_seen = r

relocationMatches(row, n) == row.path = n.path /\ row.kind = n.kind

Uncomparable(row, n) ==
  row.kind = "deleted" /\ n.kind = "old_line" /\ row.path = n.path

\* Mutant: the first pass is missing.
matchExistingFinding_NoAnchor(existing, n, r) ==
  LET bySemantic == {i \in DOMAIN existing :
        existing[i].semantic_fp = n.semantic_fp /\ ~SeenBy(existing[i], r)}
  IN IF bySemantic # {}
     THEN {[do |-> "relocate", id |-> Min(bySemantic)]}
     ELSE {[do |-> "insert", id |-> 0]}

\* What asking a model may come to: an answer, none, a page or a text that is
\* not the object asked for.
MatcherReplies == {"same", "different", "lost", "status", "garbled", "blank"}

IsSameFinding(reply) ==
  [same |-> reply = "same", err |-> reply \notin {"same", "different"}]

\* The three passes: by anchor, by meaning, by asking a model.  Each decision
\* names a row of the copy.  What the model replies is open; a reply that is
\* an error counts as "different".
matchExistingFinding(existing, n, r) ==
  LET byAnchor == {i \in DOMAIN existing :
        ~Uncomparable(existing[i], n) /\ existing[i].anchor_fp = n.anchor_fp}
      bySemantic == {i \in DOMAIN existing :
        /\ ~Uncomparable(existing[i], n)
        /\ existing[i].semantic_fp = n.semantic_fp
        /\ ~SeenBy(existing[i], r)}
      byModel == {i \in DOMAIN existing :
        /\ UseMatcher /\ existing[i].path = n.path /\ ~SeenBy(existing[i], r)
        /\ \E reply \in MatcherReplies :
             ~IsSameFinding(reply).err /\ IsSameFinding(reply).same}
      insert == [do |-> "insert", id |-> 0]
  IN IF byAnchor # {}
     THEN LET i == Min(byAnchor) IN
          {[do |-> IF SeenBy(existing[i], r) THEN "skip" ELSE "touch", id |-> i]}
     ELSE IF bySemantic # {}
     THEN LET i == Min(bySemantic) IN
          {[do |-> IF relocationMatches(existing[i], n) THEN "relocate"
                   ELSE "supersede", id |-> i]}
     ELSE {insert} \cup {[do |-> "supersede", id |-> i] : i \in byModel}

\* The state of a finding the review did not report, "" to leave it alone.
transitionMissingFinding(row, report) ==
  IF row.path \in report.deleted /\ normalizeAnchorKind(row.kind) = "old_line"
  THEN "fixed"
  ELSE IF row.path \in report.reviewed THEN "fixed"
  ELSE IF report.reviewed = {} /\ report.deleted = {} THEN "" ELSE "stale"

-----------------------------------------------------------------------------
(* The statements of persistFindingsWithMatcher and PersistReviewResult    *)

ListExisting(w) ==
  /\ At(w, "list")
  /\ work' = [work EXCEPT ![w].pc = "match",
                          ![w].existing = ListActiveFindingsByMR(findings),
                          ![w].todo = persisted(work[w].report)]
  /\ UNCHANGED <<status, storeVars>>

\* The write that goes with a decision.  An insertion that replaces another
\* finding is followed by a second statement.
Decide(w, n, d) ==
  LET r == work[w].run
      done == [work EXCEPT ![w].todo = @ \ {Min(@)},
                           ![w].matched = IF d.id = 0 THEN @ ELSE @ \cup {d.id}]
  IN \/ /\ d.do = "skip"
        /\ work' = done
        /\ UNCHANGED findings
     \/ /\ d.do = "touch"
        /\ work' = done
        /\ findings' = UpdateFindingLastSeen(findings, d.id, r)
     \/ /\ d.do = "relocate"
        /\ work' = done
        /\ findings' = UpdateFindingRelocation(findings, d.id, n, r)
     \/ /\ d.do \in {"insert", "supersede"}
        /\ work' = [done EXCEPT
                      ![w].replaced = IF d.id = 0 THEN <<>>
                                      ELSE <<d.id, Len(findings) + 1>>,
                      ![w].pc = IF d.id = 0 THEN "match" ELSE "supersede"]
        /\ findings' = InsertReviewFinding(findings, r, n, "new")

MatchFinding(w) ==
  /\ At(w, "match") /\ work[w].todo # {}
  /\ LET n == normalized(work[w].report, Min(work[w].todo))
         st == evaluateFindingState(n)
     IN \/ /\ st = "filtered"
           /\ findings' = InsertReviewFinding(findings, work[w].run, n, st)
           /\ work' = [work EXCEPT ![w].todo = @ \ {Min(@)}]
        \/ /\ st = "__deleted__"
           /\ work' = [work EXCEPT ![w].todo = @ \ {Min(@)}]
           /\ UNCHANGED findings
        \/ /\ st = "new"
           /\ \E d \in matchExistingFinding(work[w].existing, n, work[w].run) :
                Decide(w, n, d)
  /\ UNCHANGED <<status, threads, actions>>

SupersedeFinding(w) ==
  /\ At(w, "supersede")
  /\ findings' = UpdateFindingState(findings, work[w].replaced[1],
                                    "superseded", work[w].replaced[2])
  /\ work' = [work EXCEPT ![w].pc = "match", ![w].replaced = <<>>]
  /\ UNCHANGED <<status, threads, actions>>

\* Mutant: findings that were matched count as missing.
MissingFinding_All(w) ==
  LET missing == {i \in DOMAIN work[w].existing : findings[i].state = "new"} IN
  /\ At(w, "match") /\ work[w].todo = {} /\ missing # {}
  /\ findings' = UpdateFindingState(findings, Min(missing), "fixed", 0)
  /\ work' = [work EXCEPT ![w].matched = @ \cup {Min(missing)}]
  /\ UNCHANGED <<status, threads, actions>>

MissingFinding(w) ==
  LET missing == DOMAIN work[w].existing \ work[w].matched IN
  /\ At(w, "match") /\ work[w].todo = {} /\ missing # {}
  /\ LET i == Min(missing)
         st == transitionMissingFinding(work[w].existing[i], work[w].report)
     IN /\ findings' = IF st = "" THEN findings
                       ELSE UpdateFindingState(findings, i, st, 0)
        /\ work' = [work EXCEPT ![w].matched = @ \cup {i}]
  /\ UNCHANGED <<status, threads, actions>>

\* persistSummaryNoteFallback, then the list of active findings.
LoadOutcome(w) ==
  /\ At(w, "match") /\ work[w].todo = {}
  /\ DOMAIN work[w].existing \subseteq work[w].matched
  /\ actions' = IF work[w].report.status = "parser_error"
                THEN InsertCommentAction(actions, <<work[w].run, 0, "parser">>)
                ELSE actions
  /\ work' = [work EXCEPT ![w].pc = "status",
                          ![w].outcome = ListActiveFindingsByMR(findings)]
  /\ UNCHANGED <<status, findings, threads>>

\* UpdateReviewRunStatus by id alone, whatever the row says by now.
PersistStatus(w) ==
  /\ At(w, "status")
  /\ status' = [status EXCEPT ![work[w].run] =
       canonicalRunStatus(work[w].report.status, DOMAIN work[w].outcome)]
  /\ work' = [work EXCEPT ![w].pc = "writeback"]
  /\ UNCHANGED storeVars

DedupStep(w) ==
  \/ ListExisting(w) \/ MatchFinding(w) \/ SupersedeFinding(w)
  \/ MissingFinding(w) \/ LoadOutcome(w) \/ PersistStatus(w)
=============================================================================
