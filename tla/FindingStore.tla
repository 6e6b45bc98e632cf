---------------------------- MODULE FindingStore ----------------------------
(***************************************************************************)
(* The tables of one merge request that a review leaves behind:            *)
(* review_findings, gitlab_discussions and comment_actions, with one       *)
(* operator per statement of internal/db/*.sql.go.  The id of a finding or *)
(* of a discussion is its place in the sequence, which is also the order   *)
(* of created_at; a comment action is found by its idempotency key.        *)
(***************************************************************************)
EXTENDS Naturals, Sequences, FiniteSets

VARIABLES
  findings,     \* review_findings
  threads,      \* gitlab_discussions
  actions       \* comment_actions: idempotency key -> status

storeVars == <<findings, threads, actions>>

ActiveStates == {"new", "posted", "active"}
FindingStates ==
  ActiveStates \cup {"fixed", "superseded", "stale", "ignored", "filtered"}

\* What a statement writes besides the ids: f is a normalized finding.
FindingRow(r, f, st) ==
  [run |-> r, path |-> f.path, kind |-> f.kind, severity |-> f.severity,
   confidence |-> f.confidence, anchor_fp |-> f.anchor_fp,
   semantic_fp |-> f.semantic_fp, state |-> st, matched |-> 0,
   last_seen |-> 0, disc |-> 0]

InsertReviewFinding(t, r, f, st) == Append(t, FindingRow(r, f, st))

UpdateFindingState(t, i, st, m) ==
  [t EXCEPT ![i].state = st, ![i].matched = m]

UpdateFindingLastSeen(t, i, r) == [t EXCEPT ![i].last_seen = r]

\* The title, the severity and the state keep the values of the first report.
UpdateFindingRelocation(t, i, f, r) ==
  [t EXCEPT ![i].path = f.path, ![i].kind = f.kind,
            ![i].anchor_fp = f.anchor_fp, ![i].semantic_fp = f.semantic_fp,
            ![i].last_seen = r]

UpdateFindingDiscussionID(t, i, d) == [t EXCEPT ![i].disc = d]

\* Mutant: ignored findings are listed too.
ListActiveFindingsByMR_Ignored(t) ==
  [i \in {j \in DOMAIN t : t[j].state \in ActiveStates \cup {"ignored"}} |-> t[i]]

\* Lists are functions from ids to copies of the rows, taken in id order.
ListActiveFindingsByMR(t) ==
  [i \in {j \in DOMAIN t : t[j].state \in ActiveStates} |-> t[i]]

ListFindingsByMergeRequest(t) == [i \in DOMAIN t |-> t[i]]

ListFindingsByRun(t, r) == [i \in {j \in DOMAIN t : t[j].run = r} |-> t[i]]

GetFindingByMRAndDiscussionID(t, d) == {i \in DOMAIN t : d # 0 /\ t[i].disc = d}

-----------------------------------------------------------------------------

InsertGitlabDiscussion(t, f, gid, type) ==
  Append(t, [finding |-> f, gid |-> gid, type |-> type, resolved |-> FALSE,
             superseded_by |-> 0])

\* ORDER BY created_at DESC LIMIT 1; none or one id.
GetGitlabDiscussionByFinding(t, f) ==
  {i \in DOMAIN t : t[i].finding = f
     /\ \A j \in DOMAIN t : t[j].finding = f => j <= i}

\* The findings of the model belong to one merge request.
GetGitlabDiscussionByMergeRequestAndFinding(t, f) ==
  GetGitlabDiscussionByFinding(t, f)

UpdateGitlabDiscussionResolved(t, i) == [t EXCEPT ![i].resolved = TRUE]

UpdateGitlabDiscussionSupersededBy(t, i, d) == [t EXCEPT ![i].superseded_by = d]

-----------------------------------------------------------------------------

\* The unique key uk_idempotency refuses a second row.
InsertCommentAction(a, k) ==
  IF k \in DOMAIN a THEN a
  ELSE [x \in DOMAIN a \cup {k} |-> IF x = k THEN "pending" ELSE a[x]]

GetCommentActionByIdempotencyKey(a, k) ==
  IF k \in DOMAIN a THEN a[k] ELSE "none"

UpdateCommentActionStatus(a, k, st) == [a EXCEPT ![k] = st]
=============================================================================
