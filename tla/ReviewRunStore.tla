--------------------------- MODULE ReviewRunStore ---------------------------
(***************************************************************************)
(* The review_runs table and the SQL statements the services issue on it.  *)
(*                                                                         *)
(* A row keeps the columns some statement reads or some property is about. *)
(* Timestamps are abstracted to what the statements compare them with:     *)
(* next_retry_at is NULL, still in the future, or due; claimed_at is NULL, *)
(* younger, or older than the claim timeout.  Auto-increment ids are the   *)
(* positions 1..n of the table.                                            *)
(*                                                                         *)
(* Every UPDATE is an operator from a row to a row; the WHERE clauses that *)
(* look at more than the id are predicates of their own.  The text of the  *)
(* statements is in internal/db/queries/review_runs.sql (MySQL),           *)
(* internal/db/review_runs_custom.go and internal/db/sqlitedb/             *)
(* review_runs.go, which agree on everything modelled here.                *)
(***************************************************************************)
EXTENDS Naturals

CONSTANTS
  MRs,          \* merge requests
  Heads,        \* head commit SHAs
  Processes,    \* worker processes; an id is what claimed_by stores
  Nobody,       \* the empty claimed_by
  MaxRetries    \* defaultMaxRetries, stored in max_retries on insert

VARIABLES
  runs,         \* the table: runs[i] is the row with id i
  lastId        \* the last auto-increment id handed out

ASSUME NobodyAssumption == Nobody \notin Processes
ASSUME MaxRetriesAssumption == MaxRetries \in Nat

Statuses == {"pending", "running", "completed", "requested_changes",
             "parser_error", "failed", "cancelled"}

ErrorCodes == {"", "superseded_by_new_head", "worker_timeout",
               "cancelled_by_operator", "run_failed"}

RetryTimes == {"null", "future", "due"}
ClaimTimes == {"null", "fresh", "stale"}

(***************************************************************************)
(* The idempotency key: trigger, merge request and head for runs created   *)
(* by webhooks (nonce 0); command and admin reruns and manual triggers add *)
(* a nonce (a delivery key, a nanosecond clock) that makes them unique.    *)
(***************************************************************************)
Triggers == {"webhook", "command", "admin", "manual"}
Keys == [trigger : Triggers, mr : MRs, head : Heads, nonce : Nat]

Rows == [mr : MRs, head : Heads, key : Keys, status : Statuses,
         error_code : ErrorCodes, superseded_by : Nat, retry_count : Nat,
         next_retry_at : RetryTimes, claimed_by : Processes \cup {Nobody},
         claimed_at : ClaimTimes, completed_at : BOOLEAN]

StoreTypeOK ==
  /\ lastId \in Nat
  /\ runs \in [1..lastId -> Rows]

-----------------------------------------------------------------------------
(* Row predicates: the WHERE clauses                                       *)

\* Work that the scheduler will still pick up or is working on.
Active(row) ==
  \/ row.status \in {"pending", "running"}
  \/ row.status = "failed" /\ row.next_retry_at # "null"

\* Active, and waiting for a worker.
Queued(row) == Active(row) /\ row.status # "running"

\* WHERE of GetNextClaimableReviewRun.
IsClaimable(row) ==
  \/ row.status = "pending"
  \/ row.status = "failed" /\ row.next_retry_at = "due"

\* Mutant of NextClaimable: running rows are not left out.
NextClaimableOrRunning(table) ==
  LET open == {i \in DOMAIN table : table[i].status \in {"pending", "running"}}
  IN  IF open # {}
      THEN {i \in open : \A j \in open : i <= j}
      ELSE {i \in DOMAIN table : IsClaimable(table[i])}

\* The first ids in the ORDER BY of GetNextClaimableReviewRun: pending rows
\* come first, oldest first; the order among due retries is that of their
\* timestamps, which the model does not keep, so any of them may be first.
NextClaimable(table) ==
  LET pending == {i \in DOMAIN table : table[i].status = "pending"}
  IN  IF pending # {}
      THEN {i \in pending : \A j \in pending : i <= j}
      ELSE {i \in DOMAIN table : IsClaimable(table[i])}

\* GetReviewRunByIdempotencyKey finds a row.
KeyExists(key) == \E i \in DOMAIN runs : runs[i].key = key

-----------------------------------------------------------------------------
(* Statements                                                              *)

InsertReviewRun(mr, head, key) ==
  [mr |-> mr, head |-> head, key |-> key, status |-> "pending",
   error_code |-> "", superseded_by |-> 0, retry_count |-> 0,
   next_retry_at |-> "null", claimed_by |-> Nobody, claimed_at |-> "null",
   completed_at |-> FALSE]

\* The table after an INSERT of row into table, the n rows there are.
Inserted(table, n, row) ==
  [i \in 1..(n + 1) |-> IF i = n + 1 THEN row ELSE table[i]]

\* Mutant of ClaimReviewRun: claimed_at is not set.
ClaimWithoutTime(row, p) ==
  [row EXCEPT !.status = "running", !.claimed_by = p,
              !.next_retry_at = "null", !.error_code = ""]

ClaimReviewRun(row, p) ==
  [row EXCEPT !.status = "running", !.claimed_by = p, !.claimed_at = "fresh",
              !.next_retry_at = "null", !.error_code = ""]

UpdateReviewRunStatus(row, status, code) ==
  [row EXCEPT !.status = status, !.error_code = code]

MarkReviewRunRetryableFailureIfRunning(row, count) ==
  IF row.status = "running"
  THEN [row EXCEPT !.status = "failed", !.error_code = "run_failed",
                   !.retry_count = count, !.next_retry_at = "future"]
  ELSE row

\* Mutant of MarkReviewRunFailedIfRunning: the retries used are forgotten.
MarkFailedForgetsRetries(row, count) ==
  IF row.status = "running"
  THEN [row EXCEPT !.status = "failed", !.error_code = "run_failed",
                   !.retry_count = 0, !.next_retry_at = "null"]
  ELSE row

MarkReviewRunFailedIfRunning(row, count) ==
  IF row.status = "running"
  THEN [row EXCEPT !.status = "failed", !.error_code = "run_failed",
                   !.retry_count = count, !.next_retry_at = "null"]
  ELSE row

\* Mutant of UpdateReviewRunCompletedIfRunning: WHERE id = ? alone.
UpdateCompletedAnyway(row) ==
  [row EXCEPT !.status = "completed", !.completed_at = TRUE,
              !.error_code = "", !.next_retry_at = "null"]

UpdateReviewRunCompletedIfRunning(row) ==
  IF row.status = "running"
  THEN [row EXCEPT !.status = "completed", !.completed_at = TRUE,
                   !.error_code = "", !.next_retry_at = "null"]
  ELSE row

ReapStaleRunningRuns(row) ==
  IF row.status = "running" /\ row.claimed_at = "stale"
  THEN [row EXCEPT !.status = "failed", !.error_code = "worker_timeout",
                   !.retry_count = @ + 1, !.next_retry_at = "future"]
  ELSE row

\* Mutant of CancelPendingRunsForMR: running runs are missed.
CancelAllButRunning(row, mr) ==
  IF row.mr = mr /\ Queued(row)
  THEN [row EXCEPT !.status = "cancelled", !.error_code = "",
                   !.superseded_by = 0, !.next_retry_at = "null"]
  ELSE row

CancelPendingRunsForMR(row, mr) ==
  IF row.mr = mr /\ Active(row)
  THEN [row EXCEPT !.status = "cancelled", !.error_code = "",
                   !.superseded_by = 0, !.next_retry_at = "null"]
  ELSE row

\* Mutants of SupersedeActiveRunsForMR: running runs are missed; the trail is
\* off by one.
SupersedeAllButRunning(row, mr, new) ==
  IF row.mr = mr /\ Queued(row)
  THEN [row EXCEPT !.status = "cancelled",
                   !.error_code = "superseded_by_new_head",
                   !.superseded_by = new, !.next_retry_at = "null"]
  ELSE row

SupersedeByPrevious(row, mr, new) ==
  IF row.mr = mr /\ Active(row)
  THEN [row EXCEPT !.status = "cancelled",
                   !.error_code = "superseded_by_new_head",
                   !.superseded_by = new - 1, !.next_retry_at = "null"]
  ELSE row

SupersedeActiveRunsForMR(row, mr, new) ==
  IF row.mr = mr /\ Active(row)
  THEN [row EXCEPT !.status = "cancelled",
                   !.error_code = "superseded_by_new_head",
                   !.superseded_by = new, !.next_retry_at = "null"]
  ELSE row

RetryReviewRunNow(row) ==
  [row EXCEPT !.status = "failed", !.next_retry_at = "due",
              !.claimed_by = Nobody, !.claimed_at = "null"]

CancelReviewRun(row) ==
  [row EXCEPT !.status = "cancelled", !.error_code = "cancelled_by_operator",
              !.superseded_by = 0, !.next_retry_at = "null"]

RequeueReviewRun(row) ==
  [row EXCEPT !.status = "pending", !.error_code = "", !.superseded_by = 0,
              !.next_retry_at = "null", !.claimed_by = Nobody,
              !.claimed_at = "null", !.completed_at = FALSE]
=============================================================================
