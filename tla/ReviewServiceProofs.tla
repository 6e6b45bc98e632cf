------------------------- MODULE ReviewServiceProofs -------------------------
(***************************************************************************)
(* Proofs about the statements of ReviewRunStore and the steps of          *)
(* RunScheduler, for any workers, processes, merge requests, heads, bounds *)
(* and kind of processor; and that the scheduler's invariants hold in the  *)
(* whole service: webhook intake and operators change the table under the  *)
(* workers, and preserve them; what a delivered webhook does to the runs   *)
(* there are; and what the terminal writes of the workers rest on.         *)
(***************************************************************************)
EXTENDS ReviewService, SequenceTheorems, TLAPS

-----------------------------------------------------------------------------
(* Statements keep rows well formed                                        *)

\* Every UPDATE of a row of review_runs leaves a row of review_runs.
LEMMA StatementTypes ==
  ASSUME NEW row \in Rows
  PROVE  /\ \A p \in Processes : ClaimReviewRun(row, p) \in Rows
         /\ \A s \in Statuses : UpdateReviewRunStatus(row, s, "") \in Rows
         /\ \A n \in Nat :
              /\ MarkReviewRunRetryableFailureIfRunning(row, n) \in Rows
              /\ MarkReviewRunFailedIfRunning(row, n) \in Rows
         /\ UpdateReviewRunCompletedIfRunning(row) \in Rows
         /\ ReapStaleRunningRuns(row) \in Rows
         /\ \A t \in RetryTimes : [row EXCEPT !.next_retry_at = t] \in Rows
         /\ \A t \in ClaimTimes : [row EXCEPT !.claimed_at = t] \in Rows
<1>1. \A p \in Processes : ClaimReviewRun(row, p) \in Rows
  BY Zenon DEF ClaimReviewRun, Rows, Statuses, ClaimTimes, RetryTimes, ErrorCodes
<1>2. \A s \in Statuses : UpdateReviewRunStatus(row, s, "") \in Rows
  BY Zenon DEF UpdateReviewRunStatus, Rows, ErrorCodes
<1>3. ASSUME NEW n \in Nat
      PROVE  /\ MarkReviewRunRetryableFailureIfRunning(row, n) \in Rows
             /\ MarkReviewRunFailedIfRunning(row, n) \in Rows
  BY ZenonT(60) DEF MarkReviewRunRetryableFailureIfRunning, MarkReviewRunFailedIfRunning,
               Rows, Statuses, RetryTimes, ErrorCodes
<1>4. UpdateReviewRunCompletedIfRunning(row) \in Rows
  BY Zenon DEF UpdateReviewRunCompletedIfRunning, Rows, Statuses, RetryTimes,
         ErrorCodes
<1>5. ReapStaleRunningRuns(row) \in Rows
  <2>1. row.retry_count + 1 \in Nat
    BY DEF Rows
  <2> QED BY <2>1, Zenon DEF ReapStaleRunningRuns, Rows, Statuses, RetryTimes, ErrorCodes
<1>6. \A t \in RetryTimes : [row EXCEPT !.next_retry_at = t] \in Rows
  BY Zenon DEF Rows
<1>7. \A t \in ClaimTimes : [row EXCEPT !.claimed_at = t] \in Rows
  BY Zenon DEF Rows
<1> QED BY <1>1, <1>2, <1>3, <1>4, <1>5, <1>6, <1>7, Zenon

\* An INSERT makes a row of review_runs.
LEMMA InsertType ==
  ASSUME NEW m \in MRs, NEW h \in Heads, NEW key \in Keys
  PROVE  InsertReviewRun(m, h, key) \in Rows
BY Zenon DEF InsertReviewRun, Rows, Statuses, ErrorCodes, RetryTimes, ClaimTimes

\* Replacing one row keeps the table well formed.
LEMMA SetRowType ==
  ASSUME StoreTypeOK, NEW i \in 1..lastId, NEW row \in Rows, SetRow(i, row),
         UNCHANGED lastId
  PROVE  StoreTypeOK'
BY Zenon DEF StoreTypeOK, SetRow

\* The initial table holds well-formed pending rows.
LEMMA SchedInitTypeOK == SchedInit => SchedTypeOK
<1> SUFFICES ASSUME SchedInit PROVE SchedTypeOK
  BY Zenon
<1>1. Len(Backlog) \in Nat
  BY BacklogAssumption
<1>2. ASSUME NEW i \in 1..Len(Backlog)
      PROVE  InsertReviewRun(Backlog[i].mr, Backlog[i].head,
               [trigger |-> "webhook", mr |-> Backlog[i].mr,
                head |-> Backlog[i].head, nonce |-> 0]) \in Rows
  <2>0. Backlog[i] \in [mr : MRs, head : Heads]
    BY BacklogAssumption, ElementOfSeq, Zenon
  <2>1. Backlog[i].mr \in MRs /\ Backlog[i].head \in Heads
    BY <2>0, Zenon
  <2>2. [trigger |-> "webhook", mr |-> Backlog[i].mr,
         head |-> Backlog[i].head, nonce |-> 0] \in Keys
    BY <2>1, Zenon DEF Keys, Triggers
  <2> QED BY <2>1, <2>2, InsertType, Zenon
<1>3. StoreTypeOK
  BY <1>1, <1>2, Zenon DEF SchedInit, StoreTypeOK
<1>4. faults \in 0..MaxFaults
  <2>1. faults = 0
    BY Zenon DEF SchedInit
  <2> QED BY <2>1, MaxFaultsAssumption
<1>5. claim \in [Workers -> 0..lastId]
  <2>1. lastId \in Nat /\ claim = [w \in Workers |-> 0]
    BY <1>1, Zenon DEF SchedInit
  <2> QED BY <2>1
<1>6. /\ pc \in [Workers -> Labels]
      /\ outcome \in [Workers -> FinalStatuses \cup {"", "cancelled"}]
      /\ check \in [Heads -> {"none", "running", "passed", "failed"}]
  BY Zenon DEF SchedInit, Labels
<1>7. snap \in [Workers -> Nat] /\ wbsnap \in [Workers -> Nat]
  BY Zenon DEF SchedInit
<1>8. \A w \in Workers : pc[w] \in {"down", "idle"} <=> claim[w] = 0
  BY Zenon DEF SchedInit
<1>9. gated \subseteq 1..lastId /\ broken \subseteq 1..lastId
  BY Zenon DEF SchedInit
<1> QED BY <1>3, <1>4, <1>5, <1>6, <1>7, <1>8, <1>9, Zenon DEF SchedTypeOK
-----------------------------------------------------------------------------
(* Every step keeps the state well formed                                  *)

WorkersTypeOK ==
  /\ pc \in [Workers -> Labels]
  /\ claim \in [Workers -> 0..lastId]
  /\ snap \in [Workers -> Nat]
  /\ wbsnap \in [Workers -> Nat]
  /\ outcome \in [Workers -> FinalStatuses \cup {"", "cancelled"}]
  /\ \A w \in Workers : pc[w] \in {"down", "idle"} <=> claim[w] = 0

EffectsTypeOK ==
  /\ check \in [Heads -> {"none", "running", "passed", "failed"}]
  /\ gated \subseteq 1..lastId
  /\ faults \in 0..MaxFaults
  /\ broken \subseteq 1..lastId

\* The type invariant is the conjunction of those of its three parts.
LEMMA TypeParts ==
  SchedTypeOK <=> StoreTypeOK /\ WorkersTypeOK /\ EffectsTypeOK
BY Zenon DEF SchedTypeOK, WorkersTypeOK, EffectsTypeOK

\* A goroutine that is busy holds a run of the table.
LEMMA BusyHoldsRow ==
  ASSUME StoreTypeOK, WorkersTypeOK, NEW w \in Workers,
         pc[w] \notin {"down", "idle"}
  PROVE  claim[w] \in 1..lastId /\ Row(w) \in Rows
<1>1. claim[w] \in 0..lastId /\ claim[w] # 0
  BY Zenon DEF WorkersTypeOK
<1>2. claim[w] \in 1..lastId
  BY <1>1 DEF StoreTypeOK
<1> QED BY <1>2, Zenon DEF StoreTypeOK, Row

\* A goroutine that goes on with the same run.
LEMMA GotoType ==
  ASSUME WorkersTypeOK, NEW w \in Workers, pc[w] \notin {"down", "idle"},
         NEW label \in Labels \ {"down", "idle"}, Goto(w, label),
         UNCHANGED lastId
  PROVE  WorkersTypeOK'
BY Zenon DEF WorkersTypeOK, Goto

\* Goroutines that let go of their runs.
LEMMA LeaveType ==
  ASSUME WorkersTypeOK, StoreTypeOK, NEW group, NEW label \in {"down", "idle"},
         Leave(group, label), UNCHANGED lastId
  PROVE  WorkersTypeOK'
<1>1. pc' \in [Workers -> Labels]
  BY Zenon DEF WorkersTypeOK, Leave, Labels
<1>2. 0 \in 0..lastId
  BY DEF StoreTypeOK
<1>3. claim' \in [Workers -> 0..lastId]
  BY <1>2, Zenon DEF WorkersTypeOK, Leave
<1>4. snap' \in [Workers -> Nat] /\ wbsnap' \in [Workers -> Nat]
  BY Zenon DEF WorkersTypeOK, Leave
<1>5. outcome' \in [Workers -> FinalStatuses \cup {"", "cancelled"}]
  BY Zenon DEF WorkersTypeOK, Leave
<1>6. ASSUME NEW w \in Workers
      PROVE  pc'[w] \in {"down", "idle"} <=> claim'[w] = 0
  BY Zenon DEF WorkersTypeOK, Leave
<1> QED BY <1>1, <1>3, <1>4, <1>5, <1>6, Zenon DEF WorkersTypeOK

\* Publishing a commit status, or failing to.
LEMMA PublishType ==
  ASSUME EffectsTypeOK, NEW w \in Workers,
         NEW states \in SUBSET {"running", "passed", "failed"},
         PublishDirectStatus(w, states),
         UNCHANGED <<lastId, broken>>, gated' \subseteq 1..lastId
  PROVE  EffectsTypeOK'
<1>1. check' \in [Heads -> {"none", "running", "passed", "failed"}]
  BY Zenon DEF EffectsTypeOK, PublishDirectStatus
<1>2. faults' \in 0..MaxFaults
  BY MaxFaultsAssumption DEF EffectsTypeOK, PublishDirectStatus
<1> QED BY <1>1, <1>2, Zenon DEF EffectsTypeOK

\* Every step of a goroutine keeps the state well formed.
LEMMA WorkerTypeStep ==
  ASSUME SchedTypeOK, NEW w \in Workers, ClaimNextRun(w) \/ WorkerStep(w)
  PROVE  SchedTypeOK'
<1> SUFFICES StoreTypeOK' /\ WorkersTypeOK' /\ EffectsTypeOK'
  BY Zenon DEF SchedTypeOK, WorkersTypeOK, EffectsTypeOK
<1>0. StoreTypeOK /\ WorkersTypeOK /\ EffectsTypeOK
  BY TypeParts, Zenon
<1>r. ASSUME pc[w] \notin {"down", "idle"}
      PROVE  claim[w] \in 1..lastId /\ Row(w) \in Rows /\ snap[w] \in Nat
             /\ wbsnap[w] \in Nat /\ snap[w] + 1 \in Nat
  <2>1. claim[w] \in 1..lastId /\ Row(w) \in Rows
    BY <1>0, <1>r, BusyHoldsRow, Zenon
  <2>2. snap[w] \in Nat /\ wbsnap[w] \in Nat
    BY <1>0, Zenon DEF WorkersTypeOK
  <2> QED BY <2>1, <2>2
<1>e. ASSUME UNCHANGED <<lastId, check, gated, faults, broken>>
      PROVE  EffectsTypeOK'
  BY <1>0, <1>e, Zenon DEF EffectsTypeOK
<1>s. ASSUME UNCHANGED <<runs, lastId>> PROVE StoreTypeOK'
  BY <1>0, <1>s, Zenon DEF StoreTypeOK
<1>l. ASSUME NEW label \in {"down", "idle"}, NEW group, Leave(group, label),
             UNCHANGED lastId
      PROVE  WorkersTypeOK'
  BY <1>0, <1>l, LeaveType, Zenon
<1>g. ASSUME NEW label \in Labels \ {"down", "idle"}, Goto(w, label),
             pc[w] \notin {"down", "idle"}, UNCHANGED lastId
      PROVE  WorkersTypeOK'
  BY <1>0, <1>g, GotoType, Zenon
<1>1. CASE ClaimNextRun(w)
  <2>1. PICK i \in NextClaimable(runs) :
          /\ SetRow(i, ClaimReviewRun(runs[i], ProcessOf[w]))
          /\ claim' = [claim EXCEPT ![w] = i]
    BY <1>1, Zenon DEF ClaimNextRun
  <2>2. i \in 1..lastId /\ runs[i] \in Rows
    BY <1>0, Zenon DEF NextClaimable, StoreTypeOK
  <2>3. UNCHANGED <<lastId, check, gated, faults, broken, snap, wbsnap, outcome>>
    BY <1>1, Zenon DEF ClaimNextRun
  <2>4. ProcessOf[w] \in Processes
    BY ProcessOfAssumption, Zenon
  <2>5. StoreTypeOK'
    BY <1>0, <2>1, <2>2, <2>3, <2>4, StatementTypes, SetRowType, Zenon
  <2>6. i \in 0..lastId /\ i # 0
    BY <2>2, <1>0 DEF StoreTypeOK
  <2>7. WorkersTypeOK'
    BY <1>0, <1>1, <2>1, <2>3, <2>6, Zenon DEF WorkersTypeOK, ClaimNextRun, Labels
  <2> QED BY <2>3, <2>5, <2>7, <1>e, Zenon
<1>2. CASE ReloadRunningRun(w)
  <2>1. UNCHANGED <<runs, lastId, check, gated, faults, broken>>
        /\ pc[w] = "claimed"
    BY <1>2, Zenon DEF ReloadRunningRun
  <2>2. Row(w).retry_count \in Nat
    BY <1>r, <2>1, Zenon DEF Rows
  <2>3. CASE Return(w) \/ StopGroup(w)
    BY <1>l, <1>e, <1>s, <2>1, <2>3, Zenon DEF Return, StopGroup
  <2>4. CASE /\ pc' = [pc EXCEPT ![w] = "announce"]
             /\ snap' = [snap EXCEPT ![w] = Row(w).retry_count]
             /\ UNCHANGED <<claim, wbsnap, outcome>>
    <3>1. WorkersTypeOK'
      BY <1>0, <2>1, <2>2, <2>4, Zenon DEF WorkersTypeOK, Labels
    <3> QED BY <3>1, <2>1, <1>e, <1>s, Zenon
  <2> QED BY <1>2, <2>3, <2>4, Zenon DEF ReloadRunningRun
<1>3. CASE PublishInProgressStatus(w)
  <2>1. EffectsTypeOK'
    BY <1>0, <1>3, PublishType, Zenon DEF PublishInProgressStatus, EffectsTypeOK
  <2> QED BY <1>3, <1>s, <1>g, <2>1, Zenon DEF PublishInProgressStatus, Labels
<1>4. CASE CheckCancelled(w)
  <2>1. UNCHANGED <<runs, lastId, check, gated, faults, broken>>
    BY <1>4, Zenon DEF CheckCancelled
  <2>2. WorkersTypeOK'
    BY <1>0, <1>4, Zenon DEF CheckCancelled, WorkersTypeOK, Labels
  <2> QED BY <2>1, <2>2, <1>e, <1>s, Zenon
<1>5. CASE PersistReviewResult(w)
  <2>0. pc[w] \in {"processing", "persist"}
    BY <1>5, Zenon DEF PersistReviewResult
  <2>1. PICK final \in FinalStatuses :
          /\ SetRow(claim[w], UpdateReviewRunStatus(Row(w), final, ""))
          /\ outcome' = [outcome EXCEPT ![w] = final]
    BY <1>5, Zenon DEF PersistReviewResult
  <2>2. UNCHANGED <<lastId, claim, snap, wbsnap, check, gated, faults, broken>>
    BY <1>5, Zenon DEF PersistReviewResult
  <2>3. final \in Statuses
    BY Zenon DEF FinalStatuses, Statuses
  <2>4. StoreTypeOK'
    BY <1>0, <1>r, <2>0, <2>1, <2>2, <2>3, StatementTypes, SetRowType, Zenon
  <2>5. WorkersTypeOK'
    BY <1>0, <1>5, <2>0, <2>1, <2>2, Zenon DEF PersistReviewResult, WorkersTypeOK, Labels
  <2> QED BY <2>2, <2>4, <2>5, <1>e, Zenon
<1>6. CASE ProcessPlain(w)
  <2>1. UNCHANGED <<runs, lastId, check, gated, faults, broken>>
    BY <1>6, Zenon DEF ProcessPlain
  <2>2. WorkersTypeOK'
    BY <1>0, <1>6, Zenon DEF ProcessPlain, WorkersTypeOK, Labels, FinalStatuses
  <2> QED BY <2>1, <2>2, <1>e, <1>s, Zenon
<1>7. CASE ProcessFails(w)
  <2>1. \E label \in {"fail_retry", "fail"} : Goto(w, label)
    BY <1>7, Zenon DEF ProcessFails
  <2> QED BY <1>7, <2>1, <1>e, <1>s, <1>g, Zenon DEF ProcessFails, Labels
<1>8. CASE LoadForWriteback(w)
  <2>1. UNCHANGED <<runs, lastId, check, gated, faults, broken>>
        /\ pc[w] = "load"
    BY <1>8, Zenon DEF LoadForWriteback
  <2>2. Row(w).retry_count \in Nat
    BY <1>r, <2>1, Zenon DEF Rows
  <2>3. WorkersTypeOK'
    BY <1>0, <1>8, <2>2, Zenon DEF LoadForWriteback, WorkersTypeOK, Labels
  <2> QED BY <2>1, <2>3, <1>e, <1>s, Zenon
<1>9. CASE WritebackSucceeds(w)
  BY <1>9, <1>e, <1>s, <1>g, Zenon DEF WritebackSucceeds, Labels
<1>10. CASE WritebackFails(w)
  <2>1. UNCHANGED <<lastId, check, gated, faults, broken>>
        /\ pc[w] = "writeback" /\ Goto(w, "fail")
    BY <1>10, Zenon DEF WritebackFails
  <2>2. CASE UNCHANGED runs
    BY <2>1, <2>2, <1>e, <1>s, <1>g, Zenon DEF Labels
  <2>3. CASE SetRow(claim[w], MarkReviewRunFailedIfRunning(Row(w), wbsnap[w]))
    <3>1. StoreTypeOK'
      BY <1>0, <1>r, <2>1, <2>3, StatementTypes, SetRowType, Zenon
    <3> QED BY <2>1, <3>1, <1>e, <1>g, Zenon DEF Labels
  <2> QED BY <1>10, <2>2, <2>3, Zenon DEF WritebackFails
<1>11. CASE FinishParserError(w)
  <2>1. UNCHANGED <<runs, lastId, check, gated, faults, broken>>
        /\ pc[w] = "finish"
    BY <1>11, Zenon DEF FinishParserError
  <2>2. CASE Return(w) \/ StopGroup(w)
    BY <2>1, <2>2, <1>l, <1>e, <1>s, Zenon DEF Return, StopGroup
  <2>3. CASE Goto(w, "parser_write")
    BY <2>1, <2>3, <1>g, <1>e, <1>s, Zenon DEF Labels
  <2> QED BY <1>11, <2>2, <2>3, Zenon DEF FinishParserError
<1>12. CASE WriteParserError(w)
  <2>1. UNCHANGED <<lastId, check, gated, faults, broken>>
        /\ pc[w] = "parser_write" /\ Goto(w, "publish_failed")
        /\ SetRow(claim[w], UpdateReviewRunStatus(Row(w), "parser_error", ""))
    BY <1>12, Zenon DEF WriteParserError
  <2>2. StoreTypeOK'
    BY <1>0, <1>r, <2>1, StatementTypes, SetRowType, Zenon DEF Statuses
  <2> QED BY <2>1, <2>2, <1>g, <1>e, Zenon DEF Labels
<1>13. CASE PublishGateResult(w)
  <2>1. UNCHANGED <<runs, lastId, broken>> /\ pc[w] = "finish" /\ Goto(w, "complete")
    BY <1>13, Zenon DEF PublishGateResult
  <2>2. EffectsTypeOK'
    <3>1. CASE UNCHANGED <<check, gated, faults>>
      BY <2>1, <3>1, <1>e, Zenon
    <3>2. CASE /\ gated' = gated \cup {claim[w]}
               /\ PublishDirectStatus(w, {"passed", "failed"})
      <4>1. gated' \subseteq 1..lastId
        BY <1>0, <1>r, <2>1, <3>2, Zenon DEF EffectsTypeOK
      <4> QED BY <1>0, <2>1, <3>2, <4>1, PublishType, Zenon
    <3> QED BY <1>13, <3>1, <3>2, Zenon DEF PublishGateResult
  <2> QED BY <2>1, <2>2, <1>g, <1>s, Zenon DEF Labels
<1>14. CASE CompleteRun(w)
  <2>1. UNCHANGED <<lastId, check, gated, faults, broken>> /\ pc[w] = "complete"
        /\ SetRow(claim[w], UpdateReviewRunCompletedIfRunning(Row(w)))
        /\ (Return(w) \/ Goto(w, "skipped_completed"))
    BY <1>14, Zenon DEF CompleteRun
  <2>2. StoreTypeOK'
    BY <1>0, <1>r, <2>1, StatementTypes, SetRowType, Zenon
  <2> QED BY <2>1, <2>2, <1>g, <1>l, <1>e, Zenon DEF Labels, Return
<1>15. CASE ScheduleRetry(w)
  <2>1. UNCHANGED <<lastId, check, gated, faults, broken>> /\ pc[w] = "fail_retry"
        /\ SetRow(claim[w],
             MarkReviewRunRetryableFailureIfRunning(Row(w), snap[w] + 1))
        /\ (Return(w) \/ Goto(w, "skipped_retry"))
    BY <1>15, Zenon DEF ScheduleRetry
  <2>2. StoreTypeOK'
    BY <1>0, <1>r, <2>1, StatementTypes, SetRowType, Zenon
  <2> QED BY <2>1, <2>2, <1>g, <1>l, <1>e, Zenon DEF Labels, Return
<1>16. CASE FailRun(w)
  <2>1. UNCHANGED <<lastId, check, gated, faults, broken>> /\ pc[w] = "fail"
        /\ SetRow(claim[w], MarkReviewRunFailedIfRunning(Row(w), snap[w]))
        /\ (Goto(w, "publish_failed") \/ Goto(w, "skipped_failed"))
    BY <1>16, Zenon DEF FailRun
  <2>2. StoreTypeOK'
    BY <1>0, <1>r, <2>1, StatementTypes, SetRowType, Zenon
  <2> QED BY <2>1, <2>2, <1>g, <1>e, Zenon DEF Labels
<1>17. CASE PublishFailedStatus(w)
  <2>1. EffectsTypeOK'
    BY <1>0, <1>17, PublishType, Zenon DEF PublishFailedStatus, EffectsTypeOK
  <2> QED BY <1>17, <1>s, <1>l, <2>1, Zenon DEF PublishFailedStatus, Return
<1>18. CASE HandleSkippedTerminalWrite(w)
  <2>1. UNCHANGED <<runs, lastId, check, gated, faults, broken>>
        /\ (Return(w) \/ StopGroup(w))
    BY <1>18, Zenon DEF HandleSkippedTerminalWrite
  <2> QED BY <2>1, <1>l, <1>e, <1>s, Zenon DEF Return, StopGroup
<1> QED BY <1>1, <1>2, <1>3, <1>4, <1>5, <1>6, <1>7, <1>8, <1>9, <1>10, <1>11,
           <1>12, <1>13, <1>14, <1>15, <1>16, <1>17, <1>18 DEF WorkerStep

\* Every step of the workers, the reaper, the clock and the processes keeps
\* the state well formed.
LEMMA SchedTypeStep ==
  ASSUME SchedTypeOK, [SchedNext]_schedAllVars
  PROVE  SchedTypeOK'
<1>0. StoreTypeOK /\ WorkersTypeOK /\ EffectsTypeOK
  BY TypeParts, Zenon
<1>p. ASSUME StoreTypeOK', WorkersTypeOK', EffectsTypeOK' PROVE SchedTypeOK'
  BY <1>p, Zenon DEF SchedTypeOK, WorkersTypeOK, EffectsTypeOK
<1>w. ASSUME UNCHANGED <<lastId, workerVars>> PROVE WorkersTypeOK'
  BY <1>0, <1>w, Zenon DEF WorkersTypeOK, workerVars
<1>e. ASSUME UNCHANGED <<lastId, check, gated, broken>>, faults' \in 0..MaxFaults
      PROVE  EffectsTypeOK'
  BY <1>0, <1>e, Zenon DEF EffectsTypeOK
<1>f. ASSUME faults < MaxFaults, faults' = faults + 1 PROVE faults' \in 0..MaxFaults
  BY <1>0, <1>f, MaxFaultsAssumption DEF EffectsTypeOK
<1>n. faults \in 0..MaxFaults
  BY <1>0, Zenon DEF EffectsTypeOK
<1>1. ASSUME NEW w \in Workers, ClaimNextRun(w) \/ WorkerStep(w)
      PROVE  SchedTypeOK'
  BY <1>1, WorkerTypeStep, Zenon
<1>2. CASE ReapStaleRuns
  <2>1. /\ runs' = [i \in DOMAIN runs |-> ReapStaleRunningRuns(runs[i])]
        /\ broken' \subseteq broken \cup DOMAIN runs
        /\ UNCHANGED <<lastId, workerVars, check, gated, faults>>
    BY <1>2, Zenon DEF ReapStaleRuns
  <2>2. StoreTypeOK'
    BY <1>0, <2>1, StatementTypes, Zenon DEF StoreTypeOK
  <2>3. EffectsTypeOK'
    BY <1>0, <2>1, Zenon DEF EffectsTypeOK, StoreTypeOK
  <2> QED BY <2>1, <2>2, <2>3, <1>w, <1>p, Zenon
<1>3. ASSUME NEW i \in DOMAIN runs, RetryFallsDue(i)
      PROVE  SchedTypeOK'
  <2>1. /\ i \in 1..lastId /\ runs[i] \in Rows
        /\ SetRow(i, [runs[i] EXCEPT !.next_retry_at = "due"])
        /\ UNCHANGED <<lastId, workerVars, check, gated, faults, broken>>
    BY <1>0, <1>3, Zenon DEF RetryFallsDue, StoreTypeOK, schedVars
  <2>2. [runs[i] EXCEPT !.next_retry_at = "due"] \in Rows
    BY <2>1, StatementTypes, Zenon DEF RetryTimes
  <2>3. StoreTypeOK'
    BY <1>0, <2>1, <2>2, SetRowType, Zenon
  <2> QED BY <2>1, <2>3, <1>w, <1>e, <1>n, <1>p, Zenon
<1>4. ASSUME NEW i \in DOMAIN runs, ClaimTimesOut(i)
      PROVE  SchedTypeOK'
  <2>1. /\ i \in 1..lastId /\ runs[i] \in Rows
        /\ SetRow(i, [runs[i] EXCEPT !.claimed_at = "stale"])
        /\ UNCHANGED <<lastId, workerVars, check, gated, broken>>
    BY <1>0, <1>4, Zenon DEF ClaimTimesOut, StoreTypeOK
  <2>2. [runs[i] EXCEPT !.claimed_at = "stale"] \in Rows
    BY <2>1, StatementTypes, Zenon DEF ClaimTimes
  <2>3. StoreTypeOK'
    BY <1>0, <2>1, <2>2, SetRowType, Zenon
  <2>4. faults' \in 0..MaxFaults
    BY <1>4, <1>n, <1>f, Zenon DEF ClaimTimesOut
  <2> QED BY <2>1, <2>3, <2>4, <1>w, <1>e, <1>p, Zenon
<1>5. ASSUME NEW p \in Processes, ProcessStops(p) \/ ProcessStarts(p)
      PROVE  SchedTypeOK'
  <2>1. UNCHANGED <<runs, lastId, check, gated, broken>>
    BY <1>5, Zenon DEF ProcessStops, ProcessStarts
  <2>2. faults' \in 0..MaxFaults
    BY <1>5, <1>n, <1>f, Zenon DEF ProcessStops, ProcessStarts
  <2>3. \E label \in {"down", "idle"} : Leave(GroupOf(p), label)
    BY <1>5, Zenon DEF ProcessStops, ProcessStarts
  <2>4. WorkersTypeOK'
    BY <1>0, <2>1, <2>3, LeaveType, Zenon
  <2>5. StoreTypeOK'
    BY <1>0, <2>1, Zenon DEF StoreTypeOK
  <2> QED BY <2>1, <2>2, <2>4, <2>5, <1>e, <1>p, Zenon
<1>6. CASE UNCHANGED schedAllVars
  <2>1. UNCHANGED <<runs, lastId, workerVars, check, gated, faults, broken>>
    BY <1>6, Zenon DEF schedAllVars, schedVars
  <2>2. StoreTypeOK'
    BY <1>0, <2>1, Zenon DEF StoreTypeOK
  <2> QED BY <2>1, <2>2, <1>w, <1>e, <1>n, <1>p, Zenon
<1> QED BY <1>1, <1>2, <1>3, <1>4, <1>5, <1>6, Zenon DEF SchedNext

-----------------------------------------------------------------------------
(* One worker per run                                                      *)

Exclusive == OneWorkerPerRun /\ HeldRunsAreNotQueued

\* What a step must respect for exclusiveness to survive it: goroutines only
\* let go of runs, and no run that a goroutine keeps is put in the queue
\* without being recorded as taken from it.
LEMMA ExclusiveStep ==
  ASSUME SchedTypeOK, Exclusive, broken \subseteq broken',
         \A w \in Workers : claim'[w] \in {claim[w], 0},
         \A w \in Workers :
           /\ claim'[w] # 0 /\ claim'[w] = claim[w] /\ claim[w] \notin broken'
           /\ ~Queued(runs[claim[w]])
           => ~Queued(runs'[claim[w]])
  PROVE  Exclusive'
<1>1. OneWorkerPerRun'
  BY Zenon DEF Exclusive, OneWorkerPerRun
<1>2. ASSUME NEW w \in Workers, claim'[w] \notin broken' \cup {0}
      PROVE  ~Queued(runs'[claim'[w]])
  BY <1>2, Zenon DEF Exclusive, HeldRunsAreNotQueued
<1>3. HeldRunsAreNotQueued'
  BY <1>2, Zenon DEF HeldRunsAreNotQueued, Queued, Active
<1> QED BY <1>1, <1>3, Zenon DEF Exclusive

\* Letting go of runs.
LEMMA LeaveLetsGo ==
  ASSUME SchedTypeOK, NEW group, NEW label, Leave(group, label)
  PROVE  \A w \in Workers : /\ claim'[w] \in {claim[w], 0}
                            /\ w \in group => claim'[w] = 0
BY Zenon DEF Leave

\* The statements that never put a row back in the queue.
LEMMA NotQueuedBack ==
  ASSUME NEW row \in Rows, ~Queued(row)
  PROVE  /\ \A s \in FinalStatuses : ~Queued(UpdateReviewRunStatus(row, s, ""))
         /\ \A n : ~Queued(MarkReviewRunFailedIfRunning(row, n))
         /\ ~Queued(UpdateReviewRunCompletedIfRunning(row))
         /\ ~Queued([row EXCEPT !.claimed_at = "stale"])
         /\ row.next_retry_at = "future" =>
              ~Queued([row EXCEPT !.next_retry_at = "due"])
<1> USE DEF Queued, Active, Rows
<1>1. \A s \in FinalStatuses : ~Queued(UpdateReviewRunStatus(row, s, ""))
  BY Zenon DEF FinalStatuses, UpdateReviewRunStatus
<1>2. \A n : ~Queued(MarkReviewRunFailedIfRunning(row, n))
  BY Zenon DEF MarkReviewRunFailedIfRunning
<1>3. ~Queued(UpdateReviewRunCompletedIfRunning(row))
  BY Zenon DEF UpdateReviewRunCompletedIfRunning
<1>4. ~Queued([row EXCEPT !.claimed_at = "stale"])
  BY Zenon
<1>5. row.next_retry_at = "future" =>
        ~Queued([row EXCEPT !.next_retry_at = "due"])
  BY Zenon
<1> QED BY <1>1, <1>2, <1>3, <1>4, <1>5, Zenon

\* A run that is held is in the table.
LEMMA HeldInTable ==
  ASSUME SchedTypeOK, NEW w \in Workers, claim[w] # 0
  PROVE  claim[w] \in 1..lastId
<1>1. claim[w] \in 0..lastId /\ lastId \in Nat
  BY Zenon DEF SchedTypeOK, StoreTypeOK
<1> QED BY <1>1

\* A step in which one goroutine updates its own row, or none, and some let go.
LEMMA OwnRowStep ==
  ASSUME SchedTypeOK, Exclusive, UNCHANGED broken,
         \A w \in Workers : claim'[w] \in {claim[w], 0},
         NEW v \in Workers, claim[v] \in 1..lastId,
         \/ UNCHANGED runs
         \/ \E row : /\ SetRow(claim[v], row)
                     /\ ~Queued(Row(v)) => ~Queued(row)
  PROVE  Exclusive'
<1>1. ASSUME NEW w \in Workers, claim'[w] # 0, claim'[w] = claim[w],
             claim[w] \notin broken', ~Queued(runs[claim[w]])
      PROVE  ~Queued(runs'[claim[w]])
  <2>1. CASE UNCHANGED runs
    BY <1>1, <2>1, Zenon
  <2>2. ASSUME NEW row, SetRow(claim[v], row), ~Queued(Row(v)) => ~Queued(row)
        PROVE  ~Queued(runs'[claim[w]])
    <3>1. CASE claim[w] = claim[v]
      <4>1. runs'[claim[v]] = row
        BY <2>2, Zenon DEF SetRow, SchedTypeOK, StoreTypeOK
      <4> QED BY <1>1, <2>2, <3>1, <4>1, Zenon DEF Row
    <3>2. CASE claim[w] # claim[v]
      <4>1. runs'[claim[w]] = runs[claim[w]]
        <5>1. claim[w] \in 1..lastId
          BY <1>1, HeldInTable, Zenon
        <5> QED BY <2>2, <3>2, <5>1, Zenon DEF SetRow, SchedTypeOK, StoreTypeOK
      <4> QED BY <1>1, <4>1, Zenon
    <3> QED BY <3>1, <3>2, Zenon
  <2> QED BY <2>1, <2>2, Zenon
<1> QED BY <1>1, ExclusiveStep, Zenon

\* A claim takes a queued run, which nobody holds unless it was taken away.
LEMMA ClaimKeepsExclusive ==
  ASSUME SchedTypeOK, Exclusive, NEW w \in Workers, ClaimNextRun(w)
  PROVE  Exclusive'
<1>1. PICK i \in NextClaimable(runs) :
        /\ SetRow(i, ClaimReviewRun(runs[i], ProcessOf[w]))
        /\ claim' = [claim EXCEPT ![w] = i]
  BY Zenon DEF ClaimNextRun
<1>2. i \in 1..lastId /\ Queued(runs[i]) /\ runs[i] \in Rows
  BY Zenon DEF NextClaimable, IsClaimable, Queued, Active, SchedTypeOK, StoreTypeOK
<1>3. broken' = broken
  BY Zenon DEF ClaimNextRun
<1>4. /\ runs'[i].status = "running"
      /\ \A j \in 1..lastId : j # i => runs'[j] = runs[j]
  BY <1>1, <1>2, Zenon DEF SetRow, ClaimReviewRun, SchedTypeOK, StoreTypeOK, Rows
<1>5. claim'[w] = i /\ \A v \in Workers \ {w} : claim'[v] = claim[v]
  BY <1>1, Zenon DEF SchedTypeOK
<1>6. \A v \in Workers : claim[v] = i => i \in broken
  BY <1>2 DEF Exclusive, HeldRunsAreNotQueued
<1>7. OneWorkerPerRun'
  BY <1>3, <1>5, <1>6, Zenon DEF Exclusive, OneWorkerPerRun
<1>8. ASSUME NEW v \in Workers, claim'[v] \notin broken' \cup {0}
      PROVE  ~Queued(runs'[claim'[v]])
  <2>1. CASE claim'[v] = i
    BY <1>4, <2>1, Zenon DEF Queued
  <2>2. CASE claim'[v] # i
    <3>1. claim'[v] = claim[v]
      BY <1>5, <2>2, Zenon
    <3>2. claim[v] \in 1..lastId
      BY <1>8, <3>1, HeldInTable, Zenon
    <3> QED BY <1>3, <1>4, <1>8, <2>2, <3>1, <3>2, Zenon
               DEF Exclusive, HeldRunsAreNotQueued
  <2> QED BY <2>1, <2>2, Zenon
<1>9. HeldRunsAreNotQueued'
  BY <1>8, Zenon DEF HeldRunsAreNotQueued, Queued, Active
<1> QED BY <1>7, <1>9, Zenon DEF Exclusive

\* Every other step of a goroutine respects the rule of ExclusiveStep.
LEMMA WorkerKeepsExclusive ==
  ASSUME SchedTypeOK, Exclusive, NEW w \in Workers, WorkerStep(w)
  PROVE  Exclusive'
<1>1. pc[w] \notin {"down", "idle"} /\ UNCHANGED broken
  BY Zenon DEF WorkerStep, ReloadRunningRun, PublishInProgressStatus, CheckCancelled,
     PersistReviewResult, ProcessPlain, ProcessFails, LoadForWriteback,
     WritebackSucceeds, WritebackFails, FinishParserError, WriteParserError,
     PublishGateResult, CompleteRun, ScheduleRetry, FailRun,
     PublishFailedStatus, HandleSkippedTerminalWrite
<1>2. claim[w] \in 1..lastId /\ Row(w) \in Rows
  BY <1>1, TypeParts, BusyHoldsRow, Zenon
<1>3. \A v \in Workers : claim'[v] \in {claim[v], 0}
  <2>1. UNCHANGED claim \/ \E group, label : Leave(group, label)
    BY Zenon DEF WorkerStep, ReloadRunningRun, PublishInProgressStatus, CheckCancelled,
       PersistReviewResult, ProcessPlain, ProcessFails, LoadForWriteback,
       WritebackSucceeds, WritebackFails, FinishParserError, WriteParserError,
       PublishGateResult, CompleteRun, ScheduleRetry, FailRun,
       PublishFailedStatus, HandleSkippedTerminalWrite, Goto, Return, StopGroup
  <2> QED BY <2>1, LeaveLetsGo, Zenon
<1>4. CASE UNCHANGED runs
  BY <1>1, <1>2, <1>3, <1>4, OwnRowStep, Zenon
<1>5. CASE PersistReviewResult(w) \/ WriteParserError(w)
  <2>1. \E final \in FinalStatuses :
          SetRow(claim[w], UpdateReviewRunStatus(Row(w), final, ""))
    BY <1>5, Zenon DEF PersistReviewResult, WriteParserError, FinalStatuses
  <2> QED BY <1>1, <1>2, <1>3, <2>1, NotQueuedBack, OwnRowStep, Zenon
<1>6. CASE WritebackFails(w) \/ FailRun(w)
  <2>1. UNCHANGED runs \/ \E n :
          SetRow(claim[w], MarkReviewRunFailedIfRunning(Row(w), n))
    BY <1>6, Zenon DEF WritebackFails, FailRun
  <2> QED BY <1>1, <1>2, <1>3, <2>1, NotQueuedBack, OwnRowStep, Zenon
<1>7. CASE CompleteRun(w)
  <2>1. SetRow(claim[w], UpdateReviewRunCompletedIfRunning(Row(w)))
    BY <1>7, Zenon DEF CompleteRun
  <2> QED BY <1>1, <1>2, <1>3, <2>1, NotQueuedBack, OwnRowStep, Zenon
<1>8. CASE ScheduleRetry(w)
  <2>1. CASE Row(w).status = "running"
    <3>1. SetRow(claim[w],
            MarkReviewRunRetryableFailureIfRunning(Row(w), snap[w] + 1))
      BY <1>8, Zenon DEF ScheduleRetry
    <3>2. claim'[w] = 0
      BY <1>8, <2>1, LeaveLetsGo, Zenon DEF ScheduleRetry, Return
    <3>3. ASSUME NEW v \in Workers, claim'[v] # 0, claim'[v] = claim[v],
                 claim[v] \notin broken', ~Queued(runs[claim[v]])
          PROVE  ~Queued(runs'[claim[v]])
      <4>1. v # w /\ claim[v] # claim[w]
        BY <1>1, <3>2, <3>3, Zenon DEF Exclusive, OneWorkerPerRun
      <4>2. claim[v] \in 1..lastId
        BY <3>3, HeldInTable, Zenon
      <4>3. runs'[claim[v]] = runs[claim[v]]
        BY <3>1, <4>1, <4>2, Zenon DEF SetRow, SchedTypeOK, StoreTypeOK
      <4> QED BY <3>3, <4>3, Zenon
    <3> QED BY <1>1, <1>3, <3>3, ExclusiveStep, Zenon
  <2>2. CASE Row(w).status # "running"
    <3>1. SetRow(claim[w], Row(w))
      BY <1>8, <2>2, Zenon DEF ScheduleRetry, MarkReviewRunRetryableFailureIfRunning
    <3> QED BY <1>1, <1>2, <1>3, <3>1, OwnRowStep, Zenon
  <2> QED BY <2>1, <2>2, Zenon
<1> QED
  BY <1>4, <1>5, <1>6, <1>7, <1>8, Zenon DEF WorkerStep, ReloadRunningRun,
     PublishInProgressStatus, CheckCancelled, ProcessPlain, ProcessFails,
     LoadForWriteback, WritebackSucceeds, FinishParserError, PublishGateResult,
     PublishFailedStatus, HandleSkippedTerminalWrite

\* The reaper records what it takes, the clock queues nothing, and processes
\* only let go.
LEMMA SchedKeepsExclusive ==
  ASSUME SchedTypeOK, Exclusive, [SchedNext]_schedAllVars
  PROVE  Exclusive'
<1>1. ASSUME NEW w \in Workers, ClaimNextRun(w) PROVE Exclusive'
  BY <1>1, ClaimKeepsExclusive, Zenon
<1>2. ASSUME NEW w \in Workers, WorkerStep(w) PROVE Exclusive'
  BY <1>2, WorkerKeepsExclusive, Zenon
<1>u. ASSUME UNCHANGED workerVars PROVE \A w \in Workers : claim'[w] = claim[w]
  BY <1>u, Zenon DEF workerVars
<1>3. CASE ReapStaleRuns
  <2>1. /\ runs' = [i \in DOMAIN runs |-> ReapStaleRunningRuns(runs[i])]
        /\ broken' = broken \cup {i \in DOMAIN runs : Stale(i) /\ Held(i)}
        /\ UNCHANGED workerVars
    BY <1>3, Zenon DEF ReapStaleRuns
  <2>2. ASSUME NEW w \in Workers, claim[w] # 0, claim[w] \notin broken'
        PROVE  runs'[claim[w]] = runs[claim[w]]
    <3>1. claim[w] \in DOMAIN runs
      BY <2>2, HeldInTable, Zenon DEF SchedTypeOK, StoreTypeOK
    <3>2. ~Stale(claim[w])
      BY <2>1, <2>2, <3>1, Zenon DEF Held
    <3> QED BY <2>1, <3>1, <3>2, Zenon DEF Stale, ReapStaleRunningRuns
  <2> QED BY <1>u, <2>1, <2>2, ExclusiveStep, Zenon
<1>4. ASSUME NEW i \in DOMAIN runs, RetryFallsDue(i) \/ ClaimTimesOut(i)
      PROVE  Exclusive'
  <2>1. i \in 1..lastId /\ runs[i] \in Rows
    BY Zenon DEF SchedTypeOK, StoreTypeOK
  <2>2. UNCHANGED <<workerVars, broken>>
    BY <1>4, Zenon DEF RetryFallsDue, ClaimTimesOut, schedVars
  <2>3. PICK row : SetRow(i, row) /\ (~Queued(runs[i]) => ~Queued(row))
    BY <1>4, <2>1, NotQueuedBack, Zenon DEF RetryFallsDue, ClaimTimesOut
  <2>4. ASSUME NEW w \in Workers, claim[w] # 0, ~Queued(runs[claim[w]])
        PROVE  ~Queued(runs'[claim[w]])
    <3>1. claim[w] \in 1..lastId
      BY <2>4, HeldInTable, Zenon
    <3> QED BY <2>1, <2>3, <2>4, <3>1, Zenon DEF SetRow, SchedTypeOK, StoreTypeOK
  <2> QED BY <1>u, <2>2, <2>4, ExclusiveStep, Zenon
<1>5. ASSUME NEW p \in Processes, ProcessStops(p) \/ ProcessStarts(p)
      PROVE  Exclusive'
  <2>1. UNCHANGED <<runs, broken>> /\ \E label : Leave(GroupOf(p), label)
    BY <1>5, Zenon DEF ProcessStops, ProcessStarts
  <2>2. \A w \in Workers : claim'[w] \in {claim[w], 0}
    BY <2>1, LeaveLetsGo, Zenon
  <2> QED BY <2>1, <2>2, ExclusiveStep, Zenon
<1>6. CASE UNCHANGED schedAllVars
  <2>1. UNCHANGED <<runs, broken, workerVars>>
    BY <1>6, Zenon DEF schedAllVars, schedVars
  <2> QED BY <1>u, <2>1, ExclusiveStep, Zenon
<1> QED BY <1>1, <1>2, <1>3, <1>4, <1>5, <1>6, Zenon DEF SchedNext

\* At the start nobody holds a run.
LEMMA SchedInitExclusive == SchedInit => Exclusive
BY ZenonT(60) DEF SchedInit, Exclusive, OneWorkerPerRun, HeldRunsAreNotQueued

-----------------------------------------------------------------------------
(* A running run has a lease                                               *)

\* A row that is leased if it is running.
Leased(row) ==
  row.status = "running" =>
    /\ row.claimed_at # "null" /\ row.claimed_by # Nobody
    /\ row.next_retry_at = "null"

\* No statement leaves a row running without a lease: only ClaimReviewRun
\* makes a row running, and the clock does not touch a running row's retry.
LEMMA StatementsKeepLease ==
  ASSUME NEW row \in Rows, Leased(row)
  PROVE  /\ \A p \in Processes : Leased(ClaimReviewRun(row, p))
         /\ \A s \in FinalStatuses : Leased(UpdateReviewRunStatus(row, s, ""))
         /\ \A n : /\ Leased(MarkReviewRunRetryableFailureIfRunning(row, n))
                   /\ Leased(MarkReviewRunFailedIfRunning(row, n))
         /\ Leased(UpdateReviewRunCompletedIfRunning(row))
         /\ Leased(ReapStaleRunningRuns(row))
         /\ Leased([row EXCEPT !.claimed_at = "stale"])
         /\ row.next_retry_at = "future" =>
              Leased([row EXCEPT !.next_retry_at = "due"])
<1> USE DEF Leased, Rows
<1>1. \A p \in Processes : Leased(ClaimReviewRun(row, p))
  BY NobodyAssumption, Zenon DEF ClaimReviewRun
<1>2. \A s \in FinalStatuses : Leased(UpdateReviewRunStatus(row, s, ""))
  BY Zenon DEF FinalStatuses, UpdateReviewRunStatus
<1>3. \A n : /\ Leased(MarkReviewRunRetryableFailureIfRunning(row, n))
             /\ Leased(MarkReviewRunFailedIfRunning(row, n))
  BY Zenon DEF MarkReviewRunRetryableFailureIfRunning, MarkReviewRunFailedIfRunning
<1>4. Leased(UpdateReviewRunCompletedIfRunning(row))
  BY Zenon DEF UpdateReviewRunCompletedIfRunning
<1>5. Leased(ReapStaleRunningRuns(row))
  BY Zenon DEF ReapStaleRunningRuns
<1>6. Leased([row EXCEPT !.claimed_at = "stale"])
  BY Zenon
<1>7. row.next_retry_at = "future" =>
        Leased([row EXCEPT !.next_retry_at = "due"])
  BY Zenon
<1> QED BY <1>1, <1>2, <1>3, <1>4, <1>5, <1>6, <1>7, Zenon

-----------------------------------------------------------------------------
(* What the scheduler does to a row                                        *)

\* The statements the scheduler issues, as a relation between a row before
\* and after.
RowStep(row, new) ==
  \/ new = row
  \/ IsClaimable(row) /\ \E p \in Processes : new = ClaimReviewRun(row, p)
  \/ \E s \in FinalStatuses : new = UpdateReviewRunStatus(row, s, "")
  \/ \E n \in Nat : new = MarkReviewRunRetryableFailureIfRunning(row, n)
  \/ \E n \in Nat : new = MarkReviewRunFailedIfRunning(row, n)
  \/ new = UpdateReviewRunCompletedIfRunning(row)
  \/ new = ReapStaleRunningRuns(row)
  \/ new = [row EXCEPT !.claimed_at = "stale"]
  \/ row.next_retry_at = "future" /\ new = [row EXCEPT !.next_retry_at = "due"]

\* A step that updates one row by a statement.
LEMMA SetRowSteps ==
  ASSUME StoreTypeOK, NEW i \in 1..lastId, NEW row, SetRow(i, row),
         RowStep(runs[i], row)
  PROVE  \A j \in 1..lastId : RowStep(runs[j], runs'[j])
<1> TAKE j \in 1..lastId
<1>1. CASE j = i
  <2>1. runs'[j] = row
    BY <1>1, Zenon DEF SetRow, StoreTypeOK
  <2> QED BY <1>1, <2>1, Zenon
<1>2. CASE j # i
  <2>1. runs'[j] = runs[j]
    BY <1>2, Zenon DEF SetRow, StoreTypeOK
  <2> QED BY <2>1, Zenon DEF RowStep
<1> QED BY <1>1, <1>2, Zenon

\* Every scheduler step changes every row by one of its statements, and
\* inserts none.
LEMMA SchedRowSteps ==
  ASSUME SchedTypeOK, [SchedNext]_schedAllVars
  PROVE  lastId' = lastId /\ \A i \in 1..lastId : RowStep(runs[i], runs'[i])
<1>0. StoreTypeOK /\ WorkersTypeOK
  BY TypeParts, Zenon
<1>u. ASSUME UNCHANGED runs PROVE \A i \in 1..lastId : RowStep(runs[i], runs'[i])
  BY <1>u, Zenon DEF RowStep
<1>1. ASSUME NEW w \in Workers, ClaimNextRun(w)
      PROVE  lastId' = lastId /\ \A i \in 1..lastId : RowStep(runs[i], runs'[i])
  <2>1. PICK i \in NextClaimable(runs) :
          SetRow(i, ClaimReviewRun(runs[i], ProcessOf[w]))
    BY <1>1, Zenon DEF ClaimNextRun
  <2>2. i \in 1..lastId /\ IsClaimable(runs[i])
    BY <1>0, Zenon DEF NextClaimable, IsClaimable, StoreTypeOK
  <2>3. RowStep(runs[i], ClaimReviewRun(runs[i], ProcessOf[w]))
    BY <2>2, ProcessOfAssumption, Zenon DEF RowStep
  <2> QED BY <1>0, <1>1, <2>1, <2>2, <2>3, SetRowSteps, Zenon DEF ClaimNextRun
<1>2. ASSUME NEW w \in Workers, WorkerStep(w)
      PROVE  lastId' = lastId /\ \A i \in 1..lastId : RowStep(runs[i], runs'[i])
  <2>1. pc[w] \notin {"down", "idle"} /\ lastId' = lastId
    BY <1>2, Zenon DEF WorkerStep, ReloadRunningRun, PublishInProgressStatus,
       CheckCancelled, PersistReviewResult, ProcessPlain, ProcessFails,
       LoadForWriteback, WritebackSucceeds, WritebackFails, FinishParserError,
       WriteParserError, PublishGateResult, CompleteRun, ScheduleRetry, FailRun,
       PublishFailedStatus, HandleSkippedTerminalWrite
  <2>2. claim[w] \in 1..lastId
    BY <1>0, <2>1, BusyHoldsRow, Zenon
  <2>3. snap[w] \in Nat /\ wbsnap[w] \in Nat /\ snap[w] + 1 \in Nat
    <3>1. snap[w] \in Nat /\ wbsnap[w] \in Nat
      BY <1>0, Zenon DEF WorkersTypeOK
    <3> QED BY <3>1
  <2>4. UNCHANGED runs \/ \E row : SetRow(claim[w], row) /\ RowStep(Row(w), row)
    <3>1. CASE PersistReviewResult(w) \/ WriteParserError(w)
      BY <3>1, Zenon DEF PersistReviewResult, WriteParserError, RowStep, FinalStatuses
    <3>2. CASE WritebackFails(w) \/ FailRun(w)
      BY <3>2, <2>3, Zenon DEF WritebackFails, FailRun, RowStep
    <3>3. CASE CompleteRun(w)
      BY <3>3, Zenon DEF CompleteRun, RowStep
    <3>4. CASE ScheduleRetry(w)
      BY <3>4, <2>3, Zenon DEF ScheduleRetry, RowStep
    <3> QED
      BY <1>2, <3>1, <3>2, <3>3, <3>4, Zenon DEF WorkerStep, ReloadRunningRun,
         PublishInProgressStatus, CheckCancelled, ProcessPlain, ProcessFails,
         LoadForWriteback, WritebackSucceeds, FinishParserError,
         PublishGateResult, PublishFailedStatus, HandleSkippedTerminalWrite
  <2> QED BY <1>0, <1>u, <2>1, <2>2, <2>4, SetRowSteps, Zenon DEF Row
<1>3. CASE ReapStaleRuns
  <2>1. \A i \in 1..lastId : runs'[i] = ReapStaleRunningRuns(runs[i])
    BY <1>0, <1>3, Zenon DEF ReapStaleRuns, StoreTypeOK
  <2> QED BY <1>3, <2>1, Zenon DEF RowStep, ReapStaleRuns
<1>4. ASSUME NEW i \in DOMAIN runs, RetryFallsDue(i) \/ ClaimTimesOut(i)
      PROVE  lastId' = lastId /\ \A j \in 1..lastId : RowStep(runs[j], runs'[j])
  <2>1. i \in 1..lastId /\ lastId' = lastId
    BY <1>0, <1>4, Zenon DEF RetryFallsDue, ClaimTimesOut, StoreTypeOK
  <2>2. \E row : SetRow(i, row) /\ RowStep(runs[i], row)
    BY <1>4, Zenon DEF RetryFallsDue, ClaimTimesOut, RowStep
  <2> QED BY <1>0, <2>1, <2>2, SetRowSteps, Zenon
<1>5. ASSUME NEW p \in Processes, ProcessStops(p) \/ ProcessStarts(p)
      PROVE  lastId' = lastId /\ UNCHANGED runs
  BY <1>5, Zenon DEF ProcessStops, ProcessStarts
<1>6. CASE UNCHANGED schedAllVars
  BY <1>6, <1>u, Zenon DEF schedAllVars
<1> QED BY <1>u, <1>1, <1>2, <1>3, <1>4, <1>5, <1>6, Zenon DEF SchedNext

\* No statement of the scheduler brings a settled row back to life: the claim
\* takes active rows only, the failure marks and the reaper look for running
\* rows, and the unconditional status writes are of final statuses.
LEMMA RowStepKeepsSettled ==
  ASSUME NEW row \in Rows, ~Active(row), NEW new, RowStep(row, new)
  PROVE  ~Active(new)
<1> USE DEF Rows, Active
<1>1. CASE IsClaimable(row)
  BY <1>1, Zenon DEF IsClaimable
<1>2. CASE \E s \in FinalStatuses : new = UpdateReviewRunStatus(row, s, "")
  BY <1>2, Zenon DEF UpdateReviewRunStatus, FinalStatuses
<1>3. CASE \E n \in Nat : \/ new = MarkReviewRunRetryableFailureIfRunning(row, n)
                          \/ new = MarkReviewRunFailedIfRunning(row, n)
  BY <1>3, Zenon DEF MarkReviewRunRetryableFailureIfRunning, MarkReviewRunFailedIfRunning
<1>4. CASE \/ new = UpdateReviewRunCompletedIfRunning(row)
           \/ new = ReapStaleRunningRuns(row)
  BY <1>4, Zenon DEF UpdateReviewRunCompletedIfRunning, ReapStaleRunningRuns
<1>5. CASE \/ new = [row EXCEPT !.claimed_at = "stale"]
           \/ /\ row.next_retry_at = "future"
              /\ new = [row EXCEPT !.next_retry_at = "due"]
  BY <1>5, Zenon
<1> QED BY <1>1, <1>2, <1>3, <1>4, <1>5, Zenon DEF RowStep

\* A statement of the scheduler keeps a row leased.
LEMMA RowStepKeepsLease ==
  ASSUME NEW row \in Rows, Leased(row), NEW new, RowStep(row, new)
  PROVE  Leased(new)
<1>1. CASE \E p \in Processes : new = ClaimReviewRun(row, p)
  BY <1>1, StatementsKeepLease, Zenon
<1>2. CASE \E s \in FinalStatuses : new = UpdateReviewRunStatus(row, s, "")
  BY <1>2, StatementsKeepLease, Zenon
<1>3. CASE \E n \in Nat : \/ new = MarkReviewRunRetryableFailureIfRunning(row, n)
                          \/ new = MarkReviewRunFailedIfRunning(row, n)
  BY <1>3, StatementsKeepLease, Zenon
<1>4. CASE \/ new = UpdateReviewRunCompletedIfRunning(row)
           \/ new = ReapStaleRunningRuns(row)
  BY <1>4, StatementsKeepLease, Zenon
<1>5. CASE \/ new = [row EXCEPT !.claimed_at = "stale"]
           \/ /\ row.next_retry_at = "future"
              /\ new = [row EXCEPT !.next_retry_at = "due"]
  BY <1>5, StatementsKeepLease, Zenon
<1> QED BY <1>1, <1>2, <1>3, <1>4, <1>5, Zenon DEF RowStep

\* Running rows stay leased.
LEMMA SchedKeepsLeases ==
  ASSUME SchedTypeOK, RunningRunsAreLeased, [SchedNext]_schedAllVars
  PROVE  RunningRunsAreLeased'
<1>1. lastId' = lastId /\ \A i \in 1..lastId : RowStep(runs[i], runs'[i])
  BY SchedRowSteps, Zenon
<1>2. SchedTypeOK'
  BY SchedTypeStep, Zenon
<1>3. DOMAIN runs = 1..lastId /\ DOMAIN runs' = 1..lastId
  BY <1>1, <1>2, Zenon DEF SchedTypeOK, StoreTypeOK
<1>4. ASSUME NEW i \in 1..lastId PROVE Leased(runs'[i])
  <2>1. runs[i] \in Rows /\ Leased(runs[i])
    BY <1>3, Zenon DEF SchedTypeOK, StoreTypeOK, RunningRunsAreLeased, Leased
  <2> QED BY <1>1, <2>1, RowStepKeepsLease, Zenon
<1> QED BY <1>3, <1>4, Zenon DEF RunningRunsAreLeased, Leased

-----------------------------------------------------------------------------
(* The scheduler on its own                                                *)

SchedInv == SchedTypeOK /\ Exclusive /\ RunningRunsAreLeased

\* It holds of the runs pending at the start.
LEMMA SchedInvInit ==
  ASSUME SchedInit
  PROVE  SchedInv
<1>1. RunningRunsAreLeased
  BY Zenon DEF SchedInit, RunningRunsAreLeased, InsertReviewRun
<1> QED BY <1>1, SchedInitTypeOK, SchedInitExclusive, Zenon DEF SchedInv

\* No step of a worker, the reaper, the clock or a restart breaks it.
LEMMA SchedInvStep ==
  ASSUME SchedInv, [SchedNext]_schedAllVars
  PROVE  SchedInv'
BY SchedTypeStep, SchedKeepsExclusive, SchedKeepsLeases, Zenon DEF SchedInv

\* The invariants of the workers, the reaper and their restarts, with any
\* backlog: types, one worker per run, and a lease on every running run.
THEOREM SchedulerInvariant == SchedSpec => []SchedInv
<1>1. SchedInit => SchedInv
  BY SchedInvInit, Zenon
<1>2. SchedInv /\ [SchedNext]_schedAllVars => SchedInv'
  BY SchedInvStep
<1> QED BY <1>1, <1>2, PTL DEF SchedSpec

\* A run is worked on by one goroutine at a time, unless the reaper gave it
\* away while its worker was busy.
THEOREM SchedulerOneWorkerPerRun == SchedSpec => []OneWorkerPerRun
<1>1. SchedInv => OneWorkerPerRun
  BY DEF SchedInv, Exclusive
<1> QED BY <1>1, SchedulerInvariant, PTL

\* No run is in the queue while a goroutine is busy with it, unless the reaper
\* gave it away: the writes that queue a run are the worker's last.
THEOREM SchedulerHeldRuns == SchedSpec => []HeldRunsAreNotQueued
<1>1. SchedInv => HeldRunsAreNotQueued
  BY DEF SchedInv, Exclusive
<1> QED BY <1>1, SchedulerInvariant, PTL

-----------------------------------------------------------------------------
(* Table changes made outside the scheduler                                *)

\* The table new is the table old of n rows with one row more.
HasRowMore(old, n, row, new) ==
  /\ new \in [1..(n + 1) -> Rows]
  /\ new[n + 1] = row
  /\ \A i \in 1..n : new[i] = old[i]

\* An INSERT appends a row and changes no other.
LEMMA InsertedRows ==
  ASSUME NEW n \in Nat, NEW table \in [1..n -> Rows], NEW row \in Rows
  PROVE  HasRowMore(table, n, row, Inserted(table, n, row))
BY DEF Inserted, HasRowMore

\* The statements of operators and webhooks leave rows of review_runs.
LEMMA OtherStatementTypes ==
  ASSUME NEW row \in Rows
  PROVE  /\ RetryReviewRunNow(row) \in Rows
         /\ CancelReviewRun(row) \in Rows
         /\ RequeueReviewRun(row) \in Rows
         /\ \A m : CancelPendingRunsForMR(row, m) \in Rows
         /\ \A m : \A n \in Nat : SupersedeActiveRunsForMR(row, m, n) \in Rows
<1> USE DEF Rows, Statuses, ErrorCodes, RetryTimes, ClaimTimes
<1>1. RetryReviewRunNow(row) \in Rows
  BY Zenon DEF RetryReviewRunNow
<1>2. CancelReviewRun(row) \in Rows
  BY Zenon DEF CancelReviewRun
<1>3. RequeueReviewRun(row) \in Rows
  BY Zenon DEF RequeueReviewRun
<1>4. \A m : CancelPendingRunsForMR(row, m) \in Rows
  BY Zenon DEF CancelPendingRunsForMR
<1>5. ASSUME NEW m, NEW n \in Nat PROVE SupersedeActiveRunsForMR(row, m, n) \in Rows
  BY ZenonT(60) DEF SupersedeActiveRunsForMR
<1> QED BY <1>1, <1>2, <1>3, <1>4, <1>5, Zenon

\* Cancelling and superseding take rows out of the queue and never make one
\* running without a lease.
LEMMA CancellingRows ==
  ASSUME NEW row \in Rows
  PROVE  /\ ~Queued(CancelReviewRun(row)) /\ Leased(CancelReviewRun(row))
         /\ \A m : /\ ~Queued(row) => ~Queued(CancelPendingRunsForMR(row, m))
                   /\ Leased(row) => Leased(CancelPendingRunsForMR(row, m))
         /\ \A m, n : /\ ~Queued(row) => ~Queued(SupersedeActiveRunsForMR(row, m, n))
                      /\ Leased(row) => Leased(SupersedeActiveRunsForMR(row, m, n))
<1> USE DEF Rows, Queued, Active, Leased
<1>1. ~Queued(CancelReviewRun(row)) /\ Leased(CancelReviewRun(row))
  BY Zenon DEF CancelReviewRun
<1>2. \A m : /\ ~Queued(row) => ~Queued(CancelPendingRunsForMR(row, m))
             /\ Leased(row) => Leased(CancelPendingRunsForMR(row, m))
  BY Zenon DEF CancelPendingRunsForMR
<1>3. \A m, n : /\ ~Queued(row) => ~Queued(SupersedeActiveRunsForMR(row, m, n))
                /\ Leased(row) => Leased(SupersedeActiveRunsForMR(row, m, n))
  BY Zenon DEF SupersedeActiveRunsForMR
<1> QED BY <1>1, <1>2, <1>3, Zenon

\* Rows that operators put back in the queue, and new rows, are not running.
LEMMA QueuedRowsAreNotRunning ==
  ASSUME NEW row \in Rows, NEW m, NEW h, NEW key
  PROVE  /\ Leased(RetryReviewRunNow(row)) /\ Leased(RequeueReviewRun(row))
         /\ Leased(InsertReviewRun(m, h, key))
BY Zenon DEF Rows, Leased, RetryReviewRunNow, RequeueReviewRun, InsertReviewRun

\* The table grows or keeps its size, the workers go on undisturbed, and what
\* happens to the rows respects types, leases and exclusiveness.
LEMMA OutsideStep ==
  ASSUME SchedInv, UNCHANGED <<workerVars, check, gated, faults>>,
         lastId' \in {lastId, lastId + 1},
         runs' \in [1..lastId' -> Rows],
         \A i \in 1..lastId' : Leased(runs'[i]),
         broken \subseteq broken', broken' \subseteq 1..lastId',
         \A w \in Workers :
           /\ claim[w] # 0 /\ claim[w] \notin broken' /\ ~Queued(runs[claim[w]])
           => ~Queued(runs'[claim[w]])
  PROVE  SchedInv'
<1>1. lastId \in Nat /\ lastId' \in Nat /\ lastId <= lastId'
  <2>1. lastId \in Nat
    BY Zenon DEF SchedInv, SchedTypeOK, StoreTypeOK
  <2> QED BY <2>1
<1>2. \A i : i \in 1..lastId => i \in 1..lastId'
  BY <1>1
<1>3. \A i : i \in 0..lastId => i \in 0..lastId'
  BY <1>1
<1>4. claim \in [Workers -> 0..lastId']
  BY <1>3, Zenon DEF SchedInv, SchedTypeOK
<1>5. gated \subseteq 1..lastId'
  BY <1>2, Zenon DEF SchedInv, SchedTypeOK
<1>6. StoreTypeOK'
  BY <1>1, Zenon DEF StoreTypeOK
<1>7. SchedTypeOK'
  BY <1>4, <1>5, <1>6, Zenon DEF SchedInv, SchedTypeOK, workerVars
<1>8. \A w \in Workers : claim'[w] = claim[w]
  BY Zenon DEF workerVars
<1>9. Exclusive'
  BY <1>8, ExclusiveStep, Zenon DEF SchedInv
<1>10. RunningRunsAreLeased'
  BY Zenon DEF RunningRunsAreLeased, Leased
<1> QED BY <1>7, <1>9, <1>10, Zenon DEF SchedInv

\* A table as intake may leave it: same ids, rows leased, nothing queued that
\* was not.
Tamed(table) ==
  /\ table \in [1..lastId -> Rows]
  /\ \A i \in 1..lastId : /\ Leased(table[i])
                          /\ ~Queued(runs[i]) => ~Queued(table[i])

\* Updating the table that way, or
\* inserting a new run into it, preserves the scheduler's invariant.
LEMMA TamedStep ==
  ASSUME SchedInv, NEW table, Tamed(table),
         UNCHANGED <<workerVars, check, gated, faults, broken>>,
         \/ lastId' = lastId /\ runs' = table
         \/ \E m \in MRs, h \in Heads, key \in Keys :
              /\ lastId' = lastId + 1
              /\ runs' = Inserted(table, lastId, InsertReviewRun(m, h, key))
  PROVE  SchedInv'
<1>0. lastId \in Nat /\ broken \subseteq 1..lastId
  BY Zenon DEF SchedInv, SchedTypeOK, StoreTypeOK
<1>h. \A w \in Workers : claim[w] # 0 => claim[w] \in 1..lastId
  BY HeldInTable, Zenon DEF SchedInv
<1>1. CASE lastId' = lastId /\ runs' = table
  BY <1>0, <1>h, <1>1, OutsideStep, Zenon DEF Tamed
<1>2. ASSUME NEW m \in MRs, NEW h \in Heads, NEW key \in Keys,
             lastId' = lastId + 1,
             runs' = Inserted(table, lastId, InsertReviewRun(m, h, key))
      PROVE  SchedInv'
  <2>1. InsertReviewRun(m, h, key) \in Rows
    BY InsertType, Zenon
  <2>2. /\ runs' \in [1..(lastId + 1) -> Rows]
        /\ runs'[lastId + 1] = InsertReviewRun(m, h, key)
        /\ \A i \in 1..lastId : runs'[i] = table[i]
    <3>1. table \in [1..lastId -> Rows]
      BY Zenon DEF Tamed
    <3> DEFINE row == InsertReviewRun(m, h, key)
    <3>2. row \in Rows /\ runs' = Inserted(table, lastId, row)
      BY <1>2, <2>1, Zenon
    <3> HIDE DEF row
    <3>3. HasRowMore(table, lastId, row, runs')
      BY <1>0, <3>1, <3>2, InsertedRows, Zenon
    <3> QED BY <3>3, Zenon DEF HasRowMore, row
  <2>3. Leased(runs'[lastId + 1])
    <3>1. Leased(InsertReviewRun(m, h, key))
      BY Zenon DEF Leased, InsertReviewRun
    <3> QED BY <2>2, <3>1, Zenon
  <2>4. ASSUME NEW i \in 1..lastId' PROVE Leased(runs'[i])
    <3>1. i \in 1..lastId \/ i = lastId + 1
      BY <1>0, <1>2
    <3> QED BY <2>2, <2>3, <3>1, Zenon DEF Tamed
  <2>5. broken' \subseteq 1..lastId'
    <3>1. \A i \in 1..lastId : i \in 1..(lastId + 1)
      BY <1>0
    <3> QED BY <1>0, <1>2, <3>1, Zenon
  <2>6. ASSUME NEW w \in Workers, claim[w] # 0, ~Queued(runs[claim[w]])
        PROVE  ~Queued(runs'[claim[w]])
    BY <1>h, <2>2, <2>6, Zenon DEF Tamed
  <2> QED BY <1>2, <2>2, <2>4, <2>5, <2>6, OutsideStep, Zenon
<1> QED BY <1>1, <1>2, Zenon

\* The table itself, superseded or cancelled for a merge request.
LEMMA TamedTables ==
  ASSUME SchedInv
  PROVE  /\ Tamed(runs)
         /\ \A m : Tamed([i \in DOMAIN runs |-> CancelPendingRunsForMR(runs[i], m)])
         /\ \A m : Tamed([i \in DOMAIN runs |->
                            SupersedeActiveRunsForMR(runs[i], m, lastId + 1)])
<1>1. /\ lastId + 1 \in Nat /\ DOMAIN runs = 1..lastId
      /\ \A i \in 1..lastId : runs[i] \in Rows /\ Leased(runs[i])
      /\ runs \in [1..lastId -> Rows]
  <2>1. lastId \in Nat /\ runs \in [1..lastId -> Rows]
    BY Zenon DEF SchedInv, SchedTypeOK, StoreTypeOK
  <2>2. \A i \in 1..lastId : Leased(runs[i])
    BY <2>1, Zenon DEF SchedInv, RunningRunsAreLeased, Leased
  <2> QED BY <2>1, <2>2
<1>2. Tamed(runs)
  BY <1>1, Zenon DEF Tamed
<1>3. ASSUME NEW m
      PROVE  Tamed([i \in DOMAIN runs |-> CancelPendingRunsForMR(runs[i], m)])
  <2>1. \A i \in 1..lastId :
          /\ CancelPendingRunsForMR(runs[i], m) \in Rows
          /\ Leased(CancelPendingRunsForMR(runs[i], m))
          /\ ~Queued(runs[i]) => ~Queued(CancelPendingRunsForMR(runs[i], m))
    BY <1>1, CancellingRows, OtherStatementTypes, Zenon
  <2> QED BY <1>1, <2>1, Zenon DEF Tamed
<1>4. ASSUME NEW m
      PROVE  Tamed([i \in DOMAIN runs |->
                      SupersedeActiveRunsForMR(runs[i], m, lastId + 1)])
  <2>1. \A i \in 1..lastId :
          /\ SupersedeActiveRunsForMR(runs[i], m, lastId + 1) \in Rows
          /\ Leased(SupersedeActiveRunsForMR(runs[i], m, lastId + 1))
          /\ ~Queued(runs[i]) =>
               ~Queued(SupersedeActiveRunsForMR(runs[i], m, lastId + 1))
    BY <1>1, CancellingRows, OtherStatementTypes, Zenon
  <2> QED BY <1>1, <2>1, Zenon DEF Tamed
<1> QED BY <1>2, <1>3, <1>4, Zenon

-----------------------------------------------------------------------------
(* Intake                                                                  *)

\* A delivery creates, supersedes and cancels runs in tamed ways.
LEMMA IntakeKeepsSched ==
  ASSUME TypeOK, SchedInv, IntakeStep, UNCHANGED <<schedVars, adminVars>>
  PROVE  SchedInv'
<1>0. UNCHANGED <<workerVars, check, gated, faults, broken>>
  BY Zenon DEF schedVars
<1>1. CASE UNCHANGED <<runs, lastId>>
  BY <1>0, <1>1, TamedStep, TamedTables, Zenon
<1>2. ASSUME NEW m \in MRs, NEW e \in wire[m], ProcessEvent(m, e)
      PROVE  SchedInv'
  <2>1. e.head \in Heads /\ e.n \in Nat
    BY DEF TypeOK, IntakeTypeOK, Events
  <2>2. WebhookKey(m, e.head) \in Keys
    BY <2>1, Zenon DEF WebhookKey, Keys, Triggers
  <2>3. CASE CreatePendingRun(m, e)
    <3>1. CASE KeyExists(WebhookKey(m, e.head))
      BY <1>1, <2>3, <3>1, Zenon DEF CreatePendingRun
    <3>2. CASE ~KeyExists(WebhookKey(m, e.head))
      BY <1>0, <2>1, <2>2, <2>3, <3>2, TamedStep, TamedTables, Zenon DEF CreatePendingRun
    <3> QED BY <3>1, <3>2, Zenon
  <2>4. CASE HandleUpdate(m, e)
    <3>1. CASE KeyExists(WebhookKey(m, e.head))
      BY <1>1, <2>4, <3>1, Zenon DEF HandleUpdate
    <3>2. CASE ~KeyExists(WebhookKey(m, e.head))
      <4> DEFINE table == [i \in DOMAIN runs |->
                             SupersedeActiveRunsForMR(runs[i], m, lastId + 1)]
      <4>1. Tamed(table)
        BY TamedTables, Zenon
      <4>2. /\ lastId' = lastId + 1
            /\ runs' = Inserted(table, lastId,
                         InsertReviewRun(m, e.head, WebhookKey(m, e.head)))
        BY <2>4, <3>2, Zenon DEF HandleUpdate
      <4> HIDE DEF table
      <4> QED BY <1>0, <2>1, <2>2, <4>1, <4>2, TamedStep, Zenon
    <3> QED BY <3>1, <3>2, Zenon
  <2>5. CASE CancelRuns(m, e)
    <3>1. CASE mrs[m].state = "none"
      BY <1>1, <2>5, <3>1, Zenon DEF CancelRuns
    <3>2. CASE mrs[m].state # "none"
      <4> DEFINE table == [i \in DOMAIN runs |-> CancelPendingRunsForMR(runs[i], m)]
      <4>1. Tamed(table)
        BY TamedTables, Zenon
      <4>2. lastId' = lastId /\ runs' = table
        BY <2>5, <3>2, Zenon DEF CancelRuns
      <4> HIDE DEF table
      <4> QED BY <1>0, <4>1, <4>2, TamedStep, Zenon
    <3> QED BY <3>1, <3>2, Zenon
  <2>6. CASE ExecuteRerun(m, e)
    <3> DEFINE key == CommandKey(m, e.head, e.n)
    <3>1. key \in Keys
      BY <2>1, Zenon DEF CommandKey, Keys, Triggers
    <3>2. \/ UNCHANGED <<runs, lastId>>
          \/ /\ lastId' = lastId + 1
             /\ runs' = Inserted(runs, lastId, InsertReviewRun(m, e.head, key))
      BY <2>6, Zenon DEF ExecuteRerun
    <3> HIDE DEF key
    <3> QED BY <1>0, <1>1, <2>1, <3>1, <3>2, TamedStep, TamedTables, Zenon
  <2> QED BY <1>2, <2>3, <2>4, <2>5, <2>6, Zenon DEF ProcessEvent
<1> QED BY <1>1, <1>2, Zenon DEF IntakeStep, ForgeMoves, Deliver

\* What a delivery does to a row it finds.
WebhookStep(row, new) ==
  \/ new = row
  \/ \E m, n : new = SupersedeActiveRunsForMR(row, m, n)
  \/ \E m : new = CancelPendingRunsForMR(row, m)

\* A delivery leaves settled rows alone and ends active ones, and it touches
\* neither what a run is for nor what its workers recorded in it.
LEMMA WebhookStepColumns ==
  ASSUME NEW row \in Rows, NEW new, WebhookStep(row, new)
  PROVE  /\ new = row \/ (Active(row) /\ ~Active(new) /\ new.status = "cancelled")
         /\ new.mr = row.mr /\ new.head = row.head /\ new.key = row.key
         /\ new.retry_count = row.retry_count
         /\ new.completed_at = row.completed_at
<1> USE DEF Rows, Active
<1>1. ASSUME NEW m, NEW n, new = SupersedeActiveRunsForMR(row, m, n)
      PROVE  /\ new = row \/ (Active(row) /\ ~Active(new) /\ new.status = "cancelled")
             /\ new.mr = row.mr /\ new.head = row.head /\ new.key = row.key
             /\ new.retry_count = row.retry_count
             /\ new.completed_at = row.completed_at
  BY <1>1, Zenon DEF SupersedeActiveRunsForMR
<1>2. ASSUME NEW m, new = CancelPendingRunsForMR(row, m)
      PROVE  /\ new = row \/ (Active(row) /\ ~Active(new) /\ new.status = "cancelled")
             /\ new.mr = row.mr /\ new.head = row.head /\ new.key = row.key
             /\ new.retry_count = row.retry_count
             /\ new.completed_at = row.completed_at
  BY <1>2, Zenon DEF CancelPendingRunsForMR
<1> QED BY <1>1, <1>2, Zenon DEF WebhookStep

\* An event changes the rows of the table by its statements, and adds at most
\* one pending run.
LEMMA ProcessedRows ==
  ASSUME StoreTypeOK, NEW m \in MRs, NEW e, ProcessEvent(m, e)
  PROVE  /\ \A i \in 1..lastId : WebhookStep(runs[i], runs'[i])
         /\ \/ lastId' = lastId
            \/ /\ lastId' = lastId + 1
               /\ \E key : runs'[lastId + 1] = InsertReviewRun(m, e.head, key)
<1>0. lastId \in Nat /\ DOMAIN runs = 1..lastId
  BY Zenon DEF StoreTypeOK
<1>i. ASSUME NEW table, NEW key, lastId' = lastId + 1,
             runs' = Inserted(table, lastId, InsertReviewRun(m, e.head, key)),
             \A i \in 1..lastId : WebhookStep(runs[i], table[i])
      PROVE  /\ \A i \in 1..lastId : WebhookStep(runs[i], runs'[i])
             /\ lastId' = lastId + 1
             /\ \E k : runs'[lastId + 1] = InsertReviewRun(m, e.head, k)
  <2> DEFINE row == InsertReviewRun(m, e.head, key)
  <2>1. runs' = Inserted(table, lastId, row)
    BY <1>i, Zenon
  <2>2. row = InsertReviewRun(m, e.head, key)
    BY Zenon
  <2> HIDE DEF row
  <2>3. runs'[lastId + 1] = row /\ \A i \in 1..lastId : runs'[i] = table[i]
    BY <1>0, <2>1 DEF Inserted
  <2> QED BY <1>i, <2>2, <2>3, Zenon
<1>r. \A i \in 1..lastId : WebhookStep(runs[i], runs[i])
  BY Zenon DEF WebhookStep
<1>1. CASE CreatePendingRun(m, e)
  BY <1>i, <1>r, <1>1, Zenon DEF CreatePendingRun
<1>2. CASE HandleUpdate(m, e)
  <2> DEFINE table == [i \in DOMAIN runs |->
                         SupersedeActiveRunsForMR(runs[i], m, lastId + 1)]
  <2>1. \A i \in 1..lastId : WebhookStep(runs[i], table[i])
    BY <1>0, Zenon DEF WebhookStep
  <2>2. \/ UNCHANGED <<runs, lastId>>
        \/ /\ lastId' = lastId + 1
           /\ runs' = Inserted(table, lastId,
                        InsertReviewRun(m, e.head, WebhookKey(m, e.head)))
    BY <1>2, Zenon DEF HandleUpdate
  <2> HIDE DEF table
  <2> QED BY <1>i, <1>r, <2>1, <2>2, Zenon
<1>3. CASE CancelRuns(m, e)
  <2>1. lastId' = lastId
    BY <1>3, Zenon DEF CancelRuns
  <2>2. \A i \in 1..lastId : \/ runs'[i] = runs[i]
                             \/ runs'[i] = CancelPendingRunsForMR(runs[i], m)
    BY <1>0, <1>3, Zenon DEF CancelRuns
  <2> QED BY <2>1, <2>2, Zenon DEF WebhookStep
<1>4. CASE ExecuteRerun(m, e)
  BY <1>i, <1>r, <1>4, Zenon DEF ExecuteRerun
<1> QED BY <1>1, <1>2, <1>3, <1>4, Zenon DEF ProcessEvent

\* So does every step of intake.
LEMMA IntakeRows ==
  ASSUME StoreTypeOK, IntakeStep
  PROVE  /\ \A i \in 1..lastId : WebhookStep(runs[i], runs'[i])
         /\ \/ lastId' = lastId
            \/ /\ lastId' = lastId + 1
               /\ \E m, h, key : runs'[lastId + 1] = InsertReviewRun(m, h, key)
<1>1. PICK m \in MRs : ForgeMoves(m) \/ Deliver(m)
  BY Zenon DEF IntakeStep
<1>2. CASE ForgeMoves(m)
  BY <1>2, Zenon DEF ForgeMoves, WebhookStep
<1>3. CASE Deliver(m)
  <2>1. PICK e : ProcessEvent(m, e)
    BY <1>3, Zenon DEF Deliver
  <2> QED BY <2>1, ProcessedRows, Zenon
<1> QED BY <1>1, <1>2, <1>3, Zenon

-----------------------------------------------------------------------------
(* Operators                                                               *)

\* An operator's write records the run it takes from a busy worker.
LEMMA AdminKeepsSched ==
  ASSUME TypeOK, SchedInv, AdminStep
  PROVE  SchedInv'
<1>0. /\ lastId \in Nat /\ runs \in [1..lastId -> Rows] /\ DOMAIN runs = 1..lastId
      /\ broken \subseteq 1..lastId
  BY Zenon DEF SchedInv, SchedTypeOK, StoreTypeOK
<1>l. \A i \in 1..lastId : Leased(runs[i])
  BY <1>0, Zenon DEF SchedInv, RunningRunsAreLeased, Leased
<1>h. \A w \in Workers : claim[w] # 0 => claim[w] \in 1..lastId
  BY HeldInTable, Zenon DEF SchedInv
<1>1. ASSUME NEW o \in Operators, AdminCheck(o) PROVE SchedInv'
  <2>1. UNCHANGED <<runs, lastId, workerVars, check, gated, faults, broken>>
    BY <1>1, Zenon DEF AdminCheck, schedAllVars, schedVars
  <2> QED BY <2>1, TamedStep, TamedTables, Zenon
<1>2. ASSUME NEW o \in Operators, AdminWrite(o) PROVE SchedInv'
  <2> DEFINE op == request[o].op
             i == request[o].run
  <2>1. i \in 1..lastId
    <3>1. i \in 0..lastId /\ i # 0
      BY <1>2, Zenon DEF TypeOK, AdminTypeOK, AdminWrite
    <3> QED BY <1>0, <3>1
  <2>2. /\ UNCHANGED <<workerVars, check, gated, faults>>
        /\ broken' = broken \cup TakenBy(op, i)
    BY <1>2, Zenon DEF AdminWrite
  <2>3. broken \subseteq broken' /\ broken' \subseteq 1..lastId
    BY <1>0, <2>1, <2>2, Zenon DEF TakenBy
  <2>4. CASE op = "rerun_run"
    <3> DEFINE key == [trigger |-> "admin", mr |-> runs[i].mr,
                       head |-> runs[i].head, nonce |-> lastId + 1]
    <3>1. runs[i].mr \in MRs /\ runs[i].head \in Heads
      BY <1>0, <2>1, Zenon DEF Rows
    <3>2. key \in Keys
      BY <1>0, <3>1 DEF Keys, Triggers
    <3>3. /\ lastId' = lastId + 1
          /\ runs' = Inserted(runs, lastId,
                       InsertReviewRun(runs[i].mr, runs[i].head, key))
          /\ broken' = broken
      BY <1>2, <2>2, <2>4, Zenon DEF AdminWrite, TakenBy
    <3> HIDE DEF key
    <3> QED BY <2>2, <3>1, <3>2, <3>3, TamedStep, TamedTables, Zenon
  <2>5. CASE op # "rerun_run"
    <3>1. PICK row :
            /\ SetRow(i, row) /\ row \in Rows /\ Leased(row) /\ lastId' = lastId
            /\ op \in {"retry_run", "requeue_run"} \/ ~Queued(row)
      <4>1. runs[i] \in Rows
        BY <1>0, <2>1, Zenon
      <4>2. CASE op = "retry_run"
        BY <1>2, <4>1, <4>2, OtherStatementTypes, QueuedRowsAreNotRunning, Zenon
        DEF AdminWrite
      <4>3. CASE op = "requeue_run"
        BY <1>2, <4>1, <4>3, OtherStatementTypes, QueuedRowsAreNotRunning, Zenon
        DEF AdminWrite
      <4>4. CASE op = "cancel_run"
        BY <1>2, <4>1, <4>4, OtherStatementTypes, CancellingRows, Zenon DEF AdminWrite
      <4> QED BY <1>2, <2>5, <4>2, <4>3, <4>4, Zenon DEF AdminWrite
    <3>2. /\ runs' \in [1..lastId -> Rows] /\ runs'[i] = row
          /\ \A j \in 1..lastId : j # i => runs'[j] = runs[j]
      BY <1>0, <2>1, <3>1, Zenon DEF SetRow
    <3>3. \A j \in 1..lastId : Leased(runs'[j])
      BY <1>l, <3>1, <3>2, Zenon
    <3>4. ASSUME NEW w \in Workers, claim[w] # 0, claim[w] \notin broken',
                 ~Queued(runs[claim[w]])
          PROVE  ~Queued(runs'[claim[w]])
      <4>1. CASE claim[w] = i
        BY <2>2, <3>1, <3>2, <3>4, <4>1, Zenon DEF TakenBy, Held
      <4>2. CASE claim[w] # i
        BY <1>h, <3>2, <3>4, <4>2, Zenon
      <4> QED BY <4>1, <4>2, Zenon
    <3>5. lastId' = lastId
      BY <3>1, Zenon
    <3> QED BY <2>2, <2>3, <3>2, <3>3, <3>4, <3>5, OutsideStep, Zenon
  <2> QED BY <2>4, <2>5, Zenon
<1> QED BY <1>1, <1>2, Zenon DEF AdminStep

-----------------------------------------------------------------------------
(* Types of the requests and of the events                                 *)

\* The forge and the deliveries keep events and merge requests well formed.
LEMMA IntakeTypeStep ==
  ASSUME IntakeTypeOK, IntakeStep
  PROVE  IntakeTypeOK'
<1>0. /\ moves \in Nat /\ MaxMoves \in Nat
      /\ duplicates \in Nat /\ MaxDuplicates \in Nat
  BY IntakeAssumption DEF IntakeTypeOK
<1>1. ASSUME NEW m \in MRs, ForgeMoves(m) PROVE IntakeTypeOK'
  <2>1. PICK action \in Actions, state \in MRStates, head \in Heads :
          Becomes(m, state, head) /\ Announce(m, action, state, head)
    <3>1. ForgeChanges(m) /\ forge[m].head \in Heads /\ forge[m].state \in MRStates
      BY <1>1, Zenon DEF ForgeMoves, IntakeTypeOK
    <3>2. NewHeads(m) \subseteq Heads
      BY Zenon DEF NewHeads
    <3>3. {"open", "update", "close", "merge", "reopen", "rerun"} \subseteq Actions
      BY Zenon DEF Actions
    <3>4. {"opened", "closed", "merged"} \subseteq MRStates
      BY Zenon DEF MRStates
    <3> QED BY <3>1, <3>2, <3>3, <3>4, Zenon DEF ForgeChanges
  <2>2. forge' \in [MRs -> [state : MRStates, head : Heads, past : SUBSET Heads]]
    BY <2>1, Zenon DEF Becomes, IntakeTypeOK
  <2>3. wire' \in [MRs -> SUBSET Events]
    <3>1. moves + 1 \in Nat
      BY <1>0
    <3>2. [n |-> moves + 1, action |-> action, state |-> state, head |-> head]
            \in Events
      BY <3>1, Zenon DEF Events
    <3> QED BY <2>1, <3>2, Zenon DEF Announce, IntakeTypeOK
  <2>4. moves' \in 0..MaxMoves
    BY <1>0, <1>1 DEF ForgeMoves
  <2>5. UNCHANGED <<duplicates, mrs>>
    BY <1>1, Zenon DEF ForgeMoves
  <2> QED BY <2>2, <2>3, <2>4, <2>5, Zenon DEF IntakeTypeOK
<1>2. ASSUME NEW m \in MRs, Deliver(m) PROVE IntakeTypeOK'
  <2>1. PICK e \in wire[m] :
          /\ ProcessEvent(m, e)
          /\ \/ wire' = [wire EXCEPT ![m] = @ \ {e}] /\ UNCHANGED duplicates
             \/ /\ duplicates < MaxDuplicates /\ duplicates' = duplicates + 1
                /\ UNCHANGED wire
          /\ UNCHANGED <<forge, moves>>
    BY <1>2, Zenon DEF Deliver
  <2>2. wire' \in [MRs -> SUBSET Events]
    BY <2>1, Zenon DEF IntakeTypeOK
  <2>3. duplicates' \in 0..MaxDuplicates
    BY <1>0, <2>1 DEF IntakeTypeOK
  <2>4. mrs' \in [MRs -> [state : MRStates, head : Heads]]
    <3>1. e.state \in MRStates /\ e.head \in Heads
      BY <2>1 DEF IntakeTypeOK, Events
    <3>2. mrs' = mrs \/ UpsertMergeRequest(m, e) \/ UpdateMergeRequestState(m, e)
      BY <2>1, Zenon DEF ProcessEvent, CreatePendingRun, HandleUpdate, CancelRuns,
                  ExecuteRerun
    <3> QED BY <3>1, <3>2 DEF UpsertMergeRequest, UpdateMergeRequestState,
                              IntakeTypeOK, MRStates
  <2> QED BY <2>1, <2>2, <2>3, <2>4, Zenon DEF IntakeTypeOK
<1> QED BY <1>1, <1>2, Zenon DEF IntakeStep

\* Requests name runs of the table, which only grows.
LEMMA AdminTypeGrows ==
  ASSUME AdminTypeOK, UNCHANGED adminVars, lastId \in Nat,
         lastId' \in {lastId, lastId + 1}
  PROVE  AdminTypeOK'
<1>1. \A i : i \in 0..lastId => i \in 0..lastId'
  OBVIOUS
<1>2. request' \in [Operators -> [op : AdminOps \cup {"none"}, run : 0..lastId']]
  BY <1>1, Zenon DEF AdminTypeOK, adminVars
<1> QED BY <1>2, Zenon DEF AdminTypeOK, adminVars

\* An operator's steps keep the requests well formed.
LEMMA AdminTypeStep ==
  ASSUME SchedTypeOK, AdminTypeOK, AdminStep
  PROVE  AdminTypeOK'
<1>0. /\ lastId \in Nat /\ DOMAIN runs = 1..lastId
      /\ adminOps \in Nat /\ MaxAdminOps \in Nat
  <2>1. lastId \in Nat /\ DOMAIN runs = 1..lastId
    BY Zenon DEF SchedTypeOK, StoreTypeOK
  <2>2. adminOps \in 0..MaxAdminOps
    BY Zenon DEF AdminTypeOK
  <2> QED BY <2>1, <2>2, MaxAdminOpsAssumption
<1>1. ASSUME NEW o \in Operators, AdminCheck(o) PROVE AdminTypeOK'
  <2>1. PICK op \in AdminOps, i \in 1..lastId :
          request' = [request EXCEPT ![o] = [op |-> op, run |-> i]]
    BY <1>0, <1>1, Zenon DEF AdminCheck
  <2>2. i \in 0..lastId /\ i # 0 /\ op # "none"
    BY <1>0 DEF AdminOps
  <2>3. lastId' = lastId
    BY <1>1, Zenon DEF AdminCheck, schedAllVars
  <2>4. adminOps' \in 0..MaxAdminOps
    BY <1>0, <1>1 DEF AdminCheck
  <2> QED BY <2>1, <2>2, <2>3, <2>4, Zenon DEF AdminTypeOK
<1>2. ASSUME NEW o \in Operators, AdminWrite(o) PROVE AdminTypeOK'
  <2>1. /\ lastId' \in {lastId, lastId + 1} /\ adminOps' = adminOps
        /\ request' = [request EXCEPT ![o] = NoRequest]
    BY <1>2, Zenon DEF AdminWrite
  <2>2. \A i : i \in 0..lastId => i \in 0..lastId'
    BY <1>0, <2>1
  <2>3. NoRequest \in [op : AdminOps \cup {"none"}, run : 0..lastId']
    BY <1>0, <2>1 DEF NoRequest
  <2>4. request' \in [Operators -> [op : AdminOps \cup {"none"}, run : 0..lastId']]
    BY <2>1, <2>2, <2>3, Zenon DEF AdminTypeOK
  <2>5. \A p \in Operators : request'[p].run = 0 <=> request'[p].op = "none"
    BY <2>1, Zenon DEF AdminTypeOK, NoRequest
  <2> QED BY <2>1, <2>4, <2>5, Zenon DEF AdminTypeOK
<1> QED BY <1>1, <1>2, Zenon DEF AdminStep

-----------------------------------------------------------------------------
(* The service                                                             *)

ServiceInv == SchedInv /\ AdminTypeOK /\ IntakeTypeOK

\* No step of any party breaks the invariant.
LEMMA ServiceStep ==
  ASSUME ServiceInv, [Next]_vars
  PROVE  ServiceInv'
<1>0. TypeOK /\ lastId \in Nat
  BY Zenon DEF ServiceInv, SchedInv, TypeOK, SchedTypeOK, StoreTypeOK
<1>1. CASE SchedNext /\ UNCHANGED <<adminVars, intakeVars>>
  <2>1. SchedInv'
    BY <1>1, SchedInvStep, Zenon DEF ServiceInv
  <2>2. lastId' = lastId
    BY <1>1, SchedRowSteps, Zenon DEF ServiceInv, SchedInv
  <2>3. AdminTypeOK'
    BY <1>0, <1>1, <2>2, AdminTypeGrows, Zenon DEF ServiceInv
  <2>4. IntakeTypeOK'
    BY <1>1, Zenon DEF ServiceInv, IntakeTypeOK, intakeVars
  <2> QED BY <2>1, <2>3, <2>4, Zenon DEF ServiceInv
<1>2. CASE AdminStep /\ UNCHANGED intakeVars
  <2>1. IntakeTypeOK'
    BY <1>2, Zenon DEF ServiceInv, IntakeTypeOK, intakeVars
  <2> QED BY <1>0, <1>2, <2>1, AdminKeepsSched, AdminTypeStep, Zenon
          DEF ServiceInv, SchedInv
<1>3. CASE IntakeStep /\ UNCHANGED <<schedVars, adminVars>>
  <2>1. lastId' \in {lastId, lastId + 1}
    BY <1>3, Zenon DEF IntakeStep, ForgeMoves, Deliver, ProcessEvent, CreatePendingRun,
                HandleUpdate, CancelRuns, ExecuteRerun
  <2>2. AdminTypeOK'
    BY <1>0, <1>3, <2>1, AdminTypeGrows, Zenon DEF ServiceInv
  <2> QED BY <1>0, <1>3, <2>2, IntakeKeepsSched, IntakeTypeStep, Zenon DEF ServiceInv
<1>4. CASE UNCHANGED vars
  BY <1>4, Zenon DEF vars, schedAllVars, schedVars, workerVars, adminVars, intakeVars,
              ServiceInv, SchedInv, SchedTypeOK, StoreTypeOK, Exclusive,
              OneWorkerPerRun, HeldRunsAreNotQueued, RunningRunsAreLeased,
              AdminTypeOK, IntakeTypeOK
<1> QED BY <1>1, <1>2, <1>3, <1>4, Zenon DEF Next

\* The service starts within it.
LEMMA ServiceInit ==
  ASSUME Init
  PROVE  ServiceInv
<1>1. SchedInit
  BY Zenon DEF Init
<1>2. SchedInv
  BY <1>1, SchedInvInit, Zenon
<1>3. AdminTypeOK
  <2>1. lastId \in Nat
    BY <1>2, Zenon DEF SchedInv, SchedTypeOK, StoreTypeOK
  <2>2. 0 \in 0..lastId /\ 0 \in 0..MaxAdminOps
    BY <2>1, MaxAdminOpsAssumption
  <2> QED BY <2>2, Zenon DEF Init, AdminInit, AdminTypeOK, NoRequest
<1>4. IntakeTypeOK
  <2>1. 0 \in 0..MaxMoves /\ 0 \in 0..MaxDuplicates
    BY IntakeAssumption
  <2>2. IntakeInit
    BY Zenon DEF Init
  <2>3. forge \in [MRs -> [state : MRStates, head : Heads, past : SUBSET Heads]]
    BY <2>2 DEF IntakeInit, MRStates
  <2> QED BY <2>1, <2>2, <2>3, Zenon DEF IntakeInit, IntakeTypeOK, MRStates
<1> QED BY <1>2, <1>3, <1>4, Zenon DEF ServiceInv

\* The invariant of the whole service: webhooks in any order, repeated or not,
\* operators, workers, reapers and restarts, for any number of each.
THEOREM ServiceInvariant == Spec => []ServiceInv
<1>1. Init => ServiceInv
  BY ServiceInit, Zenon
<1>2. ServiceInv /\ [Next]_vars => ServiceInv'
  BY ServiceStep
<1> QED BY <1>1, <1>2, PTL DEF Spec

\* Every variable keeps its type in the whole service; in particular operators
\* and workers only ever name runs that exist.
THEOREM ServiceTypes == Spec => []TypeOK
<1>1. ServiceInv => TypeOK
  BY DEF ServiceInv, SchedInv, TypeOK
<1> QED BY <1>1, ServiceInvariant, PTL

\* A run is worked on by one goroutine at a time unless the reaper or an
\* operator gave it away: superseding, cancelling and rerunning runs never
\* lets a second goroutine past ClaimNextRun.
THEOREM ServiceOneWorkerPerRun == Spec => []OneWorkerPerRun
<1>1. ServiceInv => OneWorkerPerRun
  BY DEF ServiceInv, SchedInv, Exclusive
<1> QED BY <1>1, ServiceInvariant, PTL

\* Every running run carries the claim time the reaper needs to take it back,
\* whatever webhooks and operators did to it.
THEOREM ServiceRunningRunsAreLeased == Spec => []RunningRunsAreLeased
<1>1. ServiceInv => RunningRunsAreLeased
  BY DEF ServiceInv, SchedInv
<1> QED BY <1>1, ServiceInvariant, PTL

\* In the whole service no run is in the queue while a goroutine is busy with
\* it, unless the reaper or an operator gave it away.
THEOREM ServiceHeldRuns == Spec => []HeldRunsAreNotQueued
<1>1. ServiceInv => HeldRunsAreNotQueued
  BY DEF ServiceInv, SchedInv, Exclusive
<1> QED BY <1>1, ServiceInvariant, PTL

-----------------------------------------------------------------------------
(* What lasts                                                              *)

\* No statement of the scheduler touches what a run is for, its key, or the
\* supersession trail.
LEMMA RowStepKeepsHistory ==
  ASSUME NEW row \in Rows, NEW new, RowStep(row, new)
  PROVE  /\ new.mr = row.mr /\ new.head = row.head /\ new.key = row.key
         /\ new.superseded_by = row.superseded_by
<1> USE DEF Rows
<1>1. CASE \E p \in Processes : new = ClaimReviewRun(row, p)
  BY <1>1, Zenon DEF ClaimReviewRun
<1>2. CASE \E s \in FinalStatuses : new = UpdateReviewRunStatus(row, s, "")
  BY <1>2, Zenon DEF UpdateReviewRunStatus
<1>3. CASE \E n \in Nat : \/ new = MarkReviewRunRetryableFailureIfRunning(row, n)
                          \/ new = MarkReviewRunFailedIfRunning(row, n)
  BY <1>3, ZenonT(60)
     DEF MarkReviewRunRetryableFailureIfRunning, MarkReviewRunFailedIfRunning
<1>4. CASE \/ new = UpdateReviewRunCompletedIfRunning(row)
           \/ new = ReapStaleRunningRuns(row)
  BY <1>4, ZenonT(60) DEF UpdateReviewRunCompletedIfRunning, ReapStaleRunningRuns
<1>5. CASE \/ new = [row EXCEPT !.claimed_at = "stale"]
           \/ new = [row EXCEPT !.next_retry_at = "due"]
  BY <1>5, Zenon
<1> QED BY <1>1, <1>2, <1>3, <1>4, <1>5, Zenon DEF RowStep

\* Without operators nothing brings a settled run back: not a retry, not the
\* reaper, not a late worker, not a webhook.
LEMMA SettledRowsStay ==
  ASSUME Operators = {}, SchedTypeOK, [Next]_vars,
         NEW i \in 1..lastId, ~Active(runs[i])
  PROVE  ~Active(runs'[i])
<1>0. StoreTypeOK /\ runs[i] \in Rows
  BY Zenon DEF SchedTypeOK, StoreTypeOK
<1>1. CASE [SchedNext]_schedAllVars
  BY <1>0, <1>1, SchedRowSteps, RowStepKeepsSettled, Zenon
<1>2. CASE IntakeStep
  BY <1>0, <1>2, IntakeRows, WebhookStepColumns, Zenon
<1> QED BY <1>1, <1>2, Zenon DEF Next, AdminStep, vars

-----------------------------------------------------------------------------
(* What a delivery does to the runs                                        *)

\* A run is created: runs[lastId + 1], for head, with key.
Creates(m, head, key) ==
  /\ lastId' = lastId + 1
  /\ runs'[lastId + 1].mr = m /\ runs'[lastId + 1].head = head
  /\ runs'[lastId + 1].key = key

\* The runs there are keep what they are for, and none comes back to life.
RowsLast ==
  \A i \in 1..lastId :
    /\ runs'[i].mr = runs[i].mr /\ runs'[i].head = runs[i].head
    /\ runs'[i].key = runs[i].key
    /\ Active(runs'[i]) => Active(runs[i])

\* Every run of m there was is settled now.
AllSettled(m) == \A i \in 1..lastId : runs[i].mr = m => ~Active(runs'[i])

DeliveredRows(m, e) ==
  /\ RowsLast
  /\ e.action \in {"open", "reopen", "update"} =>
       \/ KeyExists(WebhookKey(m, e.head)) /\ lastId' = lastId
       \/ /\ ~KeyExists(WebhookKey(m, e.head))
          /\ Creates(m, e.head, WebhookKey(m, e.head))
  /\ e.action = "update" => KeyExists(WebhookKey(m, e.head)) \/ AllSettled(m)
  /\ e.action \in {"close", "merge"} =>
       lastId' = lastId /\ (mrs[m].state # "none" => AllSettled(m))
  /\ e.action = "rerun" =>
       lastId' = lastId \/ Creates(m, e.head, CommandKey(m, e.head, e.n))

\* An inserted row has the columns it is inserted with.
LEMMA InsertCreates ==
  ASSUME NEW m, NEW head, NEW key, NEW table, lastId \in Nat,
         lastId' = lastId + 1,
         runs' = Inserted(table, lastId, InsertReviewRun(m, head, key))
  PROVE  /\ Creates(m, head, key)
         /\ \A i \in 1..lastId : runs'[i] = table[i]
<1> DEFINE row == InsertReviewRun(m, head, key)
<1>1. row.mr = m /\ row.head = head /\ row.key = key
  BY Zenon DEF InsertReviewRun
<1>2. runs' = Inserted(table, lastId, row)
  BY Zenon
<1> HIDE DEF row
<1>3. runs'[lastId + 1] = row /\ \A i \in 1..lastId : runs'[i] = table[i]
  BY <1>2 DEF Inserted
<1> QED BY <1>1, <1>3, Zenon DEF Creates

\* Superseding and cancelling change no run's purpose, revive none, and settle
\* every run of the merge request.
LEMMA StatementsSettle ==
  ASSUME NEW row \in Rows, NEW m, NEW new,
         \/ \E n : new = SupersedeActiveRunsForMR(row, m, n)
         \/ new = CancelPendingRunsForMR(row, m)
  PROVE  /\ new.mr = row.mr /\ new.head = row.head /\ new.key = row.key
         /\ Active(new) => Active(row)
         /\ row.mr = m => ~Active(new)
<1>1. ASSUME NEW n, new = SupersedeActiveRunsForMR(row, m, n)
      PROVE  /\ new.mr = row.mr /\ new.head = row.head /\ new.key = row.key
             /\ Active(new) => Active(row)
             /\ row.mr = m => ~Active(new)
  BY <1>1, Zenon DEF SupersedeActiveRunsForMR, Active, Rows
<1>2. CASE new = CancelPendingRunsForMR(row, m)
  BY <1>2, Zenon DEF CancelPendingRunsForMR, Active, Rows
<1> QED BY <1>1, <1>2, Zenon

\* The handlers of the webhook service, event by event.
LEMMA DeliveryRows ==
  ASSUME StoreTypeOK, NEW m \in MRs, NEW e, ProcessEvent(m, e)
  PROVE  DeliveredRows(m, e)
<1>0. /\ lastId \in Nat /\ DOMAIN runs = 1..lastId
      /\ \A i \in 1..lastId : runs[i] \in Rows
  BY Zenon DEF StoreTypeOK
<1>1. CASE e.action \in {"open", "reopen"} /\ CreatePendingRun(m, e)
  BY <1>0, <1>1, InsertCreates DEF CreatePendingRun, DeliveredRows, RowsLast
<1>2. CASE e.action = "update" /\ HandleUpdate(m, e)
  <2> DEFINE table == [i \in DOMAIN runs |->
                         SupersedeActiveRunsForMR(runs[i], m, lastId + 1)]
  <2>1. \A i \in 1..lastId :
          /\ table[i].mr = runs[i].mr /\ table[i].head = runs[i].head
          /\ table[i].key = runs[i].key
          /\ Active(table[i]) => Active(runs[i])
          /\ runs[i].mr = m => ~Active(table[i])
    <3>1. SUFFICES ASSUME NEW i \in 1..lastId
                   PROVE  /\ table[i].mr = runs[i].mr
                          /\ table[i].head = runs[i].head
                          /\ table[i].key = runs[i].key
                          /\ Active(table[i]) => Active(runs[i])
                          /\ runs[i].mr = m => ~Active(table[i])
      BY Zenon
    <3>2. /\ table[i] = SupersedeActiveRunsForMR(runs[i], m, lastId + 1)
          /\ runs[i] \in Rows
      BY <1>0, Zenon
    <3> HIDE DEF table
    <3>3. \E n : table[i] = SupersedeActiveRunsForMR(runs[i], m, n)
      BY <3>2, Zenon
    <3> QED BY <3>2, <3>3, StatementsSettle
  <2>2. \/ KeyExists(WebhookKey(m, e.head)) /\ UNCHANGED <<runs, lastId>>
        \/ /\ ~KeyExists(WebhookKey(m, e.head)) /\ lastId' = lastId + 1
           /\ runs' = Inserted(table, lastId,
                        InsertReviewRun(m, e.head, WebhookKey(m, e.head)))
    BY <1>2, Zenon DEF HandleUpdate
  <2> HIDE DEF table
  <2>3. \/ KeyExists(WebhookKey(m, e.head)) /\ lastId' = lastId
        \/ /\ ~KeyExists(WebhookKey(m, e.head)) /\ AllSettled(m)
           /\ Creates(m, e.head, WebhookKey(m, e.head))
    BY <1>0, <2>1, <2>2, InsertCreates DEF AllSettled
  <2>4. RowsLast
    BY <1>0, <2>1, <2>2, InsertCreates DEF RowsLast
  <2> QED BY <1>2, <2>3, <2>4, Zenon DEF DeliveredRows
<1>3. CASE e.action \in {"close", "merge"} /\ CancelRuns(m, e)
  <2>1. lastId' = lastId
    BY <1>3, Zenon DEF CancelRuns
  <2>2. ASSUME mrs[m].state # "none" PROVE AllSettled(m)
    <3>1. \A i \in 1..lastId : runs'[i] = CancelPendingRunsForMR(runs[i], m)
      BY <1>0, <1>3, <2>2, Zenon DEF CancelRuns
    <3>2. ASSUME NEW i \in 1..lastId, runs[i].mr = m PROVE ~Active(runs'[i])
      <4>1. runs[i] \in Rows
        BY <1>0, Zenon
      <4> QED BY <3>1, <3>2, <4>1, StatementsSettle, Zenon
    <3> QED BY <3>2, Zenon DEF AllSettled
  <2>3. RowsLast
    <3>1. \A i \in 1..lastId : \/ runs'[i] = runs[i]
                               \/ runs'[i] = CancelPendingRunsForMR(runs[i], m)
      BY <1>0, <1>3, Zenon DEF CancelRuns
    <3> QED BY <1>0, <3>1, StatementsSettle DEF RowsLast
  <2> QED BY <1>3, <2>1, <2>2, <2>3, Zenon DEF DeliveredRows
<1>4. CASE e.action = "rerun" /\ ExecuteRerun(m, e)
  BY <1>0, <1>4, InsertCreates DEF ExecuteRerun, DeliveredRows, RowsLast
<1> QED BY <1>1, <1>2, <1>3, <1>4, Zenon DEF ProcessEvent

-----------------------------------------------------------------------------
(* Terminal writes, although other parties change the rows under the       *)
(* workers.  The retries of a run are never given back: a worker stores a  *)
(* count it read minutes ago, and that count is still the row's, because   *)
(* every other writer of retry_count takes the run away from the worker    *)
(* first.  No run is marked completed before its verdict is published.  A  *)
(* write that finds its run not running is explained by what the row says. *)

\* What a worker remembers of retry_count is what the row says.
Current(w) ==
  /\ pc[w] # "claimed" => snap[w] = runs[claim[w]].retry_count
  /\ pc[w] = "writeback" => wbsnap[w] = runs[claim[w]].retry_count

\* Of every worker whose run was not taken from it.
CountsAreCurrent ==
  \A w \in Workers : claim[w] \notin broken \cup {0} => Current(w)

RetryInv == SchedTypeOK /\ Exclusive /\ CountsAreCurrent

\* What the property says of one step.
CountsGrow ==
  \A i \in DOMAIN runs \ broken' : runs'[i].retry_count >= runs[i].retry_count

-----------------------------------------------------------------------------
(* Retries: steps                                                          *)

\* Rows keep their count and workers their memory of it.
LEMMA SameCounts ==
  ASSUME RetryInv, broken \subseteq broken',
         \A i \in 1..lastId \ broken' : runs'[i].retry_count = runs[i].retry_count,
         \A w \in Workers :
           \/ claim'[w] = 0
           \/ /\ claim'[w] = claim[w] /\ pc'[w] = pc[w]
              /\ snap'[w] = snap[w] /\ wbsnap'[w] = wbsnap[w]
  PROVE  CountsAreCurrent' /\ CountsGrow
<1>0. /\ lastId \in Nat /\ DOMAIN runs = 1..lastId
      /\ \A i \in 1..lastId : runs[i].retry_count \in Nat
  BY Zenon DEF RetryInv, SchedTypeOK, StoreTypeOK, Rows
<1>1. CountsGrow
  BY <1>0 DEF CountsGrow
<1>2. ASSUME NEW w \in Workers, claim'[w] \notin broken' \cup {0}
      PROVE  Current(w)'
  <2>1. /\ claim'[w] = claim[w] /\ pc'[w] = pc[w]
        /\ snap'[w] = snap[w] /\ wbsnap'[w] = wbsnap[w]
    BY <1>2, Zenon
  <2>2. claim[w] \in 1..lastId \ broken'
    BY <1>2, <2>1, HeldInTable, Zenon DEF RetryInv
  <2>3. Current(w)
    BY <1>2, <2>1, Zenon DEF RetryInv, CountsAreCurrent
  <2> QED BY <2>1, <2>2, <2>3, Zenon DEF Current
<1> QED BY <1>1, <1>2, Zenon DEF CountsAreCurrent

\* What a goroutine's step does to the run it has, if that is still its own,
\* and to the other goroutines.
OwnStep(w) ==
  /\ UNCHANGED <<lastId, broken>>
  /\ \A i \in 1..lastId : i # claim[w] => runs'[i] = runs[i]
  /\ \A v \in Workers : v # w =>
       \/ claim'[v] = 0
       \/ /\ claim'[v] = claim[v] /\ pc'[v] = pc[v]
          /\ snap'[v] = snap[v] /\ wbsnap'[v] = wbsnap[v]
  /\ claim'[w] \in {0, claim[w]}
  /\ Current(w) =>
       /\ runs'[claim[w]].retry_count >= runs[claim[w]].retry_count
       /\ claim'[w] = 0 \/ Current(w)'

\* Such a step leaves all counts current: the run it writes is held by no
\* other goroutine, or was taken away.
LEMMA OwnStepKeepsCounts ==
  ASSUME RetryInv, NEW w \in Workers, claim[w] # 0, OwnStep(w)
  PROVE  CountsAreCurrent' /\ CountsGrow
<1>0. /\ lastId \in Nat /\ DOMAIN runs = 1..lastId
      /\ \A i \in 1..lastId : runs[i].retry_count \in Nat
  BY Zenon DEF RetryInv, SchedTypeOK, StoreTypeOK, Rows
<1>1. CountsGrow
  <2> SUFFICES ASSUME NEW i \in 1..lastId, i \notin broken
               PROVE  runs'[i].retry_count >= runs[i].retry_count
    BY <1>0, Zenon DEF CountsGrow, OwnStep
  <2>1. CASE i = claim[w]
    BY <2>1, Zenon DEF OwnStep, RetryInv, CountsAreCurrent
  <2>2. CASE i # claim[w]
    BY <1>0, <2>2 DEF OwnStep
  <2> QED BY <2>1, <2>2, Zenon
<1>2. ASSUME NEW v \in Workers, claim'[v] \notin broken' \cup {0}
      PROVE  Current(v)'
  <2>1. CASE v = w
    <3>1. CASE claim[w] \in broken
      BY <1>2, <2>1, <3>1, Zenon DEF OwnStep, RetryInv, CountsAreCurrent
    <3>2. CASE claim[w] \notin broken
      BY <1>2, <2>1, <3>2, Zenon DEF OwnStep, RetryInv, CountsAreCurrent
    <3> QED BY <3>1, <3>2, Zenon
  <2>2. CASE v # w
    <3>1. /\ claim'[v] = claim[v] /\ pc'[v] = pc[v] /\ claim[v] \notin broken
          /\ snap'[v] = snap[v] /\ wbsnap'[v] = wbsnap[v]
      BY <1>2, <2>2, Zenon DEF OwnStep
    <3>2. claim[v] \in 1..lastId
      BY <1>2, <3>1, HeldInTable, Zenon DEF RetryInv
    <3>3. claim[v] # claim[w]
      BY <1>2, <2>2, <3>1, Zenon DEF RetryInv, Exclusive, OneWorkerPerRun
    <3>4. runs'[claim[v]] = runs[claim[v]]
      BY <3>2, <3>3, Zenon DEF OwnStep
    <3>5. Current(v)
      BY <1>2, <3>1, Zenon DEF RetryInv, CountsAreCurrent
    <3> QED BY <3>1, <3>4, <3>5, Zenon DEF Current
  <2> QED BY <2>1, <2>2, Zenon
<1> QED BY <1>1, <1>2, Zenon DEF CountsAreCurrent

\* Statements and retry_count: the reaper and the scheduling of a retry count
\* up, the failure writes store what they are given.
LEMMA StatementCounts ==
  ASSUME NEW row \in Rows
  PROVE  /\ \A p : ClaimReviewRun(row, p).retry_count = row.retry_count
         /\ \A s : UpdateReviewRunStatus(row, s, "").retry_count = row.retry_count
         /\ UpdateReviewRunCompletedIfRunning(row).retry_count = row.retry_count
         /\ \A n : MarkReviewRunRetryableFailureIfRunning(row, n).retry_count =
                    IF row.status = "running" THEN n ELSE row.retry_count
         /\ \A n : MarkReviewRunFailedIfRunning(row, n).retry_count
                    \in {n, row.retry_count}
         /\ ReapStaleRunningRuns(row).retry_count >= row.retry_count
         /\ ~(row.status = "running" /\ row.claimed_at = "stale") =>
              ReapStaleRunningRuns(row) = row
         /\ [row EXCEPT !.claimed_at = "stale"].retry_count = row.retry_count
         /\ [row EXCEPT !.next_retry_at = "due"].retry_count = row.retry_count
<1> USE DEF Rows
<1>1. \A p : ClaimReviewRun(row, p).retry_count = row.retry_count
  BY Zenon DEF ClaimReviewRun
<1>2. \A s : UpdateReviewRunStatus(row, s, "").retry_count = row.retry_count
  BY Zenon DEF UpdateReviewRunStatus
<1>3. UpdateReviewRunCompletedIfRunning(row).retry_count = row.retry_count
  BY Zenon DEF UpdateReviewRunCompletedIfRunning
<1>4. \A n : MarkReviewRunRetryableFailureIfRunning(row, n).retry_count =
              IF row.status = "running" THEN n ELSE row.retry_count
  BY Zenon DEF MarkReviewRunRetryableFailureIfRunning
<1>5. \A n : MarkReviewRunFailedIfRunning(row, n).retry_count
              \in {n, row.retry_count}
  BY Zenon DEF MarkReviewRunFailedIfRunning
<1>6. /\ ReapStaleRunningRuns(row).retry_count >= row.retry_count
      /\ ~(row.status = "running" /\ row.claimed_at = "stale") =>
           ReapStaleRunningRuns(row) = row
  BY DEF ReapStaleRunningRuns
<1>7. /\ [row EXCEPT !.claimed_at = "stale"].retry_count = row.retry_count
      /\ [row EXCEPT !.next_retry_at = "due"].retry_count = row.retry_count
  BY Zenon
<1> QED BY <1>1, <1>2, <1>3, <1>4, <1>5, <1>6, <1>7, Zenon

\* Every step of a busy goroutine is an own step.
LEMMA WorkerOwnStep ==
  ASSUME SchedTypeOK, NEW w \in Workers, WorkerStep(w)
  PROVE  claim[w] # 0 /\ OwnStep(w)
<1>0. /\ lastId \in Nat /\ runs \in [1..lastId -> Rows] /\ DOMAIN runs = 1..lastId
      /\ pc \in [Workers -> Labels] /\ claim \in [Workers -> 0..lastId]
      /\ snap \in [Workers -> Nat] /\ wbsnap \in [Workers -> Nat]
  BY Zenon DEF SchedTypeOK, StoreTypeOK
<1>1. /\ pc[w] \notin {"down", "idle"} /\ UNCHANGED <<lastId, broken>>
  BY Zenon DEF WorkerStep, ReloadRunningRun, PublishInProgressStatus,
     CheckCancelled, PersistReviewResult, ProcessPlain, ProcessFails,
     LoadForWriteback, WritebackSucceeds, WritebackFails, FinishParserError,
     WriteParserError, PublishGateResult, CompleteRun, ScheduleRetry, FailRun,
     PublishFailedStatus, HandleSkippedTerminalWrite
<1>2. claim[w] # 0
  BY <1>1, Zenon DEF SchedTypeOK
<1> SUFFICES OwnStep(w)
  BY <1>2, Zenon
<1>3. claim[w] \in 1..lastId /\ runs[claim[w]] \in Rows
  BY <1>0, <1>2, HeldInTable, Zenon
<1>4. runs[claim[w]].retry_count \in Nat
  BY <1>3, Zenon DEF Rows
<1>s. ASSUME NEW row, SetRow(claim[w], row)
      PROVE  /\ runs'[claim[w]] = row
             /\ \A i \in 1..lastId : i # claim[w] => runs'[i] = runs[i]
  BY <1>0, <1>3, <1>s, Zenon DEF SetRow
<1>l. ASSUME NEW group, NEW label, Leave(group, label), w \in group
      PROVE  /\ claim'[w] = 0
             /\ \A v \in Workers : v # w =>
                  \/ claim'[v] = 0
                  \/ /\ claim'[v] = claim[v] /\ pc'[v] = pc[v]
                     /\ snap'[v] = snap[v] /\ wbsnap'[v] = wbsnap[v]
  BY <1>l, Zenon DEF Leave
<1>g. w \in GroupOf(ProcessOf[w])
  BY Zenon DEF GroupOf
<1>m. ASSUME NEW label, pc' = [pc EXCEPT ![w] = label], UNCHANGED claim,
             \A v \in Workers : v # w => snap'[v] = snap[v] /\ wbsnap'[v] = wbsnap[v]
      PROVE  /\ pc'[w] = label /\ claim'[w] = claim[w]
             /\ \A v \in Workers : v # w =>
                  /\ claim'[v] = claim[v] /\ pc'[v] = pc[v]
                  /\ snap'[v] = snap[v] /\ wbsnap'[v] = wbsnap[v]
  BY <1>0, <1>m, Zenon
\* Steps that return.
<1>5. ASSUME \E group, label : Leave(group, label) /\ w \in group,
             UNCHANGED runs
      PROVE  OwnStep(w)
  BY <1>1, <1>4, <1>5, <1>l DEF OwnStep
\* Steps that go on without reading or writing a count.
<1>6. ASSUME NEW label, label # "writeback", pc[w] # "claimed",
             pc' = [pc EXCEPT ![w] = label], UNCHANGED <<claim, snap, wbsnap>>,
             \/ UNCHANGED runs
             \/ \E row : /\ SetRow(claim[w], row)
                         /\ Current(w) =>
                              row.retry_count = runs[claim[w]].retry_count
      PROVE  OwnStep(w)
  <2>1. /\ pc'[w] = label /\ claim'[w] = claim[w]
        /\ \A v \in Workers : v # w =>
             /\ claim'[v] = claim[v] /\ pc'[v] = pc[v]
             /\ snap'[v] = snap[v] /\ wbsnap'[v] = wbsnap[v]
    BY <1>6, <1>m, Zenon
  <2>2. /\ \A i \in 1..lastId : i # claim[w] => runs'[i] = runs[i]
        /\ Current(w) => runs'[claim[w]].retry_count = runs[claim[w]].retry_count
    BY <1>6, <1>s, Zenon DEF Current
  <2>3. Current(w) => Current(w)'
    BY <1>6, <2>1, <2>2, Zenon DEF Current
  <2> QED BY <1>1, <1>4, <2>1, <2>2, <2>3 DEF OwnStep
<1>7. CASE ReloadRunningRun(w)
  <2>1. CASE Return(w) \/ StopGroup(w)
    BY <1>5, <1>7, <1>g, <2>1, Zenon DEF ReloadRunningRun, Return, StopGroup
  <2>2. CASE /\ pc' = [pc EXCEPT ![w] = "announce"]
             /\ snap' = [snap EXCEPT ![w] = Row(w).retry_count]
             /\ UNCHANGED <<claim, wbsnap, outcome>>
    <3>1. UNCHANGED runs
      BY <1>7, Zenon DEF ReloadRunningRun
    <3>2. snap'[w] = runs[claim[w]].retry_count
      BY <1>0, <2>2, Zenon DEF Row
    <3>3. \A v \in Workers : v # w => snap'[v] = snap[v] /\ wbsnap'[v] = wbsnap[v]
      BY <1>0, <2>2, Zenon
    <3>4. /\ pc'[w] = "announce" /\ claim'[w] = claim[w]
          /\ \A v \in Workers : v # w =>
               /\ claim'[v] = claim[v] /\ pc'[v] = pc[v]
               /\ snap'[v] = snap[v] /\ wbsnap'[v] = wbsnap[v]
      BY <1>m, <2>2, <3>3, Zenon
    <3> QED BY <1>1, <1>4, <3>1, <3>2, <3>4 DEF OwnStep, Current
  <2> QED BY <1>7, <2>1, <2>2, Zenon DEF ReloadRunningRun
<1>8. CASE LoadForWriteback(w)
  <2>1. UNCHANGED <<runs, claim, snap>> /\ pc' = [pc EXCEPT ![w] = "writeback"]
        /\ wbsnap' = [wbsnap EXCEPT ![w] = Row(w).retry_count] /\ pc[w] = "load"
    BY <1>8, Zenon DEF LoadForWriteback
  <2>2. wbsnap'[w] = runs[claim[w]].retry_count
    BY <1>0, <2>1, Zenon DEF Row
  <2>3. \A v \in Workers : v # w => snap'[v] = snap[v] /\ wbsnap'[v] = wbsnap[v]
    BY <1>0, <2>1, Zenon
  <2>4. /\ pc'[w] = "writeback" /\ claim'[w] = claim[w]
        /\ \A v \in Workers : v # w =>
             /\ claim'[v] = claim[v] /\ pc'[v] = pc[v]
             /\ snap'[v] = snap[v] /\ wbsnap'[v] = wbsnap[v]
    BY <1>m, <2>1, <2>3, Zenon
  <2> QED BY <1>1, <1>4, <2>1, <2>2, <2>4 DEF OwnStep, Current
<1>9. CASE PublishInProgressStatus(w) \/ WritebackSucceeds(w) \/ PublishGateResult(w)
  BY <1>6, <1>9, Zenon DEF PublishInProgressStatus, WritebackSucceeds,
     PublishGateResult, Goto
<1>10. CASE CheckCancelled(w) \/ ProcessPlain(w)
  BY <1>6, <1>10, Zenon DEF CheckCancelled, ProcessPlain
<1>11. CASE ProcessFails(w)
  BY <1>6, <1>11, Zenon DEF ProcessFails, Goto
<1>12. CASE PersistReviewResult(w)
  <2>1. PICK final : SetRow(claim[w], UpdateReviewRunStatus(runs[claim[w]], final, ""))
    BY <1>12, Zenon DEF PersistReviewResult, Row
  <2>2. UpdateReviewRunStatus(runs[claim[w]], final, "").retry_count
          = runs[claim[w]].retry_count
    BY <1>3, StatementCounts, Zenon
  <2>3. /\ pc' = [pc EXCEPT ![w] = "load"] /\ UNCHANGED <<claim, snap, wbsnap>>
        /\ pc[w] # "claimed"
    BY <1>12, Zenon DEF PersistReviewResult
  <2> QED BY <1>6, <2>1, <2>2, <2>3, Zenon
<1>13. CASE WriteParserError(w)
  <2>1. SetRow(claim[w], UpdateReviewRunStatus(runs[claim[w]], "parser_error", ""))
    BY <1>13, Zenon DEF WriteParserError, Row
  <2>2. UpdateReviewRunStatus(runs[claim[w]], "parser_error", "").retry_count
          = runs[claim[w]].retry_count
    BY <1>3, StatementCounts, Zenon
  <2>3. /\ pc' = [pc EXCEPT ![w] = "publish_failed"]
        /\ UNCHANGED <<claim, snap, wbsnap>> /\ pc[w] # "claimed"
    BY <1>13, Zenon DEF WriteParserError, Goto
  <2> QED BY <1>6, <2>1, <2>2, <2>3, Zenon
<1>14. CASE WritebackFails(w)
  <2> DEFINE row == MarkReviewRunFailedIfRunning(runs[claim[w]], wbsnap[w])
  <2>1. SetRow(claim[w], row) \/ UNCHANGED runs
    BY <1>14, Zenon DEF WritebackFails, Row
  <2>2. row.retry_count \in {wbsnap[w], runs[claim[w]].retry_count}
    BY <1>3, StatementCounts, Zenon
  <2> HIDE DEF row
  <2>3. /\ pc' = [pc EXCEPT ![w] = "fail"] /\ UNCHANGED <<claim, snap, wbsnap>>
        /\ pc[w] = "writeback"
    BY <1>14, Zenon DEF WritebackFails, Goto
  <2>4. Current(w) => row.retry_count = runs[claim[w]].retry_count
    BY <2>2, <2>3, Zenon DEF Current
  <2> QED BY <1>6, <2>1, <2>3, <2>4, Zenon
<1>15. CASE FailRun(w)
  <2> DEFINE row == MarkReviewRunFailedIfRunning(runs[claim[w]], snap[w])
             label == IF Row(w).status = "running"
                      THEN "publish_failed" ELSE "skipped_failed"
  <2>1. SetRow(claim[w], row)
    BY <1>15, Zenon DEF FailRun, Row
  <2>2. row.retry_count \in {snap[w], runs[claim[w]].retry_count}
    BY <1>3, StatementCounts, Zenon
  <2> HIDE DEF row
  <2>3. /\ pc' = [pc EXCEPT ![w] = label] /\ UNCHANGED <<claim, snap, wbsnap>>
        /\ pc[w] = "fail"
    BY <1>15, Zenon DEF FailRun, Goto
  <2>4. Current(w) => row.retry_count = runs[claim[w]].retry_count
    BY <2>2, <2>3, Zenon DEF Current
  <2>5. label # "writeback"
    BY Zenon
  <2> HIDE DEF label
  <2> QED BY <1>6, <2>1, <2>3, <2>4, <2>5, Zenon
<1>16. CASE FinishParserError(w)
  BY <1>5, <1>6, <1>16, <1>g, Zenon DEF FinishParserError, Return, StopGroup, Goto
<1>17. CASE PublishFailedStatus(w) \/ HandleSkippedTerminalWrite(w)
  BY <1>5, <1>17, <1>g, Zenon DEF PublishFailedStatus, HandleSkippedTerminalWrite,
     Return, StopGroup
<1>18. CASE CompleteRun(w)
  <2>1. SetRow(claim[w], UpdateReviewRunCompletedIfRunning(runs[claim[w]]))
    BY <1>18, Zenon DEF CompleteRun, Row
  <2>2. CASE Return(w)
    <3> DEFINE row == UpdateReviewRunCompletedIfRunning(runs[claim[w]])
    <3>0. row.retry_count = runs[claim[w]].retry_count
      BY <1>3, StatementCounts, Zenon
    <3> HIDE DEF row
    <3>1. /\ runs'[claim[w]].retry_count = runs[claim[w]].retry_count
          /\ \A i \in 1..lastId : i # claim[w] => runs'[i] = runs[i]
      BY <1>s, <2>1, <3>0, Zenon DEF row
    <3> QED BY <1>1, <1>4, <1>l, <2>2, <3>1 DEF OwnStep, Return
  <2>3. CASE Goto(w, "skipped_completed")
    <3>1. UpdateReviewRunCompletedIfRunning(runs[claim[w]]).retry_count
            = runs[claim[w]].retry_count
      BY <1>3, StatementCounts, Zenon
    <3>2. /\ pc' = [pc EXCEPT ![w] = "skipped_completed"]
          /\ UNCHANGED <<claim, snap, wbsnap>> /\ pc[w] # "claimed"
      BY <1>18, <2>3, Zenon DEF CompleteRun, Goto
    <3> QED BY <1>6, <2>1, <3>1, <3>2, Zenon
  <2> QED BY <1>18, <2>2, <2>3, Zenon DEF CompleteRun
<1>19. CASE ScheduleRetry(w)
  <2> DEFINE row == MarkReviewRunRetryableFailureIfRunning(runs[claim[w]], snap[w] + 1)
  <2>1. SetRow(claim[w], row) /\ pc[w] = "fail_retry"
    BY <1>19, Zenon DEF ScheduleRetry, Row
  <2>2. row.retry_count = IF runs[claim[w]].status = "running"
                          THEN snap[w] + 1 ELSE runs[claim[w]].retry_count
    BY <1>3, StatementCounts, Zenon
  <2> HIDE DEF row
  <2>3. Current(w) => row.retry_count >= runs[claim[w]].retry_count
    <3>1. Current(w) => snap[w] = runs[claim[w]].retry_count
      BY <2>1, Zenon DEF Current
    <3> QED BY <1>4, <2>2, <3>1
  <2>4. CASE runs[claim[w]].status = "running"
    <3>1. Return(w)
      BY <1>19, <2>4, Zenon DEF ScheduleRetry, Row
    <3> QED BY <1>1, <1>l, <1>s, <2>1, <2>3, <3>1, Zenon DEF OwnStep, Return
  <2>5. CASE runs[claim[w]].status # "running"
    <3>1. Goto(w, "skipped_retry")
      BY <1>19, <2>5, Zenon DEF ScheduleRetry, Row
    <3> QED BY <1>6, <2>1, <2>2, <2>5, <3>1, Zenon DEF Goto
  <2> QED BY <2>4, <2>5, Zenon
<1> QED BY <1>2, <1>7, <1>8, <1>9, <1>10, <1>11, <1>12, <1>13, <1>14, <1>15,
           <1>16, <1>17, <1>18, <1>19 DEF WorkerStep

-----------------------------------------------------------------------------
(* Retries: the scheduler                                                  *)

\* Workers, the reaper, the clock and restarts.
LEMMA SchedCounts ==
  ASSUME RetryInv, [SchedNext]_schedAllVars
  PROVE  CountsAreCurrent' /\ CountsGrow
<1>0. /\ lastId \in Nat /\ runs \in [1..lastId -> Rows] /\ DOMAIN runs = 1..lastId
      /\ pc \in [Workers -> Labels] /\ claim \in [Workers -> 0..lastId]
      /\ SchedTypeOK
  BY Zenon DEF RetryInv, SchedTypeOK, StoreTypeOK
<1>n. \A i \in 1..lastId : runs[i] \in Rows /\ runs[i].retry_count \in Nat
  BY <1>0, Zenon DEF Rows
<1>1. ASSUME NEW w \in Workers, ClaimNextRun(w)
      PROVE  CountsAreCurrent' /\ CountsGrow
  <2>1. PICK i \in NextClaimable(runs) :
          /\ SetRow(i, ClaimReviewRun(runs[i], ProcessOf[w]))
          /\ claim' = [claim EXCEPT ![w] = i]
    BY <1>1, Zenon DEF ClaimNextRun
  <2>2. i \in 1..lastId
    BY <1>0, Zenon DEF NextClaimable
  <2>3. \A j \in 1..lastId : runs'[j].retry_count = runs[j].retry_count
    <3>1. ClaimReviewRun(runs[i], ProcessOf[w]).retry_count = runs[i].retry_count
      BY <1>n, <2>2, StatementCounts, Zenon
    <3>2. /\ runs'[i] = ClaimReviewRun(runs[i], ProcessOf[w])
          /\ \A j \in 1..lastId : j # i => runs'[j] = runs[j]
      BY <1>0, <2>1, <2>2, Zenon DEF SetRow
    <3> QED BY <3>1, <3>2, Zenon
  <2>4. pc' = [pc EXCEPT ![w] = "claimed"] /\ UNCHANGED <<snap, wbsnap, broken>>
    BY <1>1, Zenon DEF ClaimNextRun
  <2>5. CountsGrow
    BY <1>0, <1>n, <2>3 DEF CountsGrow
  <2>6. ASSUME NEW v \in Workers, claim'[v] \notin broken' \cup {0}
        PROVE  Current(v)'
    <3>1. CASE v = w
      BY <1>0, <2>4, <3>1, Zenon DEF Current
    <3>2. CASE v # w
      <4>1. claim'[v] = claim[v] /\ pc'[v] = pc[v]
        BY <1>0, <2>1, <2>4, <3>2, Zenon
      <4>2. claim[v] \in 1..lastId /\ Current(v)
        BY <1>0, <2>4, <2>6, <4>1, HeldInTable, Zenon DEF RetryInv, CountsAreCurrent
      <4> QED BY <2>3, <2>4, <4>1, <4>2, Zenon DEF Current
    <3> QED BY <3>1, <3>2, Zenon
  <2> QED BY <2>5, <2>6, Zenon DEF CountsAreCurrent
<1>2. ASSUME NEW w \in Workers, WorkerStep(w)
      PROVE  CountsAreCurrent' /\ CountsGrow
  BY <1>0, <1>2, WorkerOwnStep, OwnStepKeepsCounts, Zenon
<1>3. CASE ReapStaleRuns
  <2>1. /\ \A i \in 1..lastId : runs'[i] = ReapStaleRunningRuns(runs[i])
        /\ broken' = broken \cup {i \in 1..lastId : Stale(i) /\ Held(i)}
        /\ UNCHANGED <<pc, claim, snap, wbsnap>>
    BY <1>0, <1>3, Zenon DEF ReapStaleRuns, workerVars
  <2>2. CountsGrow
    <3>1. \A i \in 1..lastId :
            ReapStaleRunningRuns(runs[i]).retry_count >= runs[i].retry_count
      BY <1>n, StatementCounts, Zenon
    <3>2. \A i \in 1..lastId : runs'[i].retry_count >= runs[i].retry_count
      BY <2>1, <3>1, Zenon
    <3> QED BY <1>0, <3>2, Zenon DEF CountsGrow
  <2>3. ASSUME NEW w \in Workers, claim'[w] \notin broken' \cup {0}
        PROVE  Current(w)'
    <3>1. claim[w] \in 1..lastId /\ Held(claim[w]) /\ claim[w] \notin broken
      BY <1>0, <2>1, <2>3, HeldInTable, Zenon DEF Held
    <3>2. ~Stale(claim[w])
      BY <2>1, <2>3, <3>1, Zenon
    <3>3. runs'[claim[w]] = runs[claim[w]]
      BY <1>n, <2>1, <3>1, <3>2, StatementCounts, Zenon DEF Stale
    <3>4. Current(w)
      BY <2>3, <2>1, <3>1, Zenon DEF RetryInv, CountsAreCurrent
    <3> QED BY <2>1, <3>3, <3>4, Zenon DEF Current
  <2> QED BY <2>2, <2>3, Zenon DEF CountsAreCurrent
<1>4. ASSUME NEW i \in DOMAIN runs, RetryFallsDue(i) \/ ClaimTimesOut(i)
      PROVE  CountsAreCurrent' /\ CountsGrow
  <2>1. PICK row : SetRow(i, row) /\ row.retry_count = runs[i].retry_count
    BY <1>0, <1>n, <1>4, StatementCounts, Zenon DEF RetryFallsDue, ClaimTimesOut
  <2>2. \A j \in 1..lastId : runs'[j].retry_count = runs[j].retry_count
    BY <1>0, <2>1, Zenon DEF SetRow
  <2>3. UNCHANGED <<pc, claim, snap, wbsnap, broken>>
    BY <1>4, Zenon DEF RetryFallsDue, ClaimTimesOut, schedVars, workerVars
  <2> QED BY <2>2, <2>3, SameCounts, Zenon
<1>5. ASSUME NEW p \in Processes, ProcessStops(p) \/ ProcessStarts(p)
      PROVE  CountsAreCurrent' /\ CountsGrow
  <2>1. UNCHANGED <<runs, broken>> /\ \E label : Leave(GroupOf(p), label)
    BY <1>5, Zenon DEF ProcessStops, ProcessStarts
  <2>2. \A w \in Workers :
          \/ claim'[w] = 0
          \/ /\ claim'[w] = claim[w] /\ pc'[w] = pc[w]
             /\ snap'[w] = snap[w] /\ wbsnap'[w] = wbsnap[w]
    BY <2>1, Zenon DEF Leave
  <2> QED BY <2>1, <2>2, SameCounts, Zenon
<1>6. CASE UNCHANGED schedAllVars
  <2>1. UNCHANGED <<runs, pc, claim, snap, wbsnap, broken>>
    BY <1>6, Zenon DEF schedAllVars, schedVars, workerVars
  <2> QED BY <2>1, SameCounts, Zenon
<1> QED BY <1>1, <1>2, <1>3, <1>4, <1>5, <1>6, Zenon DEF SchedNext

-----------------------------------------------------------------------------
(* Retries: webhooks and operators                                         *)

\* A table that grows at its end and whose rows keep their counts.
LEMMA OutsideCounts ==
  ASSUME RetryInv, UNCHANGED workerVars, broken \subseteq broken',
         \A i \in 1..lastId : runs'[i].retry_count = runs[i].retry_count
  PROVE  CountsAreCurrent' /\ CountsGrow
BY SameCounts, Zenon DEF workerVars

\* The statements of operators leave the count alone.
LEMMA OtherStatementCounts ==
  ASSUME NEW row \in Rows
  PROVE  /\ RetryReviewRunNow(row).retry_count = row.retry_count
         /\ CancelReviewRun(row).retry_count = row.retry_count
         /\ RequeueReviewRun(row).retry_count = row.retry_count
BY Zenon DEF Rows, RetryReviewRunNow, CancelReviewRun, RequeueReviewRun

\* An INSERT leaves the rows before it alone.
LEMMA InsertedPrefix ==
  ASSUME lastId \in Nat, NEW table, NEW row, NEW i \in 1..lastId
  PROVE  Inserted(table, lastId, row)[i] = table[i]
BY DEF Inserted

\* Operators.
LEMMA AdminCounts ==
  ASSUME RetryInv, AdminTypeOK, AdminStep
  PROVE  CountsAreCurrent' /\ CountsGrow
<1>0. lastId \in Nat /\ runs \in [1..lastId -> Rows]
  BY Zenon DEF RetryInv, SchedTypeOK, StoreTypeOK
<1>1. ASSUME NEW o \in Operators, AdminCheck(o)
      PROVE  CountsAreCurrent' /\ CountsGrow
  <2>1. UNCHANGED <<runs, workerVars, broken>>
    BY <1>1, Zenon DEF AdminCheck, schedAllVars, schedVars
  <2> QED BY <2>1, OutsideCounts, Zenon
<1>2. ASSUME NEW o \in Operators, AdminWrite(o)
      PROVE  CountsAreCurrent' /\ CountsGrow
  <2> DEFINE k == request[o].run
  <2>1. k \in 1..lastId
    <3>1. k \in 0..lastId /\ k # 0
      BY <1>2, Zenon DEF AdminTypeOK, AdminWrite
    <3> QED BY <1>0, <3>1
  <2>2. UNCHANGED workerVars /\ broken \subseteq broken'
    BY <1>2, Zenon DEF AdminWrite
  <2>3. \/ \E row : runs' = Inserted(runs, lastId, row)
        \/ \E row \in {RetryReviewRunNow(runs[k]), CancelReviewRun(runs[k]),
                       RequeueReviewRun(runs[k])} : SetRow(k, row)
    BY <1>2, Zenon DEF AdminWrite
  <2>4. CASE \E row : runs' = Inserted(runs, lastId, row)
    BY <1>0, <2>2, <2>4, InsertedPrefix, OutsideCounts
  <2>5. CASE \E row \in {RetryReviewRunNow(runs[k]), CancelReviewRun(runs[k]),
                         RequeueReviewRun(runs[k])} : SetRow(k, row)
    <3>1. PICK row : SetRow(k, row) /\ row.retry_count = runs[k].retry_count
      BY <1>0, <2>1, <2>5, OtherStatementCounts, Zenon
    <3>2. \A j \in 1..lastId : runs'[j].retry_count = runs[j].retry_count
      BY <1>0, <2>1, <3>1, Zenon DEF SetRow
    <3> QED BY <2>2, <3>2, OutsideCounts, Zenon
  <2> QED BY <2>3, <2>4, <2>5, Zenon
<1> QED BY <1>1, <1>2, Zenon DEF AdminStep

\* Deliveries.
LEMMA IntakeCounts ==
  ASSUME RetryInv, IntakeStep, UNCHANGED schedVars
  PROVE  CountsAreCurrent' /\ CountsGrow
<1>0. StoreTypeOK /\ \A i \in 1..lastId : runs[i] \in Rows
  BY Zenon DEF RetryInv, SchedTypeOK, StoreTypeOK
<1>1. UNCHANGED workerVars /\ broken \subseteq broken'
  BY Zenon DEF schedVars
<1> QED BY <1>0, <1>1, IntakeRows, WebhookStepColumns, OutsideCounts, Zenon

-----------------------------------------------------------------------------
(* Retries: the service                                                    *)

\* Every step of the service.
LEMMA ServiceCounts ==
  ASSUME ServiceInv, CountsAreCurrent, [Next]_vars
  PROVE  CountsAreCurrent' /\ CountsGrow
<1>0. RetryInv /\ AdminTypeOK
  BY Zenon DEF RetryInv, ServiceInv, SchedInv
<1>1. CASE SchedNext
  BY <1>0, <1>1, SchedCounts, Zenon
<1>2. CASE AdminStep
  BY <1>0, <1>2, AdminCounts, Zenon
<1>3. CASE IntakeStep /\ UNCHANGED <<schedVars, adminVars>>
  BY <1>0, <1>3, IntakeCounts, Zenon
<1>4. CASE UNCHANGED vars
  <2>1. UNCHANGED schedAllVars
    BY <1>4, Zenon DEF vars
  <2> QED BY <1>0, <2>1, SchedCounts, Zenon
<1> QED BY <1>1, <1>2, <1>3, <1>4, Zenon DEF Next

\* The retries a run has used up are never given back, by no worker however
\* late, no reaper, no webhook and no operator, unless the run was taken from
\* its worker.
THEOREM ServiceRetryCountNeverFalls == Spec => RetryCountNeverFalls
<1>1. Init => CountsAreCurrent
  BY Zenon DEF Init, SchedInit, CountsAreCurrent
<1>2. ServiceInv /\ CountsAreCurrent /\ [Next]_vars => CountsAreCurrent'
  BY ServiceCounts, Zenon
<1>3. ServiceInv /\ CountsAreCurrent /\ [Next]_vars =>
        [\A i \in DOMAIN runs \ broken' :
           runs'[i].retry_count >= runs[i].retry_count]_schedAllVars
  BY ServiceCounts DEF CountsGrow
<1> QED BY <1>1, <1>2, <1>3, ServiceInvariant, PTL DEF Spec, RetryCountNeverFalls

-----------------------------------------------------------------------------
(* Verdicts                                                                *)

\* What a goroutine that is about to mark its run completed has done, or seen.
\* Only the llm processor looks for cancellations.
Judged(w) ==
  /\ pc[w] = "complete" => claim[w] \in gated \/ outcome[w] = "cancelled"
  /\ outcome[w] = "cancelled" =>
       Processor = "llm" /\ claim[w] # 0 /\ ~Active(runs[claim[w]])

VerdictInv == CompletedRunsHaveVerdict /\ \A w \in Workers : Judged(w)

\* completed_at is set by the completion of a running run only.
LEMMA CompletionColumn ==
  ASSUME NEW row \in Rows, NEW new, RowStep(row, new),
         ~(row.status = "running" /\ new = UpdateReviewRunCompletedIfRunning(row))
  PROVE  new.completed_at = row.completed_at
<1> USE DEF Rows
<1>1. CASE \E p \in Processes : new = ClaimReviewRun(row, p)
  BY <1>1, Zenon DEF ClaimReviewRun
<1>2. CASE \E s \in FinalStatuses : new = UpdateReviewRunStatus(row, s, "")
  BY <1>2, Zenon DEF UpdateReviewRunStatus
<1>3. CASE \E n \in Nat : \/ new = MarkReviewRunRetryableFailureIfRunning(row, n)
                          \/ new = MarkReviewRunFailedIfRunning(row, n)
  BY <1>3, Zenon
     DEF MarkReviewRunRetryableFailureIfRunning, MarkReviewRunFailedIfRunning
<1>4. CASE \/ new = UpdateReviewRunCompletedIfRunning(row)
           \/ new = ReapStaleRunningRuns(row)
  BY <1>4, Zenon DEF UpdateReviewRunCompletedIfRunning, ReapStaleRunningRuns
<1>5. CASE \/ new = [row EXCEPT !.claimed_at = "stale"]
           \/ new = [row EXCEPT !.next_retry_at = "due"]
  BY <1>5, Zenon
<1> QED BY <1>1, <1>2, <1>3, <1>4, <1>5, Zenon DEF RowStep

\* A step of a goroutine publishes a verdict before it goes on to the
\* completion, and learns of a cancellation only from the row.
LEMMA WorkerJudges ==
  ASSUME SchedTypeOK, \A v \in Workers : Judged(v), NEW w \in Workers, WorkerStep(w),
         NEW v \in Workers
  PROVE  /\ gated \subseteq gated'
         /\ pc'[v] = "complete" => claim'[v] \in gated' \/ outcome'[v] = "cancelled"
         /\ outcome'[v] = "cancelled" =>
              /\ claim'[v] = claim[v] /\ claim[v] # 0
              /\ Processor = "llm" /\ ~Active(runs[claim[v]])
<1>0. /\ pc \in [Workers -> Labels]
      /\ outcome \in [Workers -> FinalStatuses \cup {"", "cancelled"}]
      /\ \A u \in Workers : pc[u] \in {"down", "idle"} <=> claim[u] = 0
  BY Zenon DEF SchedTypeOK
<1>j. Judged(v)
  BY Zenon
<1> DEFINE Goal ==
      /\ gated \subseteq gated'
      /\ pc'[v] = "complete" => claim'[v] \in gated' \/ outcome'[v] = "cancelled"
      /\ outcome'[v] = "cancelled" =>
           /\ claim'[v] = claim[v] /\ claim[v] # 0
           /\ Processor = "llm" /\ ~Active(runs[claim[v]])
<1> SUFFICES Goal
  BY Zenon
<1>l. ASSUME NEW group, NEW label \in {"idle", "down"}, Leave(group, label),
             UNCHANGED gated
      PROVE  Goal
  BY <1>j, <1>l, Zenon DEF Leave, Judged
<1>m. ASSUME NEW label, label # "complete", pc' = [pc EXCEPT ![w] = label],
             UNCHANGED <<claim, gated>>,
             \/ UNCHANGED outcome
             \/ \E o \in FinalStatuses : outcome' = [outcome EXCEPT ![w] = o]
      PROVE  Goal
  BY <1>0, <1>j, <1>m, Zenon DEF Judged, FinalStatuses
<1>1. CASE ReloadRunningRun(w)
  BY <1>l, <1>m, <1>1, Zenon DEF ReloadRunningRun, Return, StopGroup
<1>2. CASE PublishInProgressStatus(w) \/ WritebackSucceeds(w) \/ WritebackFails(w)
  BY <1>m, <1>2, Zenon
     DEF PublishInProgressStatus, WritebackSucceeds, WritebackFails, Goto
<1>3. CASE CheckCancelled(w)
  <2>1. /\ Processor = "llm" /\ pc[w] = "processing" /\ claim[w] # 0
        /\ UNCHANGED <<runs, claim, gated>>
    BY <1>0, <1>3, Zenon DEF CheckCancelled
  <2>2. CASE /\ Row(w).status = "cancelled" /\ pc' = [pc EXCEPT ![w] = "load"]
             /\ outcome' = [outcome EXCEPT ![w] = "cancelled"]
    <3>1. ~Active(runs[claim[w]])
      BY <2>2, Zenon DEF Active, Row
    <3> QED BY <1>0, <1>j, <2>1, <2>2, <3>1, Zenon DEF Judged
  <2>3. CASE pc' = [pc EXCEPT ![w] = "persist"] /\ UNCHANGED outcome
    BY <1>m, <2>1, <2>3, Zenon
  <2> QED BY <1>3, <2>2, <2>3, Zenon DEF CheckCancelled
<1>4. CASE PersistReviewResult(w) \/ ProcessPlain(w) \/ LoadForWriteback(w)
  BY <1>m, <1>4, Zenon
     DEF PersistReviewResult, ProcessPlain, LoadForWriteback, FinalStatuses
<1>5. CASE ProcessFails(w) \/ FailRun(w) \/ WriteParserError(w)
  BY <1>m, <1>5, Zenon DEF ProcessFails, FailRun, WriteParserError, Goto
<1>6. CASE FinishParserError(w)
  BY <1>l, <1>m, <1>6, Zenon DEF FinishParserError, Return, StopGroup, Goto
<1>7. CASE PublishGateResult(w)
  <2>1. /\ pc' = [pc EXCEPT ![w] = "complete"] /\ UNCHANGED <<claim, outcome>>
        /\ gated \subseteq gated'
        /\ claim[w] \in gated' \/ outcome[w] = "cancelled"
    BY <1>7, Zenon DEF PublishGateResult, Goto
  <2> QED BY <1>0, <1>j, <2>1, Zenon DEF Judged
<1>8. CASE CompleteRun(w) \/ ScheduleRetry(w)
  BY <1>l, <1>m, <1>8, Zenon DEF CompleteRun, ScheduleRetry, Return, Goto
<1>9. CASE PublishFailedStatus(w) \/ HandleSkippedTerminalWrite(w)
  BY <1>l, <1>9, Zenon
     DEF PublishFailedStatus, HandleSkippedTerminalWrite, Return, StopGroup
<1> QED BY <1>1, <1>2, <1>3, <1>4, <1>5, <1>6, <1>7, <1>8, <1>9, Zenon
           DEF WorkerStep

\* Steps of the scheduler.
LEMMA SchedJudges ==
  ASSUME SchedTypeOK, VerdictInv, [SchedNext]_schedAllVars
  PROVE  VerdictInv'
<1>0. /\ lastId \in Nat /\ runs \in [1..lastId -> Rows] /\ DOMAIN runs = 1..lastId
      /\ pc \in [Workers -> Labels] /\ claim \in [Workers -> 0..lastId]
      /\ \A v \in Workers : pc[v] \in {"down", "idle"} <=> claim[v] = 0
  BY Zenon DEF SchedTypeOK, StoreTypeOK
<1>j. \A v \in Workers : Judged(v)
  BY Zenon DEF VerdictInv
<1>r. lastId' = lastId /\ \A i \in 1..lastId : RowStep(runs[i], runs'[i])
  BY SchedRowSteps, Zenon
<1>a. \A i \in 1..lastId : ~Active(runs[i]) => ~Active(runs'[i])
  BY <1>0, <1>r, RowStepKeepsSettled, Zenon
<1>d. DOMAIN runs' = 1..lastId
  <2>1. SchedTypeOK'
    BY SchedTypeStep, Zenon
  <2> QED BY <1>r, <2>1, Zenon DEF SchedTypeOK, StoreTypeOK
<1>1. ASSUME gated \subseteq gated',
             \A i \in 1..lastId :
               \/ i \in gated
               \/ ~(/\ runs[i].status = "running"
                    /\ runs'[i] = UpdateReviewRunCompletedIfRunning(runs[i]))
      PROVE  CompletedRunsHaveVerdict'
  <2>1. ASSUME NEW i \in 1..lastId, runs'[i].completed_at PROVE i \in gated'
    BY <1>0, <1>1, <1>r, <2>1, CompletionColumn, Zenon
       DEF VerdictInv, CompletedRunsHaveVerdict
  <2> QED BY <1>d, <2>1, Zenon DEF CompletedRunsHaveVerdict
<1>2. ASSUME NEW v \in Workers,
             gated \subseteq gated',
             pc'[v] = "complete" => claim'[v] \in gated' \/ outcome'[v] = "cancelled",
             outcome'[v] = "cancelled" =>
               /\ claim'[v] = claim[v] /\ claim[v] # 0
               /\ Processor = "llm" /\ ~Active(runs[claim[v]])
      PROVE  Judged(v)'
  <2>1. claim[v] # 0 => claim[v] \in 1..lastId
    BY HeldInTable, Zenon
  <2> QED BY <1>2, <1>a, <2>1, Zenon DEF Judged
<1>3. ASSUME UNCHANGED gated,
             \A i \in 1..lastId :
               ~(/\ runs[i].status = "running"
                 /\ runs'[i] = UpdateReviewRunCompletedIfRunning(runs[i])),
             \A v \in Workers :
               \/ pc'[v] # "complete" /\ outcome'[v] # "cancelled"
               \/ pc'[v] = pc[v] /\ claim'[v] = claim[v] /\ outcome'[v] = outcome[v]
      PROVE  VerdictInv'
  BY <1>1, <1>2, <1>3, <1>j, Zenon DEF VerdictInv, Judged
<1>c. ASSUME NEW i \in 1..lastId, runs[i].status = "running",
             runs'[i] = UpdateReviewRunCompletedIfRunning(runs[i])
      PROVE  runs'[i].status = "completed"
  BY <1>0, <1>c, Zenon DEF UpdateReviewRunCompletedIfRunning, Rows
<1>4. ASSUME NEW w \in Workers, ClaimNextRun(w) PROVE VerdictInv'
  <2>1. PICK k \in NextClaimable(runs) :
          /\ SetRow(k, ClaimReviewRun(runs[k], ProcessOf[w]))
          /\ claim' = [claim EXCEPT ![w] = k]
    BY <1>4, Zenon DEF ClaimNextRun
  <2>2. /\ pc' = [pc EXCEPT ![w] = "claimed"] /\ UNCHANGED <<gated, outcome>>
        /\ claim[w] = 0
    BY <1>0, <1>4, Zenon DEF ClaimNextRun
  <2>3. ClaimReviewRun(runs[k], ProcessOf[w]).status = "running" /\ k \in 1..lastId
    BY <1>0, ZenonT(60) DEF NextClaimable, ClaimReviewRun, Rows
  <2>4. \A i \in 1..lastId : runs'[i] = runs[i] \/ runs'[i].status = "running"
    BY <1>0, <2>1, <2>3, Zenon DEF SetRow
  <2>5. \A i \in 1..lastId :
          ~(/\ runs[i].status = "running"
            /\ runs'[i] = UpdateReviewRunCompletedIfRunning(runs[i]))
    BY <1>c, <2>4, Zenon
  <2>6. outcome[w] # "cancelled"
    BY <1>j, <2>2, Zenon DEF Judged
  <2>7. \A v \in Workers :
          \/ pc'[v] # "complete" /\ outcome'[v] # "cancelled"
          \/ pc'[v] = pc[v] /\ claim'[v] = claim[v] /\ outcome'[v] = outcome[v]
    BY <1>0, <2>1, <2>2, <2>6, Zenon
  <2> QED BY <1>3, <2>2, <2>5, <2>7, Zenon
<1>5. ASSUME NEW w \in Workers, WorkerStep(w) PROVE VerdictInv'
  <2>1. \A v \in Workers : Judged(v)'
    BY <1>2, <1>5, <1>j, WorkerJudges, Zenon
  <2>2. gated \subseteq gated'
    BY <1>5, <1>j, WorkerJudges, Zenon
  <2>3. ASSUME NEW i \in 1..lastId, runs[i].status = "running",
               runs'[i] = UpdateReviewRunCompletedIfRunning(runs[i])
        PROVE  i \in gated
    <3>1. runs'[i].status = "completed"
      BY <1>c, <2>3, Zenon
    <3>2. claim[w] = i
      BY <1>5, <2>3, <3>1, WorkerOwnStep, Zenon DEF OwnStep
    <3>3. CASE CompleteRun(w)
      <4>1. pc[w] = "complete" /\ Active(runs[i])
        BY <2>3, <3>3, Zenon DEF CompleteRun, Active
      <4> QED BY <1>j, <3>2, <4>1, Zenon DEF Judged
    <3>4. CASE PersistReviewResult(w) \/ WriteParserError(w)
      <4>1. PICK s \in FinalStatuses : runs'[i] = UpdateReviewRunStatus(runs[i], s, "")
        BY <1>0, <3>2, <3>4, Zenon DEF PersistReviewResult, WriteParserError,
           SetRow, Row,
           FinalStatuses
      <4>2. runs'[i].completed_at = runs[i].completed_at
        BY <1>0, <4>1 DEF UpdateReviewRunStatus, Rows
      <4>3. runs'[i].completed_at
        BY <1>0, <2>3, Zenon DEF UpdateReviewRunCompletedIfRunning, Rows
      <4> QED BY <1>0, <4>2, <4>3, Zenon DEF VerdictInv, CompletedRunsHaveVerdict
    <3>5. CASE WritebackFails(w) \/ FailRun(w)
      <4>1. \/ runs'[i] = runs[i]
            \/ \E n : runs'[i] = MarkReviewRunFailedIfRunning(runs[i], n)
        BY <1>0, <3>2, <3>5, Zenon DEF WritebackFails, FailRun, SetRow, Row
      <4>2. \A n : MarkReviewRunFailedIfRunning(runs[i], n).status # "completed"
        BY <1>0, <2>3, ZenonT(60) DEF MarkReviewRunFailedIfRunning, Rows
      <4> QED BY <2>3, <3>1, <4>1, <4>2, Zenon
    <3>6. CASE ScheduleRetry(w)
      <4>1. \E n : runs'[i] = MarkReviewRunRetryableFailureIfRunning(runs[i], n)
        BY <1>0, <3>2, <3>6, Zenon DEF ScheduleRetry, SetRow, Row
      <4>2. \A n : MarkReviewRunRetryableFailureIfRunning(runs[i], n).status
                     # "completed"
        BY <1>0, <2>3, Zenon DEF MarkReviewRunRetryableFailureIfRunning, Rows
      <4> QED BY <3>1, <4>1, <4>2, Zenon
    <3>7. CASE UNCHANGED runs
      BY <2>3, <3>1, <3>7, Zenon
    <3> QED BY <1>5, <3>3, <3>4, <3>5, <3>6, <3>7, ZenonT(60)
         DEF WorkerStep, ReloadRunningRun, PublishInProgressStatus, CheckCancelled,
             ProcessPlain, ProcessFails,
         LoadForWriteback, WritebackSucceeds, FinishParserError,
         PublishGateResult, PublishFailedStatus, HandleSkippedTerminalWrite
  <2>4. CompletedRunsHaveVerdict'
    BY <1>1, <2>2, <2>3, Zenon
  <2> QED BY <2>1, <2>4, Zenon DEF VerdictInv
<1>6. CASE ReapStaleRuns
  <2>1. \A i \in 1..lastId : runs'[i] = ReapStaleRunningRuns(runs[i])
    BY <1>0, <1>6, Zenon DEF ReapStaleRuns
  <2>2. \A i \in 1..lastId :
          runs[i].status = "running" => runs'[i].status # "completed"
    BY <1>0, <2>1, Zenon DEF ReapStaleRunningRuns, Rows
  <2>3. UNCHANGED <<gated, pc, claim, outcome>>
    BY <1>6, Zenon DEF ReapStaleRuns, workerVars
  <2> QED BY <1>3, <1>c, <2>2, <2>3, Zenon
<1>7. ASSUME NEW k \in DOMAIN runs, RetryFallsDue(k) \/ ClaimTimesOut(k)
      PROVE  VerdictInv'
  <2>1. \A i \in 1..lastId : runs'[i].status = runs[i].status
    <3>1. PICK row : SetRow(k, row) /\ row.status = runs[k].status
      BY <1>0, <1>7 DEF RetryFallsDue, ClaimTimesOut, Rows
    <3> QED BY <1>0, <3>1, Zenon DEF SetRow
  <2>2. UNCHANGED <<gated, pc, claim, outcome>>
    BY <1>7, Zenon DEF RetryFallsDue, ClaimTimesOut, schedVars, workerVars
  <2> QED BY <1>3, <1>c, <2>1, <2>2, Zenon
<1>8. ASSUME NEW p \in Processes, ProcessStops(p) \/ ProcessStarts(p)
      PROVE  VerdictInv'
  <2>1. PICK label \in {"idle", "down"} : Leave(GroupOf(p), label)
    BY <1>8, Zenon DEF ProcessStops, ProcessStarts
  <2>2. UNCHANGED <<runs, gated>>
    BY <1>8, Zenon DEF ProcessStops, ProcessStarts
  <2>3. \A v \in Workers :
          \/ pc'[v] # "complete" /\ outcome'[v] # "cancelled"
          \/ pc'[v] = pc[v] /\ claim'[v] = claim[v] /\ outcome'[v] = outcome[v]
    BY <2>1, Zenon DEF Leave
  <2> QED BY <1>3, <1>c, <2>2, <2>3, Zenon
<1>9. CASE UNCHANGED schedAllVars
  <2>1. UNCHANGED <<runs, gated, pc, claim, outcome>>
    BY <1>9, Zenon DEF schedAllVars, schedVars, workerVars
  <2> QED BY <1>3, <1>c, <2>1, Zenon
<1> QED BY <1>4, <1>5, <1>6, <1>7, <1>8, <1>9, Zenon DEF SchedNext

\* No statement of an operator completes a run.
LEMMA OperatorsDoNotComplete ==
  ASSUME NEW row \in Rows,
         NEW new \in {RetryReviewRunNow(row), CancelReviewRun(row),
                     RequeueReviewRun(row)}
  PROVE  new.completed_at => row.completed_at
BY Zenon DEF RetryReviewRunNow, CancelReviewRun, RequeueReviewRun, Rows

\* At the start nothing is completed and nobody is at work.
LEMMA VerdictInit == SchedInit => VerdictInv
<1> SUFFICES ASSUME SchedInit PROVE VerdictInv
  BY Zenon
<1>1. \A m, h, key : InsertReviewRun(m, h, key).completed_at = FALSE
  BY Zenon DEF InsertReviewRun
<1>2. CompletedRunsHaveVerdict
  <2>1. ASSUME NEW i \in DOMAIN runs PROVE runs[i].completed_at = FALSE
    <3>1. runs[i] = InsertReviewRun(Backlog[i].mr, Backlog[i].head,
                      [trigger |-> "webhook", mr |-> Backlog[i].mr,
                       head |-> Backlog[i].head, nonce |-> 0])
      BY Zenon DEF SchedInit
    <3> QED BY <1>1, <3>1
  <2> QED BY <2>1, Zenon DEF CompletedRunsHaveVerdict
<1>3. ASSUME NEW w \in Workers PROVE Judged(w)
  <2>1. pc[w] = "idle" /\ outcome[w] = ""
    BY Zenon DEF SchedInit
  <2> QED BY <2>1, Zenon DEF Judged
<1> QED BY <1>2, <1>3, Zenon DEF VerdictInv

\* Webhooks and operators: a run an operator puts back is no longer completed,
\* and only the llm processor, which is then run without operators, relies on
\* a settled run staying settled.
LEMMA OthersKeepVerdicts ==
  ASSUME Processor # "llm" \/ Operators = {}, ServiceInv, ServiceInv', VerdictInv,
         \/ AdminStep
         \/ IntakeStep /\ UNCHANGED schedVars
  PROVE  VerdictInv'
<1>0. /\ StoreTypeOK /\ SchedTypeOK /\ lastId \in Nat
      /\ runs \in [1..lastId -> Rows] /\ DOMAIN runs = 1..lastId
      /\ DOMAIN runs' = 1..lastId'
  BY Zenon DEF ServiceInv, SchedInv, SchedTypeOK, StoreTypeOK
<1>1. ASSUME UNCHANGED <<workerVars, gated>>,
             \A i \in DOMAIN runs' :
               runs'[i].completed_at => i \in 1..lastId /\ runs[i].completed_at,
             Processor = "llm" => \A i \in 1..lastId :
                                    ~Active(runs[i]) => ~Active(runs'[i])
      PROVE  VerdictInv'
  <2>1. CompletedRunsHaveVerdict'
    BY <1>0, <1>1, Zenon DEF VerdictInv, CompletedRunsHaveVerdict
  <2>2. ASSUME NEW w \in Workers PROVE Judged(w)'
    <3>1. Judged(w) /\ UNCHANGED <<pc, claim, outcome, gated>>
      BY <1>1, Zenon DEF VerdictInv, workerVars
    <3>2. claim[w] # 0 => claim[w] \in 1..lastId
      BY <1>0, HeldInTable, Zenon
    <3> QED BY <1>1, <3>1, <3>2, Zenon DEF Judged
  <2> QED BY <2>1, <2>2, Zenon DEF VerdictInv
<1>n. \A m, h, key : InsertReviewRun(m, h, key).completed_at = FALSE
  BY Zenon DEF InsertReviewRun
<1>2. CASE IntakeStep /\ UNCHANGED schedVars
  <2>1. /\ \A i \in 1..lastId : /\ runs'[i].completed_at = runs[i].completed_at
                                /\ ~Active(runs[i]) => ~Active(runs'[i])
        /\ \/ lastId' = lastId
           \/ lastId' = lastId + 1 /\ runs'[lastId + 1].completed_at = FALSE
    BY <1>0, <1>2, <1>n, IntakeRows, WebhookStepColumns
  <2>2. \A i \in 1..lastId' : i \in 1..lastId \/ (i = lastId + 1 /\ lastId' # lastId)
    BY <1>0, <2>1
  <2> QED BY <1>0, <1>1, <1>2, <2>1, <2>2, Zenon DEF schedVars
<1>3. ASSUME NEW o \in Operators, AdminCheck(o) PROVE VerdictInv'
  BY <1>0, <1>1, <1>3, Zenon DEF AdminCheck, schedAllVars, schedVars
<1>4. ASSUME NEW o \in Operators, AdminWrite(o) PROVE VerdictInv'
  <2> DEFINE k == request[o].run
  <2>1. k \in 1..lastId
    <3>1. k \in 0..lastId /\ k # 0
      BY <1>4, Zenon DEF ServiceInv, AdminTypeOK, AdminWrite
    <3> QED BY <1>0, <3>1
  <2>2. UNCHANGED <<workerVars, gated>> /\ Processor # "llm"
    BY <1>4, Zenon DEF AdminWrite
  <2>3. \/ \E m, h, key : runs' = Inserted(runs, lastId, InsertReviewRun(m, h, key))
        \/ \E row \in {RetryReviewRunNow(runs[k]), CancelReviewRun(runs[k]),
                       RequeueReviewRun(runs[k])} : SetRow(k, row)
    BY <1>4, Zenon DEF AdminWrite
  <2>4. CASE \E m, h, key : runs' = Inserted(runs, lastId, InsertReviewRun(m, h, key))
    <3>1. PICK row : runs' = Inserted(runs, lastId, row) /\ row.completed_at = FALSE
      BY <1>n, <2>4, Zenon
    <3>2. /\ DOMAIN runs' = 1..(lastId + 1) /\ runs'[lastId + 1] = row
          /\ \A i \in 1..lastId : runs'[i] = runs[i]
      BY <1>0, <3>1 DEF Inserted
    <3>3. \A i \in 1..(lastId + 1) : i \in 1..lastId \/ i = lastId + 1
      BY <1>0
    <3> QED BY <1>1, <2>2, <3>1, <3>2, <3>3, Zenon
  <2>5. CASE \E row \in {RetryReviewRunNow(runs[k]), CancelReviewRun(runs[k]),
                         RequeueReviewRun(runs[k])} : SetRow(k, row)
    <3>0. runs[k] \in Rows
      BY <1>0, <2>1, Zenon
    <3>1. PICK row : SetRow(k, row) /\ (row.completed_at => runs[k].completed_at)
      BY <2>5, <3>0, OperatorsDoNotComplete, Zenon
    <3> QED BY <1>0, <1>1, <2>1, <2>2, <3>1, Zenon DEF SetRow
  <2> QED BY <2>3, <2>4, <2>5, Zenon
<1> QED BY <1>2, <1>3, <1>4, Zenon DEF AdminStep

\* The scheduler alone marks no run completed before its verdict.
THEOREM SchedulerVerdicts == SchedSpec => []CompletedRunsHaveVerdict
<1>1. SchedInit => VerdictInv
  BY VerdictInit, Zenon
<1>2. SchedInv /\ VerdictInv /\ [SchedNext]_schedAllVars => VerdictInv'
  BY SchedJudges, Zenon DEF SchedInv
<1>3. VerdictInv => CompletedRunsHaveVerdict
  BY DEF VerdictInv
<1> QED BY <1>1, <1>2, <1>3, SchedulerInvariant, PTL DEF SchedSpec

\* No run of the service is marked completed before its gate verdict has been
\* published, whatever cancels, supersedes, reaps or requeues it meanwhile.
\* The llm processor passes a run it found cancelled on to the completion
\* without a verdict, and is covered where no operator can requeue that run.
THEOREM ServiceVerdicts ==
  ASSUME Processor # "llm" \/ Operators = {}
  PROVE  Spec => []CompletedRunsHaveVerdict
<1>1. Init => VerdictInv
  BY VerdictInit, Zenon DEF Init
<1>2. ServiceInv /\ ServiceInv' /\ VerdictInv /\ [Next]_vars => VerdictInv'
  <2> SUFFICES ASSUME ServiceInv, ServiceInv', VerdictInv, [Next]_vars
               PROVE  VerdictInv'
    BY Zenon
  <2>1. CASE [SchedNext]_schedAllVars
    BY <2>1, SchedJudges, Zenon DEF ServiceInv, SchedInv
  <2>2. CASE AdminStep \/ (IntakeStep /\ UNCHANGED schedVars)
    BY <2>2, OthersKeepVerdicts, Zenon
  <2> QED BY <2>1, <2>2, Zenon DEF Next, vars
<1>3. VerdictInv => CompletedRunsHaveVerdict
  BY DEF VerdictInv
<1> QED BY <1>1, <1>2, <1>3, ServiceInvariant, PTL DEF Spec

-----------------------------------------------------------------------------
(* Skipped writes                                                          *)

\* What the row of a run may say while its goroutine is at a label, if the
\* processor leaves the status to the scheduler.
Foreseen(label) ==
  CASE label \in {"skipped_completed", "skipped_retry"} -> {"cancelled"}
    [] label = "skipped_failed" -> {"cancelled", "failed"}
    [] label = "fail" -> {"running", "cancelled", "failed"}
    [] label = "publish_failed" -> Statuses
    [] OTHER -> {"running", "cancelled"}

\* Of every run that was not taken from its goroutine.  The plain processor
\* reports no parser error.
StatusesAreForeseen ==
  \A w \in Workers :
    /\ outcome[w] # "parser_error"
    /\ claim[w] \notin broken \cup {0} => runs[claim[w]].status \in Foreseen(pc[w])

SkippedInv == SchedTypeOK /\ Exclusive /\ StatusesAreForeseen

\* The conditional writes act on running rows only.
LEMMA ConditionalWrites ==
  ASSUME NEW row \in Rows, NEW n,
         NEW new \in {MarkReviewRunRetryableFailureIfRunning(row, n),
                      MarkReviewRunFailedIfRunning(row, n),
                      UpdateReviewRunCompletedIfRunning(row)}
  PROVE  /\ row.status # "running" => new = row
         /\ new = MarkReviewRunFailedIfRunning(row, n) =>
              new.status \in {"failed", row.status}
BY Zenon DEF MarkReviewRunRetryableFailureIfRunning, MarkReviewRunFailedIfRunning,
   UpdateReviewRunCompletedIfRunning, Rows

\* No goroutine of a plain processor comes to report a parser error.
LEMMA PlainOutcomes ==
  ASSUME SchedTypeOK, Processor = "plain", NEW w \in Workers, WorkerStep(w),
         NEW v \in Workers, outcome[v] # "parser_error"
  PROVE  outcome'[v] # "parser_error"
<1>0. outcome \in [Workers -> FinalStatuses \cup {"", "cancelled"}]
  BY Zenon DEF SchedTypeOK
<1>1. CASE UNCHANGED outcome \/ outcome' = [outcome EXCEPT ![w] = "completed"]
  BY <1>0, <1>1, Zenon
<1>2. CASE \E group, label : Leave(group, label)
  BY <1>2, Zenon DEF Leave
<1>3. \/ UNCHANGED outcome \/ outcome' = [outcome EXCEPT ![w] = "completed"]
      \/ \E group, label : Leave(group, label)
  BY Zenon DEF WorkerStep, ReloadRunningRun, PublishInProgressStatus,
     CheckCancelled,
     PersistReviewResult, ProcessPlain, ProcessFails, LoadForWriteback,
     WritebackSucceeds, WritebackFails, FinishParserError, WriteParserError,
     PublishGateResult, CompleteRun, ScheduleRetry, FailRun, PublishFailedStatus,
     HandleSkippedTerminalWrite, Goto, Return, StopGroup
<1> QED BY <1>1, <1>2, <1>3, Zenon

\* A goroutine whose row is as foreseen goes on to a label that foresees what
\* it leaves in the row, or lets go of the run.
LEMMA WorkerForesees ==
  ASSUME SchedTypeOK, Processor = "plain", NEW w \in Workers, WorkerStep(w),
         outcome[w] # "parser_error", runs[claim[w]].status \in Foreseen(pc[w])
  PROVE  claim'[w] = 0 \/ runs'[claim[w]].status \in Foreseen(pc'[w])
<1>0. /\ runs \in [1..lastId -> Rows] /\ pc \in [Workers -> Labels]
      /\ claim[w] \in 1..lastId /\ runs[claim[w]] \in Rows
  <2>1. claim[w] # 0
    BY WorkerOwnStep, Zenon
  <2>2. claim[w] \in 1..lastId
    BY <2>1, HeldInTable, Zenon
  <2> QED BY <2>2, Zenon DEF SchedTypeOK, StoreTypeOK
<1> DEFINE row == runs[claim[w]]
           Goal == claim'[w] = 0 \/ runs'[claim[w]].status \in Foreseen(pc'[w])
<1> SUFFICES Goal
  BY Zenon
<1>l. ASSUME NEW group, NEW label, Leave(group, label), w \in group PROVE Goal
  BY <1>l, Zenon DEF Leave
<1>g. w \in GroupOf(ProcessOf[w])
  BY Zenon DEF GroupOf
<1>p. ASSUME NEW label, pc' = [pc EXCEPT ![w] = label] PROVE pc'[w] = label
  BY <1>0, <1>p, Zenon
<1>s. ASSUME NEW new, SetRow(claim[w], new) PROVE runs'[claim[w]] = new
  BY <1>0, <1>s, Zenon DEF SetRow
\* On to a label that foresees as much.
<1>m. ASSUME NEW label, pc' = [pc EXCEPT ![w] = label], UNCHANGED runs,
             Foreseen(pc[w]) = {"running", "cancelled"},
             Foreseen(label) \in {{"running", "cancelled"},
                                  {"running", "cancelled", "failed"}}
      PROVE  Goal
  BY <1>m, <1>p, Zenon
<1>1. CASE ReloadRunningRun(w)
  BY <1>l, <1>m, <1>g, <1>1, Zenon DEF ReloadRunningRun, Return, StopGroup, Foreseen
<1>2. CASE PublishInProgressStatus(w) \/ WritebackSucceeds(w)
  BY <1>m, <1>2, Zenon DEF PublishInProgressStatus, WritebackSucceeds, Goto,
     Foreseen
<1>3. CASE ProcessPlain(w) \/ LoadForWriteback(w) \/ PublishGateResult(w)
  BY <1>m, <1>3, Zenon DEF ProcessPlain, LoadForWriteback, PublishGateResult,
     Goto, Foreseen
<1>4. CASE ProcessFails(w)
  BY <1>m, <1>4, Zenon DEF ProcessFails, Goto, Foreseen
<1>5. CASE FinishParserError(w)
  BY <1>5, Zenon DEF FinishParserError
<1>6. CASE WriteParserError(w)
  <2>1. /\ pc'[w] = "publish_failed"
        /\ runs'[claim[w]] = UpdateReviewRunStatus(row, "parser_error", "")
    BY <1>p, <1>s, <1>6, Zenon DEF WriteParserError, Goto, Row
  <2>2. UpdateReviewRunStatus(row, "parser_error", "").status \in Statuses
    BY <1>0, Zenon DEF UpdateReviewRunStatus, Rows, Statuses
  <2> QED BY <2>1, <2>2, Zenon DEF Foreseen
<1>7. CASE WritebackFails(w)
  <2>1. pc'[w] = "fail" /\ pc[w] = "writeback"
    BY <1>p, <1>7, Zenon DEF WritebackFails, Goto
  <2>2. \/ runs'[claim[w]] = row
        \/ runs'[claim[w]] = MarkReviewRunFailedIfRunning(row, wbsnap[w])
    BY <1>s, <1>7, Zenon DEF WritebackFails, Row
  <2>3. runs'[claim[w]].status \in {"failed", row.status}
    BY <1>0, <2>2, ConditionalWrites, Zenon
  <2>4. row.status \in {"running", "cancelled"}
    BY <2>1, Zenon DEF Foreseen
  <2> QED BY <2>1, <2>3, <2>4, Zenon DEF Foreseen
<1>8. CASE FailRun(w)
  <2>1. /\ pc[w] = "fail"
        /\ pc'[w] = IF row.status = "running"
                    THEN "publish_failed" ELSE "skipped_failed"
        /\ runs'[claim[w]] = MarkReviewRunFailedIfRunning(row, snap[w])
    BY <1>p, <1>s, <1>8, Zenon DEF FailRun, Goto, Row
  <2>2. CASE row.status = "running"
    <3>1. runs'[claim[w]].status \in {"failed", row.status}
      BY <1>0, <2>1, ConditionalWrites, Zenon
    <3>2. runs'[claim[w]].status \in Statuses
      BY <2>2, <3>1, Zenon DEF Statuses
    <3> QED BY <2>1, <2>2, <3>2, Zenon DEF Foreseen
  <2>3. CASE row.status # "running"
    <3>1. runs'[claim[w]] = row
      BY <1>0, <2>1, <2>3, ConditionalWrites, Zenon
    <3>2. row.status \in {"cancelled", "failed"}
      BY <2>1, <2>3, Zenon DEF Foreseen
    <3> QED BY <2>1, <2>3, <3>1, <3>2, Zenon DEF Foreseen
  <2> QED BY <2>2, <2>3, Zenon
<1>9. CASE CompleteRun(w) \/ ScheduleRetry(w)
  <2>1. CASE Return(w)
    BY <1>l, <2>1, Zenon DEF Return
  <2>2. CASE ~Return(w)
    <3>1. /\ row.status # "running" /\ pc[w] \in {"complete", "fail_retry"}
          /\ pc'[w] \in {"skipped_completed", "skipped_retry"}
          /\ runs'[claim[w]] \in
               {UpdateReviewRunCompletedIfRunning(row),
                MarkReviewRunRetryableFailureIfRunning(row, snap[w] + 1)}
      BY <1>p, <1>s, <1>9, <2>2, Zenon DEF CompleteRun, ScheduleRetry, Goto, Row
    <3>2. runs'[claim[w]] = row
      BY <1>0, <3>1, ConditionalWrites, Zenon
    <3>3. row.status = "cancelled"
      BY <3>1, Zenon DEF Foreseen
    <3> QED BY <3>1, <3>2, <3>3, Zenon DEF Foreseen
  <2> QED BY <2>1, <2>2, Zenon
<1>10. CASE PublishFailedStatus(w) \/ HandleSkippedTerminalWrite(w)
  BY <1>l, <1>g, <1>10, Zenon DEF PublishFailedStatus, HandleSkippedTerminalWrite,
     Return, StopGroup
<1> QED BY <1>1, <1>2, <1>3, <1>4, <1>5, <1>6, <1>7, <1>8, <1>9, <1>10, ZenonT(60)
        DEF WorkerStep, CheckCancelled, PersistReviewResult

\* Steps in which the rows still held are cancelled or keep their status.
LEMMA ForeseenElsewhere ==
  ASSUME SkippedInv, broken \subseteq broken',
         \A w \in Workers :
           /\ outcome'[w] # "parser_error"
           /\ \/ claim'[w] \in broken' \cup {0}
              \/ /\ claim'[w] = claim[w] /\ pc'[w] = pc[w]
                 /\ \/ claim[w] \notin 1..lastId
                    \/ runs'[claim[w]].status \in {runs[claim[w]].status, "cancelled"}
  PROVE  StatusesAreForeseen'
<1> SUFFICES ASSUME NEW w \in Workers, claim'[w] \notin broken' \cup {0}
             PROVE  runs'[claim'[w]].status \in Foreseen(pc'[w])
  BY Zenon DEF StatusesAreForeseen
<1>1. /\ claim'[w] = claim[w] /\ pc'[w] = pc[w] /\ claim[w] \notin broken \cup {0}
      /\ \/ claim[w] \notin 1..lastId
         \/ runs'[claim[w]].status \in {runs[claim[w]].status, "cancelled"}
  BY Zenon
<1>2. claim[w] \in 1..lastId /\ runs[claim[w]].status \in Foreseen(pc[w])
  BY <1>1, HeldInTable, Zenon DEF SkippedInv, StatusesAreForeseen
<1>3. "cancelled" \in Foreseen(pc[w])
  BY Zenon DEF Foreseen, Statuses
<1> QED BY <1>1, <1>2, <1>3, Zenon

\* Steps of the scheduler.
LEMMA SchedForesees ==
  ASSUME SkippedInv, Processor = "plain", [SchedNext]_schedAllVars
  PROVE  StatusesAreForeseen'
<1>0. /\ lastId \in Nat /\ runs \in [1..lastId -> Rows] /\ DOMAIN runs = 1..lastId
      /\ pc \in [Workers -> Labels] /\ claim \in [Workers -> 0..lastId]
      /\ SchedTypeOK
  BY Zenon DEF SkippedInv, SchedTypeOK, StoreTypeOK
<1>o. \A w \in Workers : outcome[w] # "parser_error"
  BY Zenon DEF SkippedInv, StatusesAreForeseen
<1>1. ASSUME NEW w \in Workers, ClaimNextRun(w) PROVE StatusesAreForeseen'
  <2>1. PICK i \in NextClaimable(runs) :
          /\ SetRow(i, ClaimReviewRun(runs[i], ProcessOf[w]))
          /\ claim' = [claim EXCEPT ![w] = i]
    BY <1>1, Zenon DEF ClaimNextRun
  <2>2. i \in 1..lastId /\ IsClaimable(runs[i])
    BY <1>0, Zenon DEF NextClaimable, IsClaimable
  <2>3. /\ pc' = [pc EXCEPT ![w] = "claimed"] /\ UNCHANGED <<outcome, broken>>
    BY <1>1, Zenon DEF ClaimNextRun
  <2>4. ClaimReviewRun(runs[i], ProcessOf[w]).status = "running"
    BY <1>0, <2>2, Zenon DEF ClaimReviewRun, Rows
  <2>5. /\ runs'[i].status = "running"
        /\ \A j \in 1..lastId : j # i => runs'[j] = runs[j]
    BY <1>0, <2>1, <2>2, <2>4, Zenon DEF SetRow
  <2> SUFFICES ASSUME NEW v \in Workers, claim'[v] \notin broken \cup {0}
               PROVE  runs'[claim'[v]].status \in Foreseen(pc'[v])
    BY <1>o, <2>3, Zenon DEF StatusesAreForeseen
  <2>6. CASE v = w
    <3>1. claim'[v] = i /\ pc'[v] = "claimed"
      BY <1>0, <2>1, <2>3, <2>6, Zenon
    <3> QED BY <2>5, <3>1, Zenon DEF Foreseen
  <2>7. CASE v # w
    <3>1. claim'[v] = claim[v] /\ pc'[v] = pc[v]
      BY <1>0, <2>1, <2>3, <2>7, Zenon
    <3>2. claim[v] \in 1..lastId /\ runs[claim[v]].status \in Foreseen(pc[v])
      BY <1>0, <3>1, HeldInTable, Zenon DEF SkippedInv, StatusesAreForeseen
    <3>3. ~Queued(runs[claim[v]])
      BY <3>1, Zenon DEF SkippedInv, Exclusive, HeldRunsAreNotQueued
    <3>4. claim[v] # i
      BY <2>2, <3>3, Zenon DEF Queued, Active, IsClaimable
    <3> QED BY <2>5, <3>1, <3>2, <3>4, Zenon
  <2> QED BY <2>6, <2>7, Zenon
<1>2. ASSUME NEW w \in Workers, WorkerStep(w) PROVE StatusesAreForeseen'
  <2>1. claim[w] # 0 /\ OwnStep(w)
    BY <1>0, <1>2, WorkerOwnStep, Zenon
  <2>2. \A v \in Workers : outcome'[v] # "parser_error"
    BY <1>0, <1>2, <1>o, PlainOutcomes, Zenon
  <2> SUFFICES ASSUME NEW v \in Workers, claim'[v] \notin broken \cup {0}
               PROVE  runs'[claim'[v]].status \in Foreseen(pc'[v])
    BY <2>1, <2>2, Zenon DEF StatusesAreForeseen, OwnStep
  <2>3. CASE v = w
    <3>1. claim'[w] = claim[w]
      BY <2>1, <2>3, Zenon DEF OwnStep
    <3>2. runs[claim[w]].status \in Foreseen(pc[w])
      BY <2>3, <3>1, Zenon DEF SkippedInv, StatusesAreForeseen
    <3> QED BY <1>0, <1>2, <1>o, <2>3, <3>1, <3>2, WorkerForesees, ZenonT(60)
  <2>4. CASE v # w
    <3>1. claim'[v] = claim[v] /\ pc'[v] = pc[v]
      BY <2>1, <2>4, Zenon DEF OwnStep
    <3>2. claim[v] \in 1..lastId /\ claim[v] # claim[w]
      BY <1>0, <2>4, <3>1, HeldInTable, Zenon
         DEF SkippedInv, Exclusive, OneWorkerPerRun
    <3>3. runs'[claim[v]] = runs[claim[v]]
      BY <2>1, <3>2, Zenon DEF OwnStep
    <3> QED BY <3>1, <3>3, Zenon DEF SkippedInv, StatusesAreForeseen
  <2> QED BY <2>3, <2>4, Zenon
<1>3. CASE ReapStaleRuns
  <2>1. /\ \A i \in 1..lastId : runs'[i] = ReapStaleRunningRuns(runs[i])
        /\ broken' = broken \cup {i \in 1..lastId : Stale(i) /\ Held(i)}
        /\ UNCHANGED <<pc, claim, outcome>>
    BY <1>0, <1>3, Zenon DEF ReapStaleRuns, workerVars
  <2>2. ASSUME NEW w \in Workers, claim[w] \in 1..lastId, claim[w] \notin broken'
        PROVE  runs'[claim[w]] = runs[claim[w]]
    <3>1. ~Stale(claim[w])
      BY <2>1, <2>2, Zenon DEF Held
    <3> QED BY <1>0, <2>1, <2>2, <3>1, StatementCounts, Zenon DEF Stale
  <2> QED BY <1>o, <2>1, <2>2, ForeseenElsewhere, Zenon
<1>4. ASSUME NEW i \in DOMAIN runs, RetryFallsDue(i) \/ ClaimTimesOut(i)
      PROVE  StatusesAreForeseen'
  <2>1. PICK row : SetRow(i, row) /\ row.status = runs[i].status
    BY <1>0, <1>4 DEF RetryFallsDue, ClaimTimesOut, Rows
  <2>2. \A j \in 1..lastId : runs'[j].status = runs[j].status
    BY <1>0, <2>1, Zenon DEF SetRow
  <2>3. UNCHANGED <<pc, claim, outcome, broken>>
    BY <1>4, Zenon DEF RetryFallsDue, ClaimTimesOut, schedVars, workerVars
  <2> QED BY <1>o, <2>2, <2>3, ForeseenElsewhere, Zenon
<1>5. ASSUME NEW p \in Processes, ProcessStops(p) \/ ProcessStarts(p)
      PROVE  StatusesAreForeseen'
  <2>1. UNCHANGED <<runs, broken>> /\ \E label : Leave(GroupOf(p), label)
    BY <1>5, Zenon DEF ProcessStops, ProcessStarts
  <2>2. \A w \in Workers :
          /\ outcome'[w] # "parser_error"
          /\ claim'[w] = 0 \/ (claim'[w] = claim[w] /\ pc'[w] = pc[w])
    BY <1>o, <2>1, Zenon DEF Leave
  <2> QED BY <2>1, <2>2, ForeseenElsewhere, Zenon
<1>6. CASE UNCHANGED schedAllVars
  <2>1. UNCHANGED <<runs, pc, claim, outcome, broken>>
    BY <1>6, Zenon DEF schedAllVars, schedVars, workerVars
  <2> QED BY <1>o, <2>1, ForeseenElsewhere, Zenon
<1> QED BY <1>1, <1>2, <1>3, <1>4, <1>5, <1>6, Zenon DEF SchedNext

\* Webhooks only cancel; an operator cancels, or takes the run away.
LEMMA OthersAreForeseen ==
  ASSUME ServiceInv, StatusesAreForeseen,
         \/ AdminStep
         \/ IntakeStep /\ UNCHANGED schedVars
  PROVE  StatusesAreForeseen'
<1>0. /\ StoreTypeOK /\ lastId \in Nat /\ runs \in [1..lastId -> Rows]
      /\ SkippedInv
  BY Zenon DEF ServiceInv, SchedInv, SchedTypeOK, StoreTypeOK, SkippedInv
<1>1. ASSUME UNCHANGED workerVars, broken \subseteq broken',
             \A i \in 1..lastId :
               \/ i \in broken' \/ ~Held(i)
               \/ runs'[i].status \in {runs[i].status, "cancelled"}
      PROVE  StatusesAreForeseen'
  <2>1. UNCHANGED <<pc, claim, outcome>>
    BY <1>1, Zenon DEF workerVars
  <2>2. \A w \in Workers : outcome[w] # "parser_error"
    BY Zenon DEF StatusesAreForeseen
  <2>3. \A w \in Workers : Held(claim[w])
    BY Zenon DEF Held
  <2> QED BY <1>0, <1>1, <2>1, <2>2, <2>3, ForeseenElsewhere, Zenon
<1>2. CASE IntakeStep /\ UNCHANGED schedVars
  <2>1. ASSUME NEW i \in 1..lastId
        PROVE  runs'[i].status \in {runs[i].status, "cancelled"}
    <3>1. WebhookStep(runs[i], runs'[i])
      BY <1>0, <1>2, IntakeRows, Zenon
    <3>2. runs[i] \in Rows
      BY <1>0, Zenon
    <3>3. runs'[i] = runs[i] \/ runs'[i].status = "cancelled"
      BY <3>1, <3>2, WebhookStepColumns, Zenon
    <3> QED BY <3>3, Zenon
  <2> QED BY <1>1, <1>2, <2>1, Zenon DEF schedVars
<1>3. ASSUME NEW o \in Operators, AdminCheck(o) PROVE StatusesAreForeseen'
  BY <1>1, <1>3, Zenon DEF AdminCheck, schedAllVars, schedVars
<1>4. ASSUME NEW o \in Operators, AdminWrite(o) PROVE StatusesAreForeseen'
  <2> DEFINE k == request[o].run
             op == request[o].op
  <2>1. k \in 1..lastId
    <3>1. k \in 0..lastId /\ k # 0
      BY <1>4, Zenon DEF ServiceInv, AdminTypeOK, AdminWrite
    <3> QED BY <1>0, <3>1
  <2>2. UNCHANGED workerVars /\ broken' = broken \cup TakenBy(op, k)
    BY <1>4, Zenon DEF AdminWrite
  <2>3. CASE op = "rerun_run"
    <3>1. \E row : runs' = Inserted(runs, lastId, row)
      BY <1>4, <2>3, Zenon DEF AdminWrite
    <3>2. \A i \in 1..lastId : runs'[i] = runs[i]
      BY <1>0, <3>1, InsertedPrefix, Zenon
    <3> QED BY <1>1, <2>2, <3>2, Zenon
  <2>4. CASE op = "cancel_run"
    <3>1. SetRow(k, CancelReviewRun(runs[k]))
      BY <1>4, <2>4, Zenon DEF AdminWrite
    <3>2. CancelReviewRun(runs[k]).status = "cancelled"
      BY <1>0, <2>1, Zenon DEF CancelReviewRun, Rows
    <3>3. \A i \in 1..lastId : runs'[i] = runs[i] \/ runs'[i].status = "cancelled"
      BY <1>0, <2>1, <3>1, <3>2, Zenon DEF SetRow
    <3> QED BY <1>1, <2>2, <3>3, Zenon
  <2>5. CASE op \in {"retry_run", "requeue_run"}
    <3>1. \E row : SetRow(k, row)
      BY <1>4, <2>5, Zenon DEF AdminWrite
    <3>2. \A i \in 1..lastId : i # k => runs'[i] = runs[i]
      BY <1>0, <2>1, <3>1, Zenon DEF SetRow
    <3>3. Held(k) => k \in broken'
      BY <2>2, <2>5, Zenon DEF TakenBy
    <3> QED BY <1>1, <2>2, <3>2, <3>3, Zenon
  <2> QED BY <1>4, <2>3, <2>4, <2>5, Zenon DEF AdminWrite
<1> QED BY <1>2, <1>3, <1>4, Zenon DEF AdminStep

\* When the processor leaves the status to the scheduler, every terminal write
\* that finds the run no longer running finds a status the scheduler accepts,
\* unless the run was taken away: a cancellation by webhook or operator, or
\* the failure mark of the worker's own writeback.  (Engine and llm processors
\* write the final status themselves.)
THEOREM ServiceSkippedWrites ==
  ASSUME Processor = "plain"
  PROVE  Spec => []SkippedWritesAreExplained
<1>1. Init => StatusesAreForeseen
  BY Zenon DEF Init, SchedInit, StatusesAreForeseen
<1>2. ServiceInv /\ StatusesAreForeseen /\ [Next]_vars => StatusesAreForeseen'
  <2> SUFFICES ASSUME ServiceInv, StatusesAreForeseen, [Next]_vars
               PROVE  StatusesAreForeseen'
    BY Zenon
  <2>1. CASE [SchedNext]_schedAllVars
    BY <2>1, SchedForesees, Zenon DEF ServiceInv, SchedInv, SkippedInv
  <2>2. CASE AdminStep \/ (IntakeStep /\ UNCHANGED schedVars)
    BY <2>2, OthersAreForeseen, Zenon
  <2> QED BY <2>1, <2>2, Zenon DEF Next, vars
<1>3. ServiceInv /\ StatusesAreForeseen => SkippedWritesAreExplained
  <2> SUFFICES ASSUME ServiceInv, StatusesAreForeseen, NEW w \in Workers,
                      pc[w] \in {"skipped_completed", "skipped_failed",
                                 "skipped_retry"},
                      claim[w] \notin broken
               PROVE  SkippedWriteAccepts(pc[w], Row(w))
    BY Zenon DEF SkippedWritesAreExplained
  <2>1. claim[w] # 0
    BY Zenon DEF ServiceInv, SchedInv, SchedTypeOK
  <2>2. Row(w).status \in Foreseen(pc[w])
    BY <2>1, Zenon DEF StatusesAreForeseen, Row
  <2> QED BY <2>2 DEF Foreseen, SkippedWriteAccepts
<1> QED BY <1>1, <1>2, <1>3, ServiceInvariant, PTL DEF Spec
=============================================================================
