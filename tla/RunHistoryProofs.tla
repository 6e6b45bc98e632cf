-------------------------- MODULE RunHistoryProofs --------------------------
(***************************************************************************)
(* What review_runs remembers: idempotency keys stay unique, and the       *)
(* supersession trail of a merge request leads forward, whatever webhooks, *)
(* operators and late workers do; and the latest head wins where webhooks  *)
(* arrive in order.  And what is behind it: each run goes through the      *)
(* states of a job of JobQueue, so that settled runs stay settled whatever *)
(* late workers, the reaper and webhooks write.                            *)
(***************************************************************************)
EXTENDS ReviewServiceProofs

\* What one step does to the columns the history is made of: a row keeps its
\* merge request and its key, it is superseded only by the run inserted in
\* the same step, and a new key was looked up or carries the new id.
HistoryStep ==
  /\ lastId' \in {lastId, lastId + 1}
  /\ \A i \in 1..lastId :
       /\ runs'[i].mr = runs[i].mr /\ runs'[i].key = runs[i].key
       /\ \/ runs'[i].superseded_by \in {runs[i].superseded_by, 0}
          \/ /\ lastId' = lastId + 1
             /\ runs'[i].superseded_by = lastId + 1
             /\ runs'[lastId + 1].mr = runs[i].mr
  /\ lastId' = lastId + 1 =>
       /\ runs'[lastId + 1].superseded_by = 0
       /\ \/ /\ runs'[lastId + 1].key.trigger # "admin"
             /\ ~KeyExists(runs'[lastId + 1].key)
          \/ /\ runs'[lastId + 1].key.trigger = "admin"
             /\ runs'[lastId + 1].key.nonce = lastId + 1

-----------------------------------------------------------------------------
(* Statements                                                              *)

\* Operators and closed merge requests only ever clear superseded_by.
LEMMA OtherStatementsKeepHistory ==
  ASSUME NEW row \in Rows
  PROVE  /\ \A new \in {RetryReviewRunNow(row), CancelReviewRun(row),
                        RequeueReviewRun(row)} :
              /\ new.mr = row.mr /\ new.key = row.key
              /\ new.superseded_by \in {row.superseded_by, 0}
         /\ \A m : LET new == CancelPendingRunsForMR(row, m) IN
              /\ new.mr = row.mr /\ new.key = row.key
              /\ new.superseded_by \in {row.superseded_by, 0}
         /\ \A m, n : LET new == SupersedeActiveRunsForMR(row, m, n) IN
              /\ new.mr = row.mr /\ new.key = row.key
              /\ \/ new.superseded_by = row.superseded_by
                 \/ new.superseded_by = n /\ row.mr = m
<1> USE DEF Rows
<1>1. \A new \in {RetryReviewRunNow(row), CancelReviewRun(row),
                  RequeueReviewRun(row)} :
        /\ new.mr = row.mr /\ new.key = row.key
        /\ new.superseded_by \in {row.superseded_by, 0}
  <2>1. LET new == RetryReviewRunNow(row) IN
          /\ new.mr = row.mr /\ new.key = row.key
          /\ new.superseded_by \in {row.superseded_by, 0}
    BY Zenon DEF RetryReviewRunNow
  <2>2. LET new == CancelReviewRun(row) IN
          /\ new.mr = row.mr /\ new.key = row.key
          /\ new.superseded_by \in {row.superseded_by, 0}
    BY Zenon DEF CancelReviewRun
  <2>3. LET new == RequeueReviewRun(row) IN
          /\ new.mr = row.mr /\ new.key = row.key
          /\ new.superseded_by \in {row.superseded_by, 0}
    BY Zenon DEF RequeueReviewRun
  <2> QED BY <2>1, <2>2, <2>3, Zenon
<1>2. ASSUME NEW m
      PROVE  LET new == CancelPendingRunsForMR(row, m) IN
               /\ new.mr = row.mr /\ new.key = row.key
               /\ new.superseded_by \in {row.superseded_by, 0}
  BY Zenon DEF CancelPendingRunsForMR
<1>3. ASSUME NEW m, NEW n
      PROVE  LET new == SupersedeActiveRunsForMR(row, m, n) IN
               /\ new.mr = row.mr /\ new.key = row.key
               /\ \/ new.superseded_by = row.superseded_by
                  \/ new.superseded_by = n /\ row.mr = m
  BY Zenon DEF SupersedeActiveRunsForMR
<1> QED BY <1>1, <1>2, <1>3, Zenon

\* A new run.
LEMMA InsertedColumns ==
  ASSUME NEW m, NEW h, NEW key
  PROVE  LET new == InsertReviewRun(m, h, key) IN
           new.mr = m /\ new.key = key /\ new.superseded_by = 0
BY Zenon DEF InsertReviewRun

-----------------------------------------------------------------------------
(* Steps                                                                   *)

\* Rows that keep their history, and no new one.
LEMMA SameRunsStep ==
  ASSUME lastId' = lastId,
         \A i \in 1..lastId :
           /\ runs'[i].mr = runs[i].mr /\ runs'[i].key = runs[i].key
           /\ runs'[i].superseded_by \in {runs[i].superseded_by, 0},
         lastId \in Nat
  PROVE  HistoryStep
BY DEF HistoryStep

\* The insertion of a run, with nothing else or with the older runs of its
\* merge request superseded by it.
LEMMA InsertStep ==
  ASSUME StoreTypeOK, NEW m \in MRs, NEW h \in Heads, NEW key \in Keys,
         NEW table \in [1..lastId -> Rows],
         \A i \in 1..lastId :
           /\ table[i].mr = runs[i].mr /\ table[i].key = runs[i].key
           /\ \/ table[i].superseded_by = runs[i].superseded_by
              \/ table[i].superseded_by = lastId + 1 /\ runs[i].mr = m,
         lastId' = lastId + 1,
         runs' = Inserted(table, lastId, InsertReviewRun(m, h, key)),
         \/ key.trigger # "admin" /\ ~KeyExists(key)
         \/ key.trigger = "admin" /\ key.nonce = lastId + 1
  PROVE  HistoryStep
<1>0. lastId \in Nat
  BY Zenon DEF StoreTypeOK
<1>1. InsertReviewRun(m, h, key) \in Rows
  BY InsertType, Zenon
<1>2. /\ runs'[lastId + 1] = InsertReviewRun(m, h, key)
      /\ \A i \in 1..lastId : runs'[i] = table[i]
  BY <1>0, <1>1, InsertedRows, Zenon DEF HasRowMore
<1>3. /\ runs'[lastId + 1].mr = m /\ runs'[lastId + 1].key = key
      /\ runs'[lastId + 1].superseded_by = 0
  BY <1>2, InsertedColumns
<1> QED BY <1>0, <1>2, <1>3, Zenon DEF HistoryStep

\* A delivery.
LEMMA DeliveryHistory ==
  ASSUME ServiceInv, NEW m \in MRs, NEW e \in wire[m], ProcessEvent(m, e)
  PROVE  HistoryStep
<1>0. /\ StoreTypeOK /\ lastId \in Nat /\ DOMAIN runs = 1..lastId
      /\ runs \in [1..lastId -> Rows]
  BY Zenon DEF ServiceInv, SchedInv, SchedTypeOK, StoreTypeOK
<1>e. e.head \in Heads /\ e.n \in Nat
  BY DEF ServiceInv, IntakeTypeOK, Events
<1>w. WebhookKey(m, e.head) \in Keys /\ WebhookKey(m, e.head).trigger # "admin"
  BY <1>e, Zenon DEF WebhookKey, Keys, Triggers
<1>s. ASSUME UNCHANGED <<runs, lastId>> PROVE HistoryStep
  BY <1>0, <1>s, SameRunsStep, Zenon
<1>1. CASE CreatePendingRun(m, e)
  <2>1. CASE KeyExists(WebhookKey(m, e.head))
    BY <1>s, <1>1, <2>1, Zenon DEF CreatePendingRun
  <2>2. CASE ~KeyExists(WebhookKey(m, e.head))
    <3>1. /\ lastId' = lastId + 1
          /\ runs' = Inserted(runs, lastId,
                       InsertReviewRun(m, e.head, WebhookKey(m, e.head)))
      BY <1>1, <2>2, Zenon DEF CreatePendingRun
    <3> HIDE DEF WebhookKey
    <3>2. HistoryStep
      BY ONLY <1>0, <1>e, <1>w, <2>2, <3>1, InsertStep, m \in MRs, ZenonT(60)
    <3> QED BY <3>2, Zenon
  <2> QED BY <2>1, <2>2, Zenon
<1>2. CASE HandleUpdate(m, e)
  <2>1. CASE KeyExists(WebhookKey(m, e.head))
    BY <1>s, <1>2, <2>1, Zenon DEF HandleUpdate
  <2>2. CASE ~KeyExists(WebhookKey(m, e.head))
    <3> DEFINE table == [i \in DOMAIN runs |->
                           SupersedeActiveRunsForMR(runs[i], m, lastId + 1)]
    <3>1. table \in [1..lastId -> Rows]
      <4>1. lastId + 1 \in Nat
        BY <1>0
      <4>2. \A i \in 1..lastId :
              SupersedeActiveRunsForMR(runs[i], m, lastId + 1) \in Rows
        BY <1>0, <4>1, OtherStatementTypes, Zenon
      <4> QED BY <1>0, <4>2, Zenon
    <3>2. \A i \in 1..lastId :
            /\ table[i].mr = runs[i].mr /\ table[i].key = runs[i].key
            /\ \/ table[i].superseded_by = runs[i].superseded_by
               \/ table[i].superseded_by = lastId + 1 /\ runs[i].mr = m
      BY <1>0, OtherStatementsKeepHistory
    <3>3. /\ lastId' = lastId + 1
          /\ runs' = Inserted(table, lastId,
                       InsertReviewRun(m, e.head, WebhookKey(m, e.head)))
      BY <1>2, <2>2, Zenon DEF HandleUpdate
    <3> HIDE DEF table
    <3> QED BY <1>0, <1>e, <1>w, <2>2, <3>1, <3>2, <3>3, InsertStep, ZenonT(60)
  <2> QED BY <2>1, <2>2, Zenon
<1>3. CASE CancelRuns(m, e)
  <2>1. CASE mrs[m].state = "none"
    BY <1>s, <1>3, <2>1, Zenon DEF CancelRuns
  <2>2. CASE mrs[m].state # "none"
    <3>1. lastId' = lastId
      BY <1>3, Zenon DEF CancelRuns
    <3>2. \A i \in 1..lastId : runs'[i] = CancelPendingRunsForMR(runs[i], m)
      BY <1>0, <1>3, <2>2, Zenon DEF CancelRuns
    <3> QED BY <1>0, <3>1, <3>2, OtherStatementsKeepHistory, SameRunsStep
  <2> QED BY <2>1, <2>2, Zenon
<1>4. CASE ExecuteRerun(m, e)
  <2> DEFINE key == CommandKey(m, e.head, e.n)
  <2>1. key \in Keys /\ key.trigger # "admin"
    BY <1>e, Zenon DEF CommandKey, Keys, Triggers
  <2>2. \/ UNCHANGED <<runs, lastId>>
        \/ /\ lastId' = lastId + 1 /\ ~KeyExists(key)
           /\ runs' = Inserted(runs, lastId, InsertReviewRun(m, e.head, key))
    BY <1>4, Zenon DEF ExecuteRerun
  <2> HIDE DEF key
  <2> QED BY <1>0, <1>e, <1>s, <2>1, <2>2, InsertStep, Zenon
<1> QED BY <1>1, <1>2, <1>3, <1>4, Zenon DEF ProcessEvent

\* An operator's write.
LEMMA AdminHistory ==
  ASSUME ServiceInv, NEW o \in Operators, AdminWrite(o)
  PROVE  HistoryStep
<1> DEFINE op == request[o].op
           i == request[o].run
<1>0. /\ StoreTypeOK /\ lastId \in Nat /\ runs \in [1..lastId -> Rows]
  BY Zenon DEF ServiceInv, SchedInv, SchedTypeOK, StoreTypeOK
<1>1. i \in 1..lastId
  <2>1. i \in 0..lastId /\ i # 0
    BY Zenon DEF ServiceInv, AdminTypeOK, AdminWrite
  <2> QED BY <1>0, <2>1
<1>2. runs[i] \in Rows
  BY <1>0, <1>1, Zenon
<1>3. CASE op = "rerun_run"
  <2> DEFINE key == [trigger |-> "admin", mr |-> runs[i].mr,
                     head |-> runs[i].head, nonce |-> lastId + 1]
  <2>1. runs[i].mr \in MRs /\ runs[i].head \in Heads
    BY <1>2, Zenon DEF Rows
  <2>2. key \in Keys /\ key.trigger = "admin" /\ key.nonce = lastId + 1
    BY <1>0, <2>1 DEF Keys, Triggers
  <2>3. /\ lastId' = lastId + 1
        /\ runs' = Inserted(runs, lastId,
                     InsertReviewRun(runs[i].mr, runs[i].head, key))
    BY <1>3, Zenon DEF AdminWrite
  <2> HIDE DEF key
  <2> QED BY <1>0, <2>1, <2>2, <2>3, InsertStep, Zenon
<1>4. CASE op # "rerun_run"
  <2>1. PICK row \in {RetryReviewRunNow(runs[i]), CancelReviewRun(runs[i]),
                      RequeueReviewRun(runs[i])} :
          SetRow(i, row) /\ lastId' = lastId
    BY <1>4, Zenon DEF AdminWrite
  <2>2. /\ row.mr = runs[i].mr /\ row.key = runs[i].key
        /\ row.superseded_by \in {runs[i].superseded_by, 0}
    BY <1>2, <2>1, OtherStatementsKeepHistory, Zenon
  <2>3. runs'[i] = row /\ \A j \in 1..lastId : j # i => runs'[j] = runs[j]
    BY <1>0, <1>1, <2>1, Zenon DEF SetRow
  <2> QED BY <1>0, <2>1, <2>2, <2>3, SameRunsStep, Zenon
<1> QED BY <1>3, <1>4, Zenon

\* Every step of the service is a step of the history.
LEMMA ServiceHistory ==
  ASSUME ServiceInv, [Next]_vars
  PROVE  HistoryStep
<1>0. lastId \in Nat /\ runs \in [1..lastId -> Rows] /\ SchedTypeOK
  BY Zenon DEF ServiceInv, SchedInv, SchedTypeOK, StoreTypeOK
<1>s. ASSUME UNCHANGED <<runs, lastId>> PROVE HistoryStep
  BY <1>0, <1>s, SameRunsStep, Zenon
<1>1. CASE SchedNext
  <2>1. lastId' = lastId /\ \A i \in 1..lastId : RowStep(runs[i], runs'[i])
    BY <1>0, <1>1, SchedRowSteps, Zenon
  <2>2. \A i \in 1..lastId : /\ runs'[i].mr = runs[i].mr
                             /\ runs'[i].key = runs[i].key
                             /\ runs'[i].superseded_by = runs[i].superseded_by
    BY <1>0, <2>1, RowStepKeepsHistory, Zenon
  <2> QED BY <1>0, <2>1, <2>2, SameRunsStep, Zenon
<1>2. CASE AdminStep
  <2>1. ASSUME NEW o \in Operators, AdminCheck(o) PROVE HistoryStep
    BY <1>s, <2>1, Zenon DEF AdminCheck, schedAllVars
  <2> QED BY <1>2, <2>1, AdminHistory, Zenon DEF AdminStep
<1>3. CASE IntakeStep
  <2>1. ASSUME NEW m \in MRs, ForgeMoves(m) PROVE HistoryStep
    BY <1>s, <2>1, Zenon DEF ForgeMoves
  <2>2. ASSUME NEW m \in MRs, Deliver(m) PROVE HistoryStep
    BY <2>2, DeliveryHistory, Zenon DEF Deliver
  <2> QED BY <1>3, <2>1, <2>2, Zenon DEF IntakeStep
<1>4. CASE UNCHANGED vars
  BY <1>s, <1>4, Zenon DEF vars, schedAllVars
<1> QED BY <1>1, <1>2, <1>3, <1>4, Zenon DEF Next

\* The runs pending at the start.
LEMMA InitialRuns ==
  ASSUME Init
  PROVE  /\ DOMAIN runs = 1..Len(Backlog)
         /\ \A i \in 1..Len(Backlog) :
              /\ runs[i].superseded_by = 0
              /\ runs[i].key = [trigger |-> "webhook", mr |-> Backlog[i].mr,
                                head |-> Backlog[i].head, nonce |-> 0]
<1>1. runs = [i \in 1..Len(Backlog) |->
        InsertReviewRun(Backlog[i].mr, Backlog[i].head,
          [trigger |-> "webhook", mr |-> Backlog[i].mr,
           head |-> Backlog[i].head, nonce |-> 0])]
  BY Zenon DEF Init, SchedInit
<1>2. ASSUME NEW i \in 1..Len(Backlog)
      PROVE  /\ runs[i].superseded_by = 0
             /\ runs[i].key = [trigger |-> "webhook", mr |-> Backlog[i].mr,
                               head |-> Backlog[i].head, nonce |-> 0]
  <2> DEFINE key == [trigger |-> "webhook", mr |-> Backlog[i].mr,
                     head |-> Backlog[i].head, nonce |-> 0]
  <2>1. runs[i] = InsertReviewRun(Backlog[i].mr, Backlog[i].head, key)
    BY <1>1, Zenon
  <2> HIDE DEF key
  <2>2. runs[i].superseded_by = 0 /\ runs[i].key = key
    BY <2>1, InsertedColumns
  <2> QED BY <2>2, Zenon DEF key
<1> QED BY <1>1, <1>2, Zenon

-----------------------------------------------------------------------------
(* The supersession trail                                                  *)

\* A step of the history keeps the trail pointing forward.
LEMMA TrailStep ==
  ASSUME ServiceInv, ServiceInv', SupersessionPointsForward, HistoryStep
  PROVE  SupersessionPointsForward'
<1>0. /\ lastId \in Nat /\ lastId' \in {lastId, lastId + 1}
      /\ DOMAIN runs = 1..lastId /\ DOMAIN runs' = 1..lastId'
  BY Zenon DEF ServiceInv, SchedInv, SchedTypeOK, StoreTypeOK, HistoryStep
<1> SUFFICES ASSUME NEW i \in 1..lastId', runs'[i].superseded_by # 0
             PROVE  /\ runs'[i].superseded_by \in (i + 1)..lastId'
                    /\ runs'[runs'[i].superseded_by].mr = runs'[i].mr
  BY <1>0, Zenon DEF SupersessionPointsForward
<1>1. i \in 1..lastId
  <2>1. i \in 1..lastId \/ (lastId' = lastId + 1 /\ i = lastId + 1)
    BY <1>0
  <2> QED BY <2>1, Zenon DEF HistoryStep
<1>2. CASE runs'[i].superseded_by = runs[i].superseded_by
  <2> DEFINE j == runs[i].superseded_by
  <2>1. j \in (i + 1)..lastId /\ runs[j].mr = runs[i].mr
    BY <1>0, <1>1, <1>2, Zenon DEF SupersessionPointsForward
  <2>2. j \in 1..lastId /\ j \in (i + 1)..lastId'
    BY <1>0, <1>1, <2>1
  <2>3. runs'[j].mr = runs[j].mr /\ runs'[i].mr = runs[i].mr
    BY <1>1, <2>2, Zenon DEF HistoryStep
  <2> QED BY <1>2, <2>1, <2>2, <2>3, Zenon
<1>3. CASE runs'[i].superseded_by # runs[i].superseded_by
  <2>1. /\ lastId' = lastId + 1 /\ runs'[i].superseded_by = lastId + 1
        /\ runs'[lastId + 1].mr = runs[i].mr /\ runs'[i].mr = runs[i].mr
    BY <1>1, <1>3, Zenon DEF HistoryStep
  <2>2. lastId + 1 \in (i + 1)..lastId'
    BY <1>0, <1>1, <2>1
  <2> QED BY <2>1, <2>2, Zenon
<1> QED BY <1>2, <1>3, Zenon

\* The supersession trail of a merge request leads forward to runs of the same
\* merge request, for every order of deliveries, operators and late workers.
THEOREM TrailLeadsForward == Spec => []SupersessionPointsForward
<1>1. Init => SupersessionPointsForward
  BY InitialRuns, Zenon DEF SupersessionPointsForward
<1>2. /\ ServiceInv /\ ServiceInv' /\ SupersessionPointsForward /\ [Next]_vars
      => SupersessionPointsForward'
  BY ServiceHistory, TrailStep
<1> QED BY <1>1, <1>2, ServiceInvariant, PTL DEF Spec

-----------------------------------------------------------------------------
(* Idempotency keys                                                        *)

\* The nonce of an operator's rerun is the id of its run.
AdminKeysAreIds ==
  \A i \in DOMAIN runs : runs[i].key.trigger = "admin" => runs[i].key.nonce = i

KeysInv == NoDuplicateRun /\ AdminKeysAreIds

\* A step of the history adds no second row for a key.
LEMMA KeysStep ==
  ASSUME ServiceInv, ServiceInv', KeysInv, HistoryStep
  PROVE  KeysInv'
<1>0. /\ lastId \in Nat /\ lastId' \in {lastId, lastId + 1}
      /\ DOMAIN runs = 1..lastId /\ DOMAIN runs' = 1..lastId'
  BY Zenon DEF ServiceInv, SchedInv, SchedTypeOK, StoreTypeOK, HistoryStep
<1>1. \A i \in 1..lastId : runs'[i].key = runs[i].key
  BY Zenon DEF HistoryStep
<1>2. \A i \in 1..lastId' : i \in 1..lastId \/ (lastId' = lastId + 1 /\ i = lastId')
  BY <1>0
<1>3. AdminKeysAreIds'
  <2>1. ASSUME NEW i \in 1..lastId', runs'[i].key.trigger = "admin"
        PROVE  runs'[i].key.nonce = i
    <3>1. CASE i \in 1..lastId
      BY <1>0, <1>1, <2>1, <3>1, Zenon DEF KeysInv, AdminKeysAreIds
    <3>2. CASE lastId' = lastId + 1 /\ i = lastId'
      BY <2>1, <3>2, Zenon DEF HistoryStep
    <3> QED BY <1>2, <3>1, <3>2, Zenon
  <2> QED BY <1>0, <2>1, Zenon DEF AdminKeysAreIds
<1>4. ASSUME NEW i \in 1..lastId, lastId' = lastId + 1
      PROVE  runs'[i].key # runs'[lastId'].key
  <2>1. CASE runs'[lastId'].key.trigger # "admin"
    <3>1. ~KeyExists(runs'[lastId'].key)
      BY <1>4, <2>1, Zenon DEF HistoryStep
    <3> QED BY <1>0, <1>1, <3>1, Zenon DEF KeyExists
  <2>2. CASE runs'[lastId'].key.trigger = "admin"
    <3>1. runs'[lastId'].key.nonce = lastId + 1
      BY <1>4, <2>2, Zenon DEF HistoryStep
    <3>2. runs[i].key.trigger = "admin" => runs[i].key.nonce = i
      BY <1>0, Zenon DEF KeysInv, AdminKeysAreIds
    <3>3. i # lastId + 1
      BY <1>0
    <3> QED BY <1>1, <2>2, <3>1, <3>2, <3>3, Zenon
  <2> QED BY <2>1, <2>2, Zenon
<1>5. ASSUME NEW i \in 1..lastId', NEW j \in 1..lastId',
             runs'[i].key = runs'[j].key
      PROVE  i = j
  <2>1. CASE i \in 1..lastId /\ j \in 1..lastId
    BY <1>0, <1>1, <1>5, <2>1, Zenon DEF KeysInv, NoDuplicateRun
  <2> QED BY <1>2, <1>4, <1>5, <2>1, Zenon
<1>6. NoDuplicateRun'
  BY <1>0, <1>5, Zenon DEF NoDuplicateRun
<1> QED BY <1>3, <1>6, Zenon DEF KeysInv

\* No delivery, repeated or reordered, no rerun comment and no operator makes
\* a second run for an idempotency key, if the runs pending at the start have
\* keys of their own.
THEOREM KeysAreUnique ==
  ASSUME \A i, j \in 1..Len(Backlog) : Backlog[i] = Backlog[j] => i = j
  PROVE  Spec => []NoDuplicateRun
<1>1. Init => KeysInv
  <2> SUFFICES ASSUME Init PROVE KeysInv
    BY Zenon
  <2>1. DOMAIN runs = 1..Len(Backlog)
    BY InitialRuns, Zenon
  <2>2. ASSUME NEW i \in 1..Len(Backlog)
        PROVE  /\ runs[i].key.trigger = "webhook"
               /\ runs[i].key.mr = Backlog[i].mr
               /\ runs[i].key.head = Backlog[i].head
    <3>1. runs[i].key = [trigger |-> "webhook", mr |-> Backlog[i].mr,
                         head |-> Backlog[i].head, nonce |-> 0]
      BY InitialRuns, Zenon
    <3> QED BY <3>1
  <2>3. ASSUME NEW i \in 1..Len(Backlog), NEW j \in 1..Len(Backlog),
               runs[i].key = runs[j].key
        PROVE  i = j
    <3> DEFINE Pairs == [mr : MRs, head : Heads]
    <3>1. Backlog[i] \in Pairs /\ Backlog[j] \in Pairs
      <4>1. Backlog \in Seq(Pairs)
        BY BacklogAssumption, Zenon
      <4> HIDE DEF Pairs
      <4> QED BY <4>1
    <3>2. Backlog[i].mr = Backlog[j].mr /\ Backlog[i].head = Backlog[j].head
      BY <2>2, <2>3, Zenon
    <3>3. Backlog[i] = Backlog[j]
      BY <3>1, <3>2
    <3> QED BY <3>3, Zenon
  <2>4. AdminKeysAreIds
    BY <2>1, <2>2, Zenon DEF AdminKeysAreIds
  <2> QED BY <2>1, <2>3, <2>4, Zenon DEF KeysInv, NoDuplicateRun
<1>2. ServiceInv /\ ServiceInv' /\ KeysInv /\ [Next]_vars => KeysInv'
  BY ServiceHistory, KeysStep, Zenon
<1>3. KeysInv => NoDuplicateRun
  BY DEF KeysInv
<1> QED BY <1>1, <1>2, <1>3, ServiceInvariant, PTL DEF Spec

-----------------------------------------------------------------------------
(***************************************************************************)
(* Intake on its own, when the events of a merge request arrive in order,  *)
(* although some are repeated, when no push goes back to an earlier head   *)
(* and when nobody comments on a merge request that is not open: what the  *)
(* events under way and the runs have to do with each other, and that a    *)
(* change of the forge and a delivery keep it so.                          *)
(*                                                                         *)
(* The head the service has recorded, the heads of the events under way in *)
(* the order they were sent, and the head the forge has form one sequence  *)
(* in which equal heads are next to each other.  A head that is delivered  *)
(* is therefore the recorded one or one that no run has yet.               *)
(***************************************************************************)

First(m, e) == \A f \in wire[m] : e.n <= f.n
Last(m, e) == \A f \in wire[m] : f.n <= e.n

\* The heads the merge request has had.
Known(m) == forge[m].past \cup {forge[m].head}

-----------------------------------------------------------------------------
(* Events                                                                  *)

\* The events under way are numbered apart, and the first one ever sent, the
\* opening, is under way until the service knows the merge request.
EventsNumbered(m) ==
  /\ \A e \in wire[m] : e.n <= moves /\ e.state # "none"
  /\ \A e, f \in wire[m] : e.n = f.n => e = f
  /\ forge[m].state = "none" => wire[m] = {} /\ mrs[m].state = "none"
  /\ mrs[m].state = "none" =>
       forge[m].state = "none" \/ \E e \in wire[m] : e.action = "open"
  /\ \A e \in wire[m] : e.action = "open" => First(m, e)

\* Equal heads are next to each other, from the recorded head over the events
\* to the head of the forge, and a rerun is for the head before it.
HeadsInOrder(m) ==
  /\ mrs[m].head \in Known(m) /\ \A e \in wire[m] : e.head \in Known(m)
  /\ \A e, f, g \in wire[m] :
       e.n < f.n /\ f.n < g.n /\ e.head = g.head => f.head = e.head
  /\ \A e, f \in wire[m] :
       e.n < f.n /\ f.head = mrs[m].head => e.head = mrs[m].head
  /\ \A e, f \in wire[m] :
       e.n < f.n /\ e.head = forge[m].head => f.head = forge[m].head
  /\ mrs[m].head = forge[m].head => \A e \in wire[m] : e.head = forge[m].head
  /\ \/ mrs[m].head = forge[m].head
     \/ \E e \in wire[m] : e.head = forge[m].head
  /\ \A e \in wire[m] : e.action = "rerun" =>
       \/ e.head = mrs[m].head
       \/ \E f \in wire[m] : f.n < e.n /\ f.head = e.head

EventsInv == \A m \in MRs : EventsNumbered(m) /\ HeadsInOrder(m)

\* A change of the forge and the event e that announces it.
Moved(m, e) ==
  /\ e.n = moves + 1 /\ moves' = moves + 1
  /\ wire' = [wire EXCEPT ![m] = @ \cup {e}]
  /\ \A k \in MRs : k # m => forge'[k] = forge[k]
  /\ forge'[m].state = e.state /\ forge'[m].head = e.head
  /\ forge'[m].past = Known(m)
  /\ e.head = forge[m].head \/ e.head \notin Known(m)
  /\ e.state # "none"
  /\ e.action = "open" <=> forge[m].state = "none"
  /\ e.action = "rerun" => e.head = forge[m].head /\ forge[m].state = "opened"
  /\ e.action = "reopen" => forge[m].state = "closed"
  /\ e.action \in {"close", "merge"} <=> e.state \in {"closed", "merged"}
  /\ UNCHANGED <<runs, lastId, mrs>>

\* The delivery of e, the first event under way.
Delivered(m, e) ==
  /\ e \in wire[m] /\ First(m, e)
  /\ wire' \in {wire, [wire EXCEPT ![m] = @ \ {e}]}
  /\ UNCHANGED <<forge, moves>>
  /\ ProcessEvent(m, e)

\* Every change the forge makes is such a move.
LEMMA ForgeMoved ==
  ASSUME ~Rewinds, ~LateComments, IntakeTypeOK, NEW m \in MRs, ForgeMoves(m)
  PROVE  \E e \in Events : Moved(m, e)
<1>0. /\ moves \in Nat /\ moves + 1 \in Nat
      /\ forge \in [MRs -> [state : MRStates, head : Heads, past : SUBSET Heads]]
      /\ forge[m].head \in Heads /\ forge[m].state \in MRStates
  <2>1. moves \in Nat
    BY IntakeAssumption DEF IntakeTypeOK
  <2> QED BY <2>1 DEF IntakeTypeOK
<1>1. /\ moves' = moves + 1 /\ ForgeChanges(m) /\ UNCHANGED <<runs, lastId, mrs>>
  BY Zenon DEF ForgeMoves
<1>2. NewHeads(m) \subseteq Heads /\ \A h \in NewHeads(m) : h \notin Known(m)
  BY Zenon DEF NewHeads, Known
<1>3. ASSUME NEW action \in Actions, NEW state \in MRStates, NEW h \in Heads,
             Becomes(m, state, h), Announce(m, action, state, h),
             h = forge[m].head \/ h \notin Known(m), state # "none",
             action = "open" <=> forge[m].state = "none",
             action = "rerun" => h = forge[m].head /\ forge[m].state = "opened",
             action = "reopen" => forge[m].state = "closed",
             action \in {"close", "merge"} <=> state \in {"closed", "merged"}
      PROVE  \E e \in Events : Moved(m, e)
  <2> DEFINE e == [n |-> moves + 1, action |-> action, state |-> state, head |-> h]
  <2>1. /\ e \in Events /\ e.n = moves + 1 /\ e.action = action
        /\ e.state = state /\ e.head = h
    BY <1>0, Zenon DEF Events
  <2>2. wire' = [wire EXCEPT ![m] = @ \cup {e}]
    BY <1>3, Zenon DEF Announce
  <2> HIDE DEF e
  <2>3. /\ \A k \in MRs : k # m => forge'[k] = forge[k]
        /\ forge'[m].state = state /\ forge'[m].head = h
        /\ forge'[m].past = Known(m)
    BY <1>0, <1>3, Zenon DEF Becomes, Known
  <2> QED BY <1>1, <1>3, <2>1, <2>2, <2>3, Zenon DEF Moved
<1> USE DEF Actions, MRStates
<1> DEFINE head == forge[m].head
<1>4. CASE forge[m].state = "none" /\ Becomes(m, "opened", head)
           /\ Announce(m, "open", "opened", head)
  BY <1>0, <1>3, <1>4, Zenon
<1>5. ASSUME NEW h \in NewHeads(m) \cup {head}, forge[m].state = "opened",
             Becomes(m, "opened", h), Announce(m, "update", "opened", h)
      PROVE  \E e \in Events : Moved(m, e)
  BY <1>0, <1>2, <1>3, <1>5, Zenon
<1>6. CASE forge[m].state = "opened" /\ Becomes(m, "closed", head)
           /\ Announce(m, "close", "closed", head)
  BY <1>0, <1>3, <1>6, Zenon
<1>7. CASE forge[m].state = "opened" /\ Becomes(m, "merged", head)
           /\ Announce(m, "merge", "merged", head)
  BY <1>0, <1>3, <1>7, Zenon
<1>8. ASSUME NEW h \in NewHeads(m) \cup {head}, forge[m].state = "closed",
             Becomes(m, "opened", h), Announce(m, "reopen", "opened", h)
      PROVE  \E e \in Events : Moved(m, e)
  BY <1>0, <1>2, <1>3, <1>8, Zenon
<1>9. CASE forge[m].state = "opened" /\ Becomes(m, forge[m].state, head)
           /\ Announce(m, "rerun", forge[m].state, head)
  BY <1>0, <1>3, <1>9, Zenon
<1> QED BY <1>1, <1>4, <1>5, <1>6, <1>7, <1>8, <1>9, Zenon DEF ForgeChanges

\* A merge request nothing happens to keeps its events in order.
LEMMA EventsElsewhere ==
  ASSUME NEW k \in MRs, EventsNumbered(k), HeadsInOrder(k),
         moves \in Nat, moves' \in Nat, moves <= moves',
         \A e \in wire[k] : e.n \in Nat,
         wire'[k] = wire[k], forge'[k] = forge[k], mrs'[k] = mrs[k]
  PROVE  EventsNumbered(k)' /\ HeadsInOrder(k)'
<1>1. EventsNumbered(k)'
  BY DEF EventsNumbered, First
<1>2. HeadsInOrder(k)'
  BY DEF HeadsInOrder, Known
<1> QED BY <1>1, <1>2, Zenon

\* A change of the forge sends its event behind the others: its head is that
\* of the forge, which is either the last one or new.
LEMMA EventsMoved ==
  ASSUME IntakeTypeOK, EventsInv, NEW m \in MRs, NEW e \in Events, Moved(m, e)
  PROVE  EventsInv'
<1>0. /\ moves \in Nat /\ moves' \in Nat /\ moves <= moves'
      /\ \A k \in MRs : \A f \in wire[k] : f \in Events /\ f.n \in Nat
      /\ \A k \in MRs : k # m => wire'[k] = wire[k]
      /\ wire'[m] = wire[m] \cup {e}
  BY IntakeAssumption DEF IntakeTypeOK, Moved, Events
<1>1. ASSUME NEW k \in MRs, k # m PROVE EventsNumbered(k)' /\ HeadsInOrder(k)'
  BY <1>0, <1>1, EventsElsewhere, Zenon DEF EventsInv, Moved
<1>2. EventsNumbered(m)'
  <2>1. \A f \in wire'[m] : f.n <= moves' /\ f.state # "none"
    BY <1>0 DEF EventsInv, EventsNumbered, Moved
  <2>2. \A f, g \in wire'[m] : f.n = g.n => f = g
    BY <1>0 DEF EventsInv, EventsNumbered, Moved
  <2>3. forge'[m].state # "none"
    BY Zenon DEF Moved
  <2>4. mrs'[m].state = "none" => \E f \in wire'[m] : f.action = "open"
    BY <1>0, Zenon DEF EventsInv, EventsNumbered, Moved
  <2>5. \A f \in wire'[m] : f.action = "open" => First(m, f)'
    BY <1>0 DEF EventsInv, EventsNumbered, Moved, First
  <2> QED BY <2>1, <2>2, <2>3, <2>4, <2>5, Zenon DEF EventsNumbered
<1>3. HeadsInOrder(m)'
  <2> DEFINE new == forge'[m].head
  <2>1. /\ new = e.head /\ mrs'[m] = mrs[m]
        /\ new = forge[m].head \/ new \notin Known(m)
        /\ Known(m)' = Known(m) \cup {new}
        /\ \A f \in wire[m] : f.n < e.n
    BY <1>0 DEF EventsInv, EventsNumbered, Moved, Known
  <2> HIDE DEF new
  <2>2. HeadsInOrder(m) /\ forge[m].head \in Known(m)
    BY Zenon DEF EventsInv, Known
  <2>3. e.n \in Nat /\ \A f \in wire'[m] : f.n \in Nat /\ f.n <= e.n
    BY <1>0, <2>1 DEF Events
  <2>4. mrs'[m].head \in Known(m)' /\ \A f \in wire'[m] : f.head \in Known(m)'
    BY <1>0, <2>1, <2>2, Zenon DEF HeadsInOrder
  <2>5. \A f, g, h \in wire'[m] :
          f.n < g.n /\ g.n < h.n /\ f.head = h.head => g.head = f.head
    <3>1. SUFFICES ASSUME NEW f \in wire'[m], NEW g \in wire'[m],
                          NEW h \in wire'[m],
                          f.n < g.n, g.n < h.n, f.head = h.head
                   PROVE  g.head = f.head
      BY Zenon
    <3>2. f \in wire[m] /\ g \in wire[m]
      BY <1>0, <2>1, <3>1, <2>3
    <3>3. CASE h = e
      BY <2>1, <2>2, <3>1, <3>2, <3>3 DEF HeadsInOrder
    <3>4. CASE h \in wire[m]
      BY <2>2, <3>1, <3>2, <3>4, Zenon DEF HeadsInOrder
    <3> QED BY <1>0, <3>3, <3>4, Zenon
  <2>6. \A f, g \in wire'[m] :
          f.n < g.n /\ g.head = mrs'[m].head => f.head = mrs'[m].head
    <3>1. SUFFICES ASSUME NEW f \in wire'[m], NEW g \in wire'[m],
                          f.n < g.n, g.head = mrs[m].head
                   PROVE  f.head = mrs[m].head
      BY <2>1, Zenon
    <3>2. f \in wire[m]
      BY <1>0, <2>1, <3>1, <2>3
    <3>3. CASE g = e
      BY <2>1, <2>2, <3>1, <3>2, <3>3, Zenon DEF HeadsInOrder
    <3>4. CASE g \in wire[m]
      BY <2>2, <3>1, <3>2, <3>4, Zenon DEF HeadsInOrder
    <3> QED BY <1>0, <3>3, <3>4, Zenon
  <2>7. \A f, g \in wire'[m] : f.n < g.n /\ f.head = new => g.head = new
    <3>1. SUFFICES ASSUME NEW f \in wire[m], NEW g \in wire[m],
                          f.n < g.n, f.head = new
                   PROVE  g.head = new
      BY <1>0, <2>1, <2>3
    <3>2. new = forge[m].head
      BY <2>1, <2>2, <3>1 DEF HeadsInOrder
    <3> QED BY <2>2, <3>1, <3>2 DEF HeadsInOrder
  <2>8. mrs'[m].head = new => \A f \in wire'[m] : f.head = new
    BY <1>0, <2>1, <2>2, Zenon DEF HeadsInOrder
  <2>9. \E f \in wire'[m] : f.head = new
    BY <1>0, <2>1, Zenon
  <2>10. \A f \in wire'[m] : f.action = "rerun" =>
          \/ f.head = mrs'[m].head
          \/ \E g \in wire'[m] : g.n < f.n /\ g.head = f.head
    <3>1. e.action = "rerun" => e.head = forge[m].head
      BY Zenon DEF Moved
    <3> QED BY <1>0, <2>1, <2>2, <3>1, Zenon DEF HeadsInOrder
  <2> QED BY <2>4, <2>5, <2>6, <2>7, <2>8, <2>9, <2>10, Zenon DEF HeadsInOrder, new
<1> QED BY <1>1, <1>2, <1>3, Zenon DEF EventsInv

\* In order, whatever is delivered leaves its head recorded: a rerun comment
\* that comes first is for the recorded head, and a close or a merge finds the
\* merge request known.
LEMMA HeadIsRecorded ==
  ASSUME IntakeTypeOK, EventsInv, NEW m \in MRs, NEW e, Delivered(m, e)
  PROVE  /\ mrs'[m].head = e.head /\ mrs'[m].state # "none"
         /\ \A k \in MRs : k # m => mrs'[k] = mrs[k]
         /\ e.action # "open" => mrs[m].state # "none"
         /\ e.action = "rerun" => mrs'[m] = mrs[m]
<1>0. /\ e \in wire[m] /\ ProcessEvent(m, e) /\ e \in Events /\ First(m, e)
      /\ EventsNumbered(m) /\ HeadsInOrder(m) /\ e.state # "none"
      /\ mrs \in [MRs -> [state : MRStates, head : Heads]]
      /\ \A f \in wire[m] : f.n \in Nat
  BY DEF Delivered, IntakeTypeOK, EventsInv, EventsNumbered, Events
<1>1. e.action # "open" => mrs[m].state # "none"
  <2>1. ASSUME mrs[m].state = "none" PROVE e.action = "open"
    <3>1. PICK f \in wire[m] : f.action = "open"
      BY <1>0, <2>1, Zenon DEF EventsNumbered
    <3>2. f.n = e.n
      BY <1>0, <3>1 DEF EventsNumbered, First
    <3> QED BY <1>0, <3>1, <3>2, Zenon DEF EventsNumbered
  <2> QED BY <2>1, Zenon
<1>2. CASE UpsertMergeRequest(m, e) /\ e.action # "rerun"
  BY <1>0, <1>1, <1>2, Zenon DEF UpsertMergeRequest
<1>3. CASE UpdateMergeRequestState(m, e) /\ e.action # "rerun"
  BY <1>0, <1>1, <1>3, Zenon DEF UpdateMergeRequestState
<1>4. CASE e.action = "rerun" /\ mrs' = mrs
  BY <1>0, <1>1, <1>4 DEF HeadsInOrder, First
<1> QED
  <2>1. \/ UpsertMergeRequest(m, e) /\ e.action # "rerun"
        \/ UpdateMergeRequestState(m, e) /\ e.action # "rerun"
        \/ e.action = "rerun" /\ mrs' = mrs
    BY <1>0, <1>1, Zenon DEF ProcessEvent, CreatePendingRun, HandleUpdate, CancelRuns,
                      ExecuteRerun
  <2> QED BY <1>2, <1>3, <1>4, <2>1, Zenon

\* A delivery takes the head of the first event over as the recorded one.
LEMMA EventsDelivered ==
  ASSUME IntakeTypeOK, EventsInv, NEW m \in MRs, NEW e, Delivered(m, e)
  PROVE  EventsInv'
<1>0. /\ moves \in Nat /\ moves' = moves /\ forge' = forge
      /\ \A k \in MRs : \A f \in wire[k] : f.n \in Nat
      /\ \A k \in MRs : k # m => wire'[k] = wire[k]
      /\ wire'[m] \in {wire[m], wire[m] \ {e}}
      /\ e \in wire[m] /\ First(m, e)
  BY IntakeAssumption DEF IntakeTypeOK, Delivered, Events
<1>1. /\ mrs'[m].head = e.head /\ mrs'[m].state # "none"
      /\ \A k \in MRs : k # m => mrs'[k] = mrs[k]
  BY HeadIsRecorded, Zenon
<1>2. ASSUME NEW k \in MRs, k # m PROVE EventsNumbered(k)' /\ HeadsInOrder(k)'
  BY <1>0, <1>1, <1>2, EventsElsewhere DEF EventsInv
<1>3. EventsNumbered(m) /\ HeadsInOrder(m)
  BY Zenon DEF EventsInv
<1>4. EventsNumbered(m)'
  BY <1>0, <1>1, <1>3, Zenon DEF EventsNumbered, First
<1>5. \A f \in wire[m] : f # e => e.n < f.n
  BY <1>0, <1>3 DEF EventsNumbered, First
<1>6. \A f \in wire'[m] : f \in wire[m]
  BY <1>0, Zenon
<1>7. HeadsInOrder(m)'
  <2>1. mrs'[m].head \in Known(m)' /\ \A f \in wire'[m] : f.head \in Known(m)'
    BY <1>0, <1>1, <1>3, <1>6, Zenon DEF HeadsInOrder, Known
  <2>2. \A f, g, h \in wire'[m] :
          f.n < g.n /\ g.n < h.n /\ f.head = h.head => g.head = f.head
    BY <1>3, <1>6, Zenon DEF HeadsInOrder
  <2>3. \A f, g \in wire'[m] :
          f.n < g.n /\ g.head = mrs'[m].head => f.head = mrs'[m].head
    BY <1>0, <1>1, <1>3, <1>5, <1>6 DEF HeadsInOrder
  <2>4. \A f, g \in wire'[m] :
          f.n < g.n /\ f.head = forge'[m].head => g.head = forge'[m].head
    BY <1>0, <1>3, <1>6, Zenon DEF HeadsInOrder
  <2>5. mrs'[m].head = forge'[m].head =>
          \A f \in wire'[m] : f.head = forge'[m].head
    <3>1. \A f \in wire[m] : e.n < f.n /\ e.head = forge[m].head
                             => f.head = forge[m].head
      BY <1>0, <1>3, Zenon DEF HeadsInOrder
    <3> QED BY <1>0, <1>1, <1>5, <1>6, <3>1, Zenon
  <2>6. \/ mrs'[m].head = forge'[m].head
        \/ \E f \in wire'[m] : f.head = forge'[m].head
    BY <1>0, <1>1, <1>3, Zenon DEF HeadsInOrder
  <2>7. \A f \in wire'[m] : f.action = "rerun" =>
          \/ f.head = mrs'[m].head
          \/ \E g \in wire'[m] : g.n < f.n /\ g.head = f.head
    <3>1. SUFFICES ASSUME NEW f \in wire[m], f.action = "rerun",
                          f.head # e.head, f # e
                   PROVE  \E g \in wire'[m] : g.n < f.n /\ g.head = f.head
      BY <1>1, <1>6, Zenon
    <3>2. CASE f.head = mrs[m].head
      BY <1>0, <1>3, <1>5, <3>1, <3>2, Zenon DEF HeadsInOrder
    <3>3. CASE \E g \in wire[m] : g.n < f.n /\ g.head = f.head
      BY <1>0, <3>1, <3>3, Zenon
    <3> QED BY <1>3, <3>1, <3>2, <3>3, Zenon DEF HeadsInOrder
  <2> QED BY <2>1, <2>2, <2>3, <2>4, <2>5, <2>6, <2>7, Zenon DEF HeadsInOrder
<1> QED BY <1>2, <1>4, <1>7, Zenon DEF EventsInv

-----------------------------------------------------------------------------
(* Runs                                                                    *)

\* A run is for a head the merge request has had; while active, for the
\* recorded one; and no event will make the service record its head again.
RunsMatch(m) ==
  \A i \in 1..lastId : runs[i].mr = m =>
    /\ runs[i].key.mr = m /\ runs[i].key.head = runs[i].head
    /\ mrs[m].state # "none"
    /\ runs[i].head \in Known(m)
    /\ Active(runs[i]) => runs[i].head = mrs[m].head
    /\ \A e \in wire[m] : e.head = runs[i].head => e.head = mrs[m].head

\* NewerRunReplacesOlder for one merge request.
OlderSettled(m) ==
  \A i, j \in 1..lastId :
    /\ i < j /\ runs[i].mr = m /\ runs[j].mr = m
    /\ runs[j].key.trigger = "webhook"
    => ~Active(runs[i])

NoActive(m) == \A i \in 1..lastId : runs[i].mr = m => ~Active(runs[i])

\* An open or a reopen for head would find nothing to replace.
Ready(m, head) == NoActive(m) \/ KeyExists(WebhookKey(m, head))

\* What the events under way will find and leave: an open and a reopen find
\* nothing to replace, a reopen because the close sent just before it settles
\* everything; a close or a merge is the last event of a merge request that is
\* closed; and the head of an open one is reviewed or an event for it under way.
EventsSuffice(m) ==
  /\ \A e \in wire[m] : e.action = "open" => Ready(m, e.head)
  /\ \A e \in wire[m] : e.action = "reopen" =>
       \/ First(m, e) /\ Ready(m, e.head)
       \/ \E f \in wire[m] :
            /\ f.action \in {"close", "merge"} /\ f.n < e.n
            /\ \A g \in wire[m] : g.n <= f.n \/ e.n <= g.n
  /\ forge[m].state \in {"closed", "merged"} =>
       \/ wire[m] = {} /\ NoActive(m)
       \/ \E e \in wire[m] : e.action \in {"close", "merge"} /\ Last(m, e)
  /\ forge[m].state = "opened" =>
       \/ KeyExists(WebhookKey(m, forge[m].head))
       \/ \E e \in wire[m] : /\ e.action \in {"open", "reopen", "update"}
                             /\ e.head = forge[m].head

RunsInv == \A m \in MRs : RunsMatch(m) /\ OlderSettled(m) /\ EventsSuffice(m)

\* Keys are never lost, and a merge request that gets no run stays settled.
LEMMA RowsLastKeeps ==
  ASSUME lastId \in Nat, lastId' \in {lastId, lastId + 1}, RowsLast,
         DOMAIN runs = 1..lastId, DOMAIN runs' = 1..lastId'
  PROVE  /\ \A key : KeyExists(key) => KeyExists(key)'
         /\ \A m : /\ NoActive(m)
                   /\ lastId' = lastId + 1 => runs'[lastId + 1].mr # m
                   => NoActive(m)'
<1>1. \A i \in 1..lastId : i \in 1..lastId'
  OBVIOUS
<1>2. \A key : KeyExists(key) => KeyExists(key)'
  BY <1>1, Zenon DEF KeyExists, RowsLast
<1>3. \A i \in 1..lastId' :
        i \in 1..lastId \/ (lastId' = lastId + 1 /\ i = lastId + 1)
  OBVIOUS
<1>4. \A m : /\ NoActive(m)
             /\ lastId' = lastId + 1 => runs'[lastId + 1].mr # m
             => NoActive(m)'
  BY <1>3, Zenon DEF NoActive, RowsLast
<1> QED BY <1>2, <1>4, Zenon

\* A merge request that no event is sent or delivered for keeps all this,
\* whatever the scheduler does to its runs.
LEMMA RunsElsewhere ==
  ASSUME NEW m \in MRs, RunsMatch(m), OlderSettled(m), EventsSuffice(m),
         lastId \in Nat, lastId' \in {lastId, lastId + 1}, RowsLast,
         DOMAIN runs = 1..lastId, DOMAIN runs' = 1..lastId',
         lastId' = lastId + 1 => runs'[lastId + 1].mr # m,
         wire'[m] = wire[m], forge'[m] = forge[m], mrs'[m] = mrs[m]
  PROVE  RunsMatch(m)' /\ OlderSettled(m)' /\ EventsSuffice(m)'
<1>1. \A i \in 1..lastId' : runs'[i].mr = m => i \in 1..lastId
  OBVIOUS
<1>2. RunsMatch(m)'
  BY <1>1 DEF RunsMatch, RowsLast, Known
<1>3. OlderSettled(m)'
  BY <1>1, Zenon DEF OlderSettled, RowsLast
<1>4. /\ NoActive(m) => NoActive(m)'
      /\ \A head : KeyExists(WebhookKey(m, head)) => KeyExists(WebhookKey(m, head))'
  BY RowsLastKeeps, Zenon DEF WebhookKey
<1>5. \A head : Ready(m, head) => Ready(m, head)'
  BY <1>4, Zenon DEF Ready
<1>6. \A e : (First(m, e) => First(m, e)') /\ (Last(m, e) => Last(m, e)')
  BY Zenon DEF First, Last
<1>7. EventsSuffice(m)'
  BY <1>4, <1>5, <1>6, Zenon DEF EventsSuffice
<1> QED BY <1>2, <1>3, <1>7, Zenon

\* A change of the forge leaves the runs alone, and its event finds what it
\* needs when its turn comes.
LEMMA RunsMoved ==
  ASSUME StoreTypeOK, IntakeTypeOK, EventsInv, RunsInv,
         NEW m \in MRs, NEW e \in Events, Moved(m, e)
  PROVE  RunsInv'
<1>0. /\ lastId \in Nat /\ lastId' = lastId /\ runs' = runs /\ mrs' = mrs
      /\ DOMAIN runs = 1..lastId
      /\ \A k \in MRs : k # m => wire'[k] = wire[k] /\ forge'[k] = forge[k]
      /\ wire'[m] = wire[m] \cup {e}
      /\ forge'[m].head = e.head /\ forge'[m].state = e.state
  BY Zenon DEF StoreTypeOK, Moved, IntakeTypeOK
<1>1. RowsLast
  BY <1>0, Zenon DEF RowsLast
<1>2. ASSUME NEW k \in MRs, k # m
      PROVE  RunsMatch(k)' /\ OlderSettled(k)' /\ EventsSuffice(k)'
  BY <1>0, <1>1, <1>2, RunsElsewhere DEF RunsInv
<1>3. RunsMatch(m) /\ OlderSettled(m) /\ EventsSuffice(m)
      /\ EventsNumbered(m) /\ HeadsInOrder(m)
  BY Zenon DEF RunsInv, EventsInv
<1>4. e.n \in Nat /\ \A f \in wire[m] : f.n \in Nat /\ f.n < e.n
  BY <1>3, IntakeAssumption DEF IntakeTypeOK, Events, EventsNumbered, Moved
<1>5. RunsMatch(m)'
  <2>1. \A i \in 1..lastId : runs[i].mr = m /\ e.head = runs[i].head
                             => e.head = mrs[m].head
    <3>1. SUFFICES ASSUME NEW i \in 1..lastId, runs[i].mr = m,
                          e.head = runs[i].head
                   PROVE  e.head = mrs[m].head
      BY Zenon
    <3>2. e.head = forge[m].head
      BY <1>3, <3>1, Zenon DEF RunsMatch, Moved
    <3>3. CASE mrs[m].head = forge[m].head
      BY <3>2, <3>3, Zenon
    <3>4. ASSUME NEW f \in wire[m], f.head = forge[m].head
          PROVE  e.head = mrs[m].head
      BY <1>3, <3>1, <3>2, <3>4, Zenon DEF RunsMatch
    <3> QED BY <1>3, <3>3, <3>4, Zenon DEF HeadsInOrder
  <2>2. Known(m) \subseteq Known(m)'
    BY Zenon DEF Known, Moved
  <2> QED BY <1>0, <1>3, <2>1, <2>2, Zenon DEF RunsMatch
<1>6. OlderSettled(m)'
  BY <1>0, <1>3, Zenon DEF OlderSettled
<1>7. EventsSuffice(m)'
  <2>1. /\ NoActive(m)' <=> NoActive(m)
        /\ \A h : KeyExists(WebhookKey(m, h))' <=> KeyExists(WebhookKey(m, h))
        /\ \A h : Ready(m, h)' <=> Ready(m, h)
    BY <1>0, Zenon DEF NoActive, Ready, KeyExists, WebhookKey
  <2>2. \A f \in wire'[m] : f.action = "open" => Ready(m, f.head)'
    <3>1. ASSUME e.action = "open" PROVE NoActive(m)
      BY <1>3, <3>1, Zenon DEF Moved, EventsNumbered, RunsMatch, NoActive
    <3> QED BY <1>0, <1>3, <2>1, <3>1, Zenon DEF EventsSuffice, Ready
  <2>3. ASSUME NEW f \in wire'[m], f.action = "reopen"
        PROVE  \/ First(m, f)' /\ Ready(m, f.head)'
               \/ \E c \in wire'[m] :
                    /\ c.action \in {"close", "merge"} /\ c.n < f.n
                    /\ \A g \in wire'[m] : g.n <= c.n \/ f.n <= g.n
    <3>1. CASE f \in wire[m] /\ First(m, f) /\ Ready(m, f.head)
      <4>1. First(m, f)'
        BY <1>0, <1>4, <3>1 DEF First
      <4> QED BY <2>1, <3>1, <4>1, Zenon
    <3>2. ASSUME f \in wire[m], NEW c \in wire[m],
                 c.action \in {"close", "merge"}, c.n < f.n,
                 \A g \in wire[m] : g.n <= c.n \/ f.n <= g.n
          PROVE  \E d \in wire'[m] :
                    /\ d.action \in {"close", "merge"} /\ d.n < f.n
                    /\ \A g \in wire'[m] : g.n <= d.n \/ f.n <= g.n
      BY <1>0, <1>4, <3>2
    <3>3. CASE f = e
      <4>1. forge[m].state = "closed"
        BY <2>3, <3>3, Zenon DEF Moved
      <4>2. CASE wire[m] = {} /\ NoActive(m)
        <5>1. First(m, f)'
          BY <1>0, <1>4, <3>3, <4>2 DEF First
        <5> QED BY <2>1, <4>2, <5>1, Zenon DEF Ready
      <4>3. ASSUME NEW c \in wire[m], c.action \in {"close", "merge"}, Last(m, c)
            PROVE  \E d \in wire'[m] :
                     /\ d.action \in {"close", "merge"} /\ d.n < f.n
                     /\ \A g \in wire'[m] : g.n <= d.n \/ f.n <= g.n
        BY <1>0, <1>4, <3>3, <4>3 DEF Last
      <4> QED BY <1>3, <4>1, <4>2, <4>3, Zenon DEF EventsSuffice
    <3> QED BY <1>0, <1>3, <2>3, <3>1, <3>2, <3>3, Zenon DEF EventsSuffice
  <2>4. forge'[m].state \in {"closed", "merged"} =>
          \E c \in wire'[m] : c.action \in {"close", "merge"} /\ Last(m, c)'
    <3>1. Last(m, e)'
      BY <1>0, <1>4 DEF Last
    <3> QED BY <1>0, <3>1, Zenon DEF Moved
  <2>5. forge'[m].state = "opened" =>
          \/ KeyExists(WebhookKey(m, e.head))'
          \/ \E f \in wire'[m] : /\ f.action \in {"open", "reopen", "update"}
                                 /\ f.head = e.head
    <3>1. SUFFICES ASSUME e.state = "opened",
                          e.action \notin {"open", "reopen", "update"}
                   PROVE  \/ KeyExists(WebhookKey(m, e.head))
                          \/ \E f \in wire[m] :
                               /\ f.action \in {"open", "reopen", "update"}
                               /\ f.head = e.head
      BY <1>0, <2>1, Zenon
    <3>2. e.head = forge[m].head /\ forge[m].state = "opened"
      BY <3>1, Zenon DEF Moved, Events, Actions
    <3> QED BY <1>3, <3>2, Zenon DEF EventsSuffice
  <2>6. forge'[m].state = "opened" =>
          \/ KeyExists(WebhookKey(m, forge[m].head))'
          \/ \E f \in wire'[m] : /\ f.action \in {"open", "reopen", "update"}
                                 /\ f.head = forge'[m].head
    BY <1>0, <2>5, Zenon DEF KeyExists, WebhookKey
  <2> QED BY <2>2, <2>3, <2>4, <2>6, Zenon DEF EventsSuffice
<1> QED BY <1>2, <1>5, <1>6, <1>7, Zenon DEF RunsInv

\* A run with a webhook's key is a run of its merge request for its head.
LEMMA KeyTells ==
  ASSUME RunsInv, StoreTypeOK, NEW m \in MRs, NEW head,
         KeyExists(WebhookKey(m, head))
  PROVE  \E i \in 1..lastId : runs[i].mr = m /\ runs[i].head = head
<1>1. PICK i \in 1..lastId : runs[i].key = WebhookKey(m, head)
  BY Zenon DEF KeyExists, StoreTypeOK
<1>2. runs[i].mr \in MRs
  BY Zenon DEF StoreTypeOK, Rows
<1>3. runs[i].key.mr = runs[i].mr /\ runs[i].key.head = runs[i].head
  BY <1>2, Zenon DEF RunsInv, RunsMatch
<1> QED BY <1>1, <1>3 DEF WebhookKey

\* What the event delivered leaves of the runs of its merge request: an active
\* one only if it is for the head the event brings, and none older than the
\* run a webhook creates.
LEMMA DeliverySettles ==
  ASSUME StoreTypeOK, IntakeTypeOK, EventsInv, RunsInv,
         NEW m \in MRs, NEW e, Delivered(m, e), DeliveredRows(m, e)
  PROVE  /\ e.head = mrs[m].head \/ AllSettled(m)
         /\ e.action \in {"open", "reopen", "update"} =>
              lastId' = lastId \/ AllSettled(m)
         /\ e.action \in {"close", "merge"} => AllSettled(m)
<1>0. /\ e \in wire[m] /\ First(m, e) /\ e \in Events
      /\ RunsMatch(m) /\ EventsSuffice(m) /\ RowsLast
      /\ \A f \in wire[m] : f.n \in Nat
  BY DEF Delivered, RunsInv, IntakeTypeOK, DeliveredRows, Events
<1>1. NoActive(m) => AllSettled(m)
  BY <1>0, Zenon DEF NoActive, AllSettled, RowsLast
<1>2. KeyExists(WebhookKey(m, e.head)) => e.head = mrs[m].head
  BY <1>0, KeyTells DEF RunsMatch
<1>3. CASE e.action \in {"open", "reopen"}
  <2>1. Ready(m, e.head)
    BY <1>0, <1>3 DEF EventsSuffice, First
  <2>2. NoActive(m) \/ KeyExists(WebhookKey(m, e.head))
    BY <2>1, Zenon DEF Ready
  <2>3. lastId' = lastId \/ ~KeyExists(WebhookKey(m, e.head))
    BY <1>3, Zenon DEF DeliveredRows
  <2> QED BY <1>1, <1>2, <1>3, <2>2, <2>3, Zenon
<1>4. CASE e.action = "update"
  BY <1>2, <1>4, Zenon DEF DeliveredRows
<1>5. CASE e.action \in {"close", "merge"}
  BY <1>5, HeadIsRecorded, Zenon DEF DeliveredRows
<1>6. CASE e.action = "rerun"
  BY <1>6, HeadIsRecorded, Zenon
<1> QED BY <1>0, <1>3, <1>4, <1>5, <1>6, Zenon DEF Events, Actions

\* A delivery keeps the runs and the events under way in step.
LEMMA RunsDelivered ==
  ASSUME StoreTypeOK, StoreTypeOK', IntakeTypeOK, EventsInv, RunsInv,
         NEW m \in MRs, NEW e, Delivered(m, e)
  PROVE  RunsInv'
<1>0. /\ lastId \in Nat /\ DOMAIN runs = 1..lastId /\ DOMAIN runs' = 1..lastId'
      /\ \A k \in MRs : k # m => wire'[k] = wire[k]
      /\ wire'[m] \in {wire[m], wire[m] \ {e}}
      /\ forge' = forge /\ e \in wire[m] /\ e \in Events
  BY Zenon DEF StoreTypeOK, Delivered, IntakeTypeOK
<1>1. DeliveredRows(m, e) /\ RowsLast
  BY DeliveryRows, Zenon DEF Delivered, DeliveredRows
<1>2. \/ lastId' = lastId
      \/ \E key : /\ Creates(m, e.head, key) /\ key.mr = m /\ key.head = e.head
                  /\ key.trigger = "webhook" =>
                       e.action \in {"open", "reopen", "update"}
  BY <1>0, <1>1 DEF DeliveredRows, Events, Actions, WebhookKey, CommandKey
<1>3. /\ lastId' \in {lastId, lastId + 1}
      /\ lastId' = lastId + 1 => runs'[lastId + 1].mr = m
  BY <1>0, <1>2 DEF Creates
<1>4. /\ mrs'[m].head = e.head /\ mrs'[m].state # "none"
      /\ \A k \in MRs : k # m => mrs'[k] = mrs[k]
  BY HeadIsRecorded, Zenon
<1>5. ASSUME NEW k \in MRs, k # m
      PROVE  RunsMatch(k)' /\ OlderSettled(k)' /\ EventsSuffice(k)'
  BY <1>0, <1>1, <1>3, <1>4, <1>5, RunsElsewhere, Zenon DEF RunsInv
<1>6. /\ e.head = mrs[m].head \/ AllSettled(m)
      /\ e.action \in {"open", "reopen", "update"} =>
           lastId' = lastId \/ AllSettled(m)
      /\ e.action \in {"close", "merge"} => AllSettled(m)
  BY <1>1, DeliverySettles, Zenon
<1>7. /\ RunsMatch(m) /\ OlderSettled(m) /\ EventsSuffice(m)
      /\ EventsNumbered(m) /\ HeadsInOrder(m)
  BY Zenon DEF RunsInv, EventsInv
<1>8. \A f \in wire[m] : f.n \in Nat /\ (f # e => e.n < f.n)
  BY <1>0, <1>7 DEF IntakeTypeOK, Events, Delivered, First, EventsNumbered
<1>9. \A i \in 1..lastId' :
        i \in 1..lastId \/ (lastId' = lastId + 1 /\ i = lastId + 1)
  BY <1>0, <1>3
<1>10. Known(m)' = Known(m) /\ e.head \in Known(m)
  BY <1>0, <1>7, Zenon DEF Known, HeadsInOrder
<1>11. RunsMatch(m)'
  <2>1. ASSUME NEW i \in 1..lastId, runs[i].mr = m
        PROVE  /\ runs'[i].key.mr = m /\ runs'[i].key.head = runs'[i].head
               /\ runs'[i].head \in Known(m)
               /\ Active(runs'[i]) => runs'[i].head = e.head
               /\ \A f \in wire'[m] : f.head = runs'[i].head => f.head = e.head
    <3>1. /\ runs'[i].key.mr = m /\ runs'[i].key.head = runs'[i].head
          /\ runs'[i].head \in Known(m) /\ runs'[i].head = runs[i].head
      BY <1>1, <1>7, <2>1, Zenon DEF RunsMatch, RowsLast
    <3>2. Active(runs'[i]) => runs'[i].head = e.head
      BY <1>1, <1>6, <1>7, <2>1, Zenon DEF RunsMatch, RowsLast, AllSettled
    <3>3. ASSUME NEW f \in wire[m], f.head = runs[i].head PROVE f.head = e.head
      <4>1. f.head = mrs[m].head
        BY <1>7, <2>1, <3>3, Zenon DEF RunsMatch
      <4> QED BY <1>0, <1>7, <1>8, <4>1, Zenon DEF HeadsInOrder
    <3> QED BY <1>0, <3>1, <3>2, <3>3, Zenon
  <2>2. ASSUME lastId' = lastId + 1
        PROVE  /\ runs'[lastId + 1].key.mr = m
               /\ runs'[lastId + 1].key.head = e.head
               /\ runs'[lastId + 1].head = e.head
    BY <1>0, <1>2, <2>2 DEF Creates
  <2> QED BY <1>1, <1>4, <1>9, <1>10, <2>1, <2>2, ZenonT(60) DEF RunsMatch, RowsLast
<1>12. OlderSettled(m)'
  <2>1. SUFFICES ASSUME NEW i \in 1..lastId', NEW j \in 1..lastId', i < j,
                        runs'[i].mr = m, runs'[j].mr = m,
                        runs'[j].key.trigger = "webhook"
                 PROVE  ~Active(runs'[i])
    BY Zenon DEF OlderSettled
  <2>2. i \in 1..lastId /\ runs[i].mr = m
    BY <1>0, <1>1, <1>3, <2>1 DEF RowsLast
  <2>3. CASE j \in 1..lastId
    BY <1>1, <1>7, <2>1, <2>2, <2>3, Zenon DEF OlderSettled, RowsLast
  <2>4. CASE lastId' = lastId + 1 /\ j = lastId + 1
    <3>1. AllSettled(m)
      BY <1>0, <1>2, <1>6, <2>1, <2>4 DEF Creates
    <3> QED BY <2>2, <3>1, Zenon DEF AllSettled
  <2> QED BY <1>9, <2>3, <2>4, Zenon
<1>13. EventsSuffice(m)'
  <2>1. \A key : KeyExists(key) => KeyExists(key)'
    BY <1>0, <1>1, <1>3, RowsLastKeeps, Zenon
  <2>2. ASSUME e.action \in {"open", "reopen", "update"}
        PROVE  KeyExists(WebhookKey(m, e.head))'
    <3> DEFINE key == WebhookKey(m, e.head)
    <3>1. KeyExists(key) \/ Creates(m, e.head, key)
      BY <1>1, <2>2, Zenon DEF DeliveredRows
    <3> HIDE DEF key
    <3>2. CASE KeyExists(key)
      <4>1. PICK i \in 1..lastId : runs[i].key = key
        BY <1>0, <3>2, Zenon DEF KeyExists
      <4>2. i \in 1..lastId' /\ runs'[i].key = key
        BY <1>0, <1>1, <1>3, <4>1 DEF RowsLast
      <4> QED BY <1>0, <4>2, Zenon DEF KeyExists, key, WebhookKey
    <3>3. CASE Creates(m, e.head, key)
      <4>1. lastId + 1 \in 1..lastId' /\ runs'[lastId + 1].key = key
        BY <1>0, <3>3 DEF Creates
      <4> QED BY <1>0, <4>1, Zenon DEF KeyExists, key, WebhookKey
    <3> QED BY <3>1, <3>2, <3>3, Zenon
  <2>3. ASSUME e.action \in {"close", "merge"} PROVE NoActive(m)'
    <3>1. lastId' = lastId /\ AllSettled(m)
      BY <1>1, <1>6, <2>3, Zenon DEF DeliveredRows
    <3> QED BY <1>1, <3>1, Zenon DEF NoActive, AllSettled, RowsLast
  <2>4. \A f \in wire'[m] : f.action = "open" => Ready(m, f.head)'
    <3>1. \A f \in wire'[m] : f.action = "open" => f = e
      BY <1>0, <1>7, <1>8 DEF EventsNumbered, First
    <3> QED BY <2>2, <3>1, Zenon DEF Ready
  <2>5. ASSUME NEW f \in wire'[m], f.action = "reopen"
        PROVE  \/ First(m, f)' /\ Ready(m, f.head)'
               \/ \E c \in wire'[m] :
                    /\ c.action \in {"close", "merge"} /\ c.n < f.n
                    /\ \A g \in wire'[m] : g.n <= c.n \/ f.n <= g.n
    <3>1. CASE f = e
      <4>1. First(m, f)'
        BY <1>0, <1>8, <3>1 DEF First
      <4> QED BY <2>2, <2>5, <3>1, <4>1, Zenon DEF Ready
    <3>2. CASE f # e
      <4>1. f \in wire[m] /\ ~First(m, f)
        BY <1>0, <1>8, <3>2 DEF First
      <4>2. PICK c \in wire[m] :
              /\ c.action \in {"close", "merge"} /\ c.n < f.n
              /\ \A g \in wire[m] : g.n <= c.n \/ f.n <= g.n
        BY <1>7, <2>5, <4>1, Zenon DEF EventsSuffice
      <4>3. CASE c \in wire'[m]
        BY <1>0, <4>2, <4>3, Zenon
      <4>4. CASE c = e /\ wire'[m] = wire[m] \ {e}
        <5>1. First(m, f)'
          BY <1>8, <4>1, <4>2, <4>4 DEF First
        <5> QED BY <2>3, <4>2, <4>4, <5>1, Zenon DEF Ready
      <4> QED BY <1>0, <4>3, <4>4, Zenon
    <3> QED BY <3>1, <3>2, Zenon
  <2>6. forge[m].state \in {"closed", "merged"} =>
          \/ wire'[m] = {} /\ NoActive(m)'
          \/ \E c \in wire'[m] : c.action \in {"close", "merge"} /\ Last(m, c)'
    <3>1. SUFFICES ASSUME NEW c \in wire[m], c.action \in {"close", "merge"},
                          Last(m, c)
                   PROVE  \/ wire'[m] = {} /\ NoActive(m)'
                          \/ c \in wire'[m] /\ Last(m, c)'
      BY <1>0, <1>7, Zenon DEF EventsSuffice
    <3>2. CASE c \in wire'[m]
      BY <1>0, <3>1, <3>2, Zenon DEF Last
    <3>3. CASE c = e /\ wire'[m] = wire[m] \ {e}
      <4>1. wire'[m] = {}
        BY <1>8, <3>1, <3>3 DEF Last
      <4> QED BY <2>3, <3>1, <3>3, <4>1, Zenon
    <3> QED BY <1>0, <3>2, <3>3, Zenon
  <2>7. forge[m].state = "opened" =>
          \/ KeyExists(WebhookKey(m, forge[m].head))'
          \/ \E f \in wire'[m] : /\ f.action \in {"open", "reopen", "update"}
                                 /\ f.head = forge[m].head
    <3>1. CASE KeyExists(WebhookKey(m, forge[m].head))
      BY <1>0, <2>1, <3>1, Zenon DEF KeyExists, WebhookKey
    <3>2. ASSUME NEW f \in wire[m], f.action \in {"open", "reopen", "update"},
                 f.head = forge[m].head, f \notin wire'[m]
          PROVE  KeyExists(WebhookKey(m, forge[m].head))'
      <4>1. f = e
        BY <1>0, <3>2, Zenon
      <4> QED BY <1>0, <2>2, <3>2, <4>1, Zenon DEF KeyExists, WebhookKey
    <3> QED BY <1>7, <3>1, <3>2, Zenon DEF EventsSuffice
  <2> QED BY <1>0, <2>4, <2>5, <2>6, <2>7, Zenon DEF EventsSuffice
<1> QED BY <1>5, <1>11, <1>12, <1>13, Zenon DEF RunsInv

-----------------------------------------------------------------------------
(* The latest head wins                                                    *)

\* What GitLab and GitHub do not promise: webhooks arrive in order, no push
\* goes back to an earlier head, and nobody comments on a merge request that is
\* not open.  Operators may revive what was replaced, and a table that starts
\* with runs has runs for merge requests the service does not know.
Orderly ==
  /\ InOrder /\ ~Rewinds /\ ~LateComments
  /\ Operators = {} /\ Backlog = <<>>

LatestInv == ServiceInv /\ EventsInv /\ RunsInv

\* The service starts without events and without runs.
LEMMA LatestInit ==
  ASSUME Orderly, Init
  PROVE  LatestInv
<1>1. ServiceInv
  BY ServiceInit, Zenon
<1>2. lastId = 0
  <2>1. lastId = Len(Backlog)
    BY Zenon DEF Init, SchedInit
  <2> QED BY <2>1, Zenon DEF Orderly
<1>3. IntakeInit
  BY Zenon DEF Init
<1>4. /\ \A m \in MRs : /\ wire[m] = {} /\ forge[m].state = "none"
                        /\ mrs[m].state = "none"
                        /\ mrs[m].head = forge[m].head
  BY <1>3 DEF IntakeInit
<1>5. EventsInv
  BY <1>4, Zenon DEF EventsInv, EventsNumbered, HeadsInOrder, Known
<1>6. ASSUME NEW m \in MRs
      PROVE  RunsMatch(m) /\ OlderSettled(m) /\ EventsSuffice(m)
  <2>1. ~\E i \in 1..lastId : TRUE
    BY <1>2
  <2>2. RunsMatch(m) /\ OlderSettled(m)
    BY <2>1, Zenon DEF RunsMatch, OlderSettled
  <2>3. EventsSuffice(m)
    BY <1>4, <1>6, Zenon DEF EventsSuffice
  <2> QED BY <2>2, <2>3, Zenon
<1> QED BY <1>1, <1>5, <1>6, Zenon DEF LatestInv, RunsInv

\* Workers, reapers, restarts and the scheduler's clock leave the events alone
\* and settle runs; the forge and its webhooks keep both in step.
LEMMA LatestStep ==
  ASSUME Orderly, LatestInv, [Next]_vars
  PROVE  LatestInv'
<1>0. /\ ServiceInv' /\ StoreTypeOK /\ StoreTypeOK' /\ IntakeTypeOK /\ SchedTypeOK
      /\ EventsInv /\ RunsInv
  BY ServiceStep, Zenon DEF LatestInv, ServiceInv, SchedInv, SchedTypeOK
<1>1. CASE [SchedNext]_schedAllVars /\ UNCHANGED intakeVars
  <2>1. /\ lastId' = lastId /\ lastId \in Nat /\ DOMAIN runs = 1..lastId
        /\ DOMAIN runs' = 1..lastId' /\ moves \in Nat
        /\ \A m \in MRs : \A e \in wire[m] : e.n \in Nat
    BY <1>0, <1>1, SchedRowSteps, IntakeAssumption
       DEF StoreTypeOK, IntakeTypeOK, Events
  <2>2. RowsLast
    <3>1. SUFFICES ASSUME NEW i \in 1..lastId
                   PROVE  /\ runs'[i].mr = runs[i].mr
                          /\ runs'[i].head = runs[i].head
                          /\ runs'[i].key = runs[i].key
                          /\ Active(runs'[i]) => Active(runs[i])
      BY Zenon DEF RowsLast
    <3>2. runs[i] \in Rows
      BY <1>0, Zenon DEF StoreTypeOK
    <3>3. runs'[i] = runs[i] \/ RowStep(runs[i], runs'[i])
      BY <1>0, <1>1, SchedRowSteps, Zenon
    <3> QED BY <3>2, <3>3, RowStepKeepsHistory, RowStepKeepsSettled, Zenon
  <2>3. wire' = wire /\ forge' = forge /\ mrs' = mrs /\ moves' = moves
    BY <1>1, Zenon DEF intakeVars
  <2>4. ASSUME NEW m \in MRs
        PROVE  /\ EventsNumbered(m)' /\ HeadsInOrder(m)'
               /\ RunsMatch(m)' /\ OlderSettled(m)' /\ EventsSuffice(m)'
    <3>1. EventsNumbered(m)' /\ HeadsInOrder(m)'
      BY <1>0, <2>1, <2>3, EventsElsewhere DEF EventsInv
    <3>2. RunsMatch(m)' /\ OlderSettled(m)' /\ EventsSuffice(m)'
      BY <1>0, <2>1, <2>2, <2>3, RunsElsewhere DEF RunsInv
    <3> QED BY <3>1, <3>2, Zenon
  <2> QED BY <1>0, <2>4, Zenon DEF LatestInv, EventsInv, RunsInv
<1>2. ASSUME NEW m \in MRs, ForgeMoves(m) PROVE LatestInv'
  <2>1. PICK e \in Events : Moved(m, e)
    BY <1>0, <1>2, ForgeMoved, Zenon DEF Orderly
  <2> QED BY <1>0, <2>1, EventsMoved, RunsMoved, Zenon DEF LatestInv
<1>3. ASSUME NEW m \in MRs, Deliver(m) PROVE LatestInv'
  <2>1. PICK e \in wire[m] : Delivered(m, e)
    BY <1>3, Zenon DEF Deliver, Delivered, First, Orderly
  <2> QED BY <1>0, <2>1, EventsDelivered, RunsDelivered, Zenon DEF LatestInv
<1> QED
  <2>1. \/ [SchedNext]_schedAllVars /\ UNCHANGED intakeVars
        \/ IntakeStep
    BY Zenon DEF Next, AdminStep, Orderly, vars
  <2> QED BY <1>1, <1>2, <1>3, <2>1, Zenon DEF IntakeStep

\* The table is one of review_runs all along.
LEMMA LatestStore ==
  ASSUME LatestInv
  PROVE  StoreTypeOK
BY Zenon DEF LatestInv, ServiceInv, SchedInv, SchedTypeOK

\* So the invariant holds throughout.
LEMMA LatestInvariant == ASSUME Orderly PROVE Spec => []LatestInv
<1>1. Init => LatestInv
  BY LatestInit, Zenon
<1>2. LatestInv /\ [Next]_vars => LatestInv'
  BY LatestStep
<1> QED BY <1>1, <1>2, PTL DEF Spec

\* Latest head wins, for any number of merge requests, heads, events, repeated
\* deliveries, workers and crashes: a run created by a webhook leaves no older
\* run of its merge request active, and nothing revives one.
THEOREM LatestHeadWins ==
  ASSUME Orderly
  PROVE  Spec => []NewerRunReplacesOlder
<1>1. LatestInv => NewerRunReplacesOlder
  <2>1. SUFFICES ASSUME LatestInv, NEW i \in 1..lastId, NEW j \in 1..lastId,
                        i < j, runs[i].mr = runs[j].mr,
                        runs[j].key.trigger = "webhook"
                 PROVE  ~Active(runs[i])
    BY LatestStore, Zenon DEF StoreTypeOK, NewerRunReplacesOlder
  <2>2. runs[j].mr \in MRs
    BY <2>1, LatestStore, Zenon DEF StoreTypeOK, Rows
  <2> QED BY <2>1, <2>2 DEF LatestInv, RunsInv, OlderSettled
<1> QED BY <1>1, LatestInvariant, PTL

\* Once its events have been delivered, an open merge request has a run for its
\* head, created when the event that brought the head was handled, and no run
\* for another head is active.
THEOREM QuietHeadIsReviewed ==
  ASSUME Orderly
  PROVE  Spec => []QuietMRReviewsItsHead
<1>1. LatestInv => QuietMRReviewsItsHead
  <2>1. SUFFICES ASSUME LatestInv, NEW m \in MRs, Quiet(m, {"opened"})
                 PROVE  /\ \E i \in 1..lastId :
                             runs[i].mr = m /\ runs[i].head = forge[m].head
                        /\ \A i \in 1..lastId :
                             runs[i].mr = m /\ Active(runs[i])
                               => runs[i].head = forge[m].head
    BY LatestStore, Zenon DEF StoreTypeOK, QuietMRReviewsItsHead
  <2>2. /\ wire[m] = {} /\ forge[m].state = "opened" /\ StoreTypeOK /\ RunsInv
        /\ RunsMatch(m) /\ EventsSuffice(m) /\ HeadsInOrder(m)
    BY <2>1, LatestStore, Zenon DEF Quiet, LatestInv, RunsInv, EventsInv
  <2>3. \E i \in 1..lastId : runs[i].mr = m /\ runs[i].head = forge[m].head
    BY <2>2, KeyTells DEF EventsSuffice
  <2>4. mrs[m].head = forge[m].head
    BY <2>2, Zenon DEF HeadsInOrder
  <2> QED BY <2>2, <2>3, <2>4 DEF RunsMatch
<1> QED BY <1>1, LatestInvariant, PTL

\* Once its events have been delivered, a closed or merged merge request has no
\* active run: the close or merge settled them all, and no retry, reaper or
\* late worker revived one.
THEOREM QuietClosedIsSettled ==
  ASSUME Orderly
  PROVE  Spec => []ClosedMRHasNoActiveRun
<1>1. LatestInv => ClosedMRHasNoActiveRun
  <2>1. SUFFICES ASSUME LatestInv, NEW m \in MRs,
                        Quiet(m, {"closed", "merged"}),
                        NEW i \in 1..lastId, runs[i].mr = m
                 PROVE  ~Active(runs[i])
    BY LatestStore, Zenon DEF StoreTypeOK, ClosedMRHasNoActiveRun
  <2>2. EventsSuffice(m) /\ wire[m] = {} /\ forge[m].state \in {"closed", "merged"}
    BY <2>1, Zenon DEF LatestInv, RunsInv, Quiet
  <2> QED BY <2>1, <2>2, Zenon DEF EventsSuffice, NoActive
<1> QED BY <1>1, LatestInvariant, PTL
-----------------------------------------------------------------------------
(* The service implements JobQueue                                         *)

\* The state function that RunScheduler's instance substitutes for jobs.
Jobs == [i \in DOMAIN runs |-> JobOf(runs[i])]

-----------------------------------------------------------------------------
(* Rows as jobs                                                            *)

\* A run is active exactly if its job has not settled.
LEMMA ActiveJobs ==
  ASSUME NEW row \in Rows
  PROVE  /\ Active(row) <=> JobOf(row) \notin Q!Settled
         /\ Queued(row) <=> JobOf(row) = "queued"
         /\ row.status = "running" <=> JobOf(row) = "leased"
BY Zenon DEF Rows, Statuses, Active, Queued, JobOf, Q!Settled

\* What the scheduler's statements are for a job.
LEMMA ClaimedJob ==
  ASSUME NEW row \in Rows, NEW p
  PROVE  JobOf(ClaimReviewRun(row, p)) = "leased"
BY Zenon DEF ClaimReviewRun, JobOf, Rows, Statuses

\* A failure is recorded of a leased job only.
LEMMA FailedJob ==
  ASSUME NEW row \in Rows, NEW n
  PROVE  /\ JobOf(MarkReviewRunRetryableFailureIfRunning(row, n)) =
              IF row.status = "running" THEN "queued" ELSE JobOf(row)
         /\ JobOf(MarkReviewRunFailedIfRunning(row, n)) =
              IF row.status = "running" THEN "failed" ELSE JobOf(row)
<1> USE DEF Rows, Statuses
<1>1. JobOf(MarkReviewRunRetryableFailureIfRunning(row, n)) =
        IF row.status = "running" THEN "queued" ELSE JobOf(row)
  BY Zenon DEF MarkReviewRunRetryableFailureIfRunning, JobOf
<1>2. JobOf(MarkReviewRunFailedIfRunning(row, n)) =
        IF row.status = "running" THEN "failed" ELSE JobOf(row)
  BY Zenon DEF MarkReviewRunFailedIfRunning, JobOf
<1> QED BY <1>1, <1>2, Zenon

\* So is a success.
LEMMA CompletedJob ==
  ASSUME NEW row \in Rows
  PROVE  JobOf(UpdateReviewRunCompletedIfRunning(row)) =
           IF row.status = "running" THEN "succeeded" ELSE JobOf(row)
BY Zenon DEF Rows, Statuses, UpdateReviewRunCompletedIfRunning, JobOf

\* The reaper queues leased jobs.
LEMMA ReapedJob ==
  ASSUME NEW row \in Rows
  PROVE  \/ JobOf(ReapStaleRunningRuns(row)) = JobOf(row)
         \/ JobOf(row) = "leased" /\ JobOf(ReapStaleRunningRuns(row)) = "queued"
<1>1. CASE row.status = "running" /\ row.claimed_at = "stale"
  BY <1>1, Zenon DEF Rows, Statuses, ReapStaleRunningRuns, JobOf
<1>2. CASE ~(row.status = "running" /\ row.claimed_at = "stale")
  BY <1>2, Zenon DEF ReapStaleRunningRuns
<1> QED BY <1>1, <1>2, Zenon

\* The passing of time does nothing to a job.
LEMMA WaitingJob ==
  ASSUME NEW row \in Rows
  PROVE  /\ JobOf([row EXCEPT !.claimed_at = "stale"]) = JobOf(row)
         /\ row.next_retry_at = "future" =>
              JobOf([row EXCEPT !.next_retry_at = "due"]) = JobOf(row)
BY Zenon DEF JobOf, Rows, Statuses

\* Webhooks drop jobs that have not settled, and no others.
LEMMA DroppedJobs ==
  ASSUME NEW row \in Rows
  PROVE  /\ \A m : LET new == CancelPendingRunsForMR(row, m) IN
              \/ JobOf(new) = JobOf(row)
              \/ JobOf(row) \notin Q!Settled /\ JobOf(new) = "dropped"
         /\ \A m, n : LET new == SupersedeActiveRunsForMR(row, m, n) IN
              \/ JobOf(new) = JobOf(row)
              \/ JobOf(row) \notin Q!Settled /\ JobOf(new) = "dropped"
         /\ \A m, h, key : JobOf(InsertReviewRun(m, h, key)) = "queued"
<1>1. ASSUME NEW m
      PROVE  LET new == CancelPendingRunsForMR(row, m) IN
               \/ JobOf(new) = JobOf(row)
               \/ JobOf(row) \notin Q!Settled /\ JobOf(new) = "dropped"
  <2>1. CASE row.mr = m /\ Active(row)
    <3>1. CancelPendingRunsForMR(row, m).status = "cancelled"
      BY <2>1, Zenon DEF CancelPendingRunsForMR, Rows
    <3>2. JobOf(CancelPendingRunsForMR(row, m)) = "dropped"
      BY <3>1, Zenon DEF JobOf
    <3> QED BY <2>1, <3>2, ActiveJobs, Zenon
  <2>2. CASE ~(row.mr = m /\ Active(row))
    BY <2>2, Zenon DEF CancelPendingRunsForMR
  <2> QED BY <2>1, <2>2, Zenon
<1>2. ASSUME NEW m, NEW n
      PROVE  LET new == SupersedeActiveRunsForMR(row, m, n) IN
               \/ JobOf(new) = JobOf(row)
               \/ JobOf(row) \notin Q!Settled /\ JobOf(new) = "dropped"
  <2>1. CASE row.mr = m /\ Active(row)
    <3>1. SupersedeActiveRunsForMR(row, m, n).status = "cancelled"
      BY <2>1, Zenon DEF SupersedeActiveRunsForMR, Rows
    <3>2. JobOf(SupersedeActiveRunsForMR(row, m, n)) = "dropped"
      BY <3>1, Zenon DEF JobOf
    <3> QED BY <2>1, <3>2, ActiveJobs, Zenon
  <2>2. CASE ~(row.mr = m /\ Active(row))
    BY <2>2, Zenon DEF SupersedeActiveRunsForMR
  <2> QED BY <2>1, <2>2, Zenon
<1>3. \A m, h, key : JobOf(InsertReviewRun(m, h, key)) = "queued"
  BY DEF InsertReviewRun, JobOf
<1> QED BY <1>1, <1>2, <1>3, Zenon

-----------------------------------------------------------------------------
(* Steps of the table as steps of the queue                                *)

\* One row is updated.
LEMMA OneJob ==
  ASSUME StoreTypeOK, NEW i \in 1..lastId, NEW row, SetRow(i, row)
  PROVE  Jobs' = [Jobs EXCEPT ![i] = JobOf(row)]
<1>1. DOMAIN runs = 1..lastId /\ runs' = [runs EXCEPT ![i] = row]
  BY Zenon DEF StoreTypeOK, SetRow
<1>2. DOMAIN runs' = DOMAIN runs /\ runs'[i] = row
  BY <1>1, Zenon
<1>3. \A j \in DOMAIN runs : j # i => runs'[j] = runs[j]
  BY <1>1, Zenon
<1>4. Jobs' = [j \in DOMAIN runs |-> JobOf(runs'[j])]
  BY <1>2, Zenon DEF Jobs
<1>5. \A j \in DOMAIN runs : JobOf(runs'[j]) = IF j = i THEN JobOf(row)
                                               ELSE JobOf(runs[j])
  BY <1>2, <1>3, Zenon
<1>6. [Jobs EXCEPT ![i] = JobOf(row)] =
        [j \in DOMAIN runs |-> IF j = i THEN JobOf(row) ELSE JobOf(runs[j])]
  BY <1>1, Zenon DEF Jobs
<1> QED BY <1>4, <1>5, <1>6, Zenon

\* Updating a row is a step of the queue if the job stays as it is, if a
\* queued job is leased, or if a leased one settles or is queued again.
LEMMA OneJobStep ==
  ASSUME StoreTypeOK, NEW i \in 1..lastId, NEW row, SetRow(i, row),
         \/ JobOf(row) = JobOf(runs[i])
         \/ JobOf(runs[i]) = "queued" /\ JobOf(row) = "leased"
         \/ JobOf(runs[i]) = "leased" /\ JobOf(row) \in {"succeeded", "failed", "queued"}
  PROVE  [Q!Next]_Jobs
<1>1. Jobs' = [Jobs EXCEPT ![i] = JobOf(row)]
  BY OneJob, Zenon
<1>2. DOMAIN Jobs = 1..lastId /\ Jobs[i] = JobOf(runs[i])
  BY Zenon DEF Jobs, StoreTypeOK
<1>3. Jobs = [j \in 1..lastId |-> Jobs[j]]
  BY <1>2, Zenon DEF Jobs
<1>4. CASE JobOf(row) = JobOf(runs[i])
  BY <1>1, <1>2, <1>3, <1>4, Zenon
<1>5. CASE JobOf(runs[i]) = "queued" /\ JobOf(row) = "leased"
  <2>1. Q!Lease(i)
    BY <1>1, <1>2, <1>5, Zenon DEF Q!Lease, Jobs
  <2> QED BY <1>2, <2>1, Zenon DEF Q!Next, Jobs
<1>6. CASE JobOf(runs[i]) = "leased" /\ JobOf(row) \in {"succeeded", "failed"}
  <2>1. Q!Settle(i)
    BY <1>1, <1>2, <1>6, Zenon DEF Q!Settle, Jobs
  <2> QED BY <1>2, <2>1, Zenon DEF Q!Next, Jobs
<1>7. CASE JobOf(runs[i]) = "leased" /\ JobOf(row) = "queued"
  <2>1. Q!Release
    BY <1>1, <1>2, <1>3, <1>7, Zenon DEF Q!Release, Jobs
  <2> QED BY <2>1, Zenon DEF Q!Next
<1> QED BY <1>4, <1>5, <1>6, <1>7, Zenon

\* What a goroutine knows under a plain processor: no result is a parser
\* error, so that the unconditional write of that status is out of reach.
NoParserError ==
  \A w \in Workers : pc[w] # "parser_write" /\ outcome[w] # "parser_error"

\* A plain processor reports no parser error.
LEMMA PlainStep ==
  ASSUME Processor = "plain", SchedTypeOK, NoParserError, [SchedNext]_schedAllVars
  PROVE  NoParserError'
<1>0. pc \in [Workers -> Labels]
      /\ outcome \in [Workers -> FinalStatuses \cup {"", "cancelled"}]
  BY Zenon DEF SchedTypeOK
<1>l. ASSUME NEW group, NEW label \in {"idle", "down"}, Leave(group, label)
      PROVE  NoParserError'
  BY <1>l, Zenon DEF Leave, NoParserError
<1>m. ASSUME NEW w \in Workers, NEW label, label # "parser_write",
             pc' = [pc EXCEPT ![w] = label],
             \/ UNCHANGED outcome
             \/ \E o : /\ o # "parser_error"
                       /\ outcome' = [outcome EXCEPT ![w] = o]
      PROVE  NoParserError'
  BY <1>0, <1>m, Zenon DEF NoParserError
<1>1. ASSUME NEW w \in Workers, ClaimNextRun(w) PROVE NoParserError'
  BY <1>1, <1>m, Zenon DEF ClaimNextRun
<1>2. ASSUME NEW w \in Workers, WorkerStep(w) PROVE NoParserError'
  <2>1. CASE ReloadRunningRun(w)
    BY <1>l, <1>m, <2>1, Zenon DEF ReloadRunningRun, Return, StopGroup
  <2>2. CASE PublishInProgressStatus(w) \/ WritebackSucceeds(w) \/ WritebackFails(w)
    BY <1>m, <2>2, Zenon DEF PublishInProgressStatus, WritebackSucceeds,
       WritebackFails, Goto
  <2>3. CASE CheckCancelled(w) \/ PersistReviewResult(w)
    BY <2>3, Zenon DEF CheckCancelled, PersistReviewResult
  <2>4. CASE ProcessPlain(w) \/ LoadForWriteback(w)
    BY <1>m, <2>4, Zenon DEF ProcessPlain, LoadForWriteback
  <2>5. CASE ProcessFails(w)
    BY <1>m, <2>5, Zenon DEF ProcessFails, Goto
  <2>6. CASE FinishParserError(w) \/ WriteParserError(w)
    BY <2>6, Zenon DEF FinishParserError, WriteParserError, NoParserError
  <2>7. CASE PublishGateResult(w)
    BY <1>m, <2>7, Zenon DEF PublishGateResult, Goto
  <2>8. CASE CompleteRun(w) \/ ScheduleRetry(w)
    BY <1>l, <1>m, <2>8, Zenon DEF CompleteRun, ScheduleRetry, Return, Goto
  <2>9. CASE FailRun(w)
    BY <1>m, <2>9, Zenon DEF FailRun, Goto
  <2>10. CASE PublishFailedStatus(w) \/ HandleSkippedTerminalWrite(w)
    BY <1>l, <2>10, Zenon DEF PublishFailedStatus, HandleSkippedTerminalWrite,
       Return,
       StopGroup
  <2> QED BY <1>2, <2>1, <2>2, <2>3, <2>4, <2>5, <2>6, <2>7, <2>8, <2>9, <2>10,
             ZenonT(60)
          DEF WorkerStep
<1>3. CASE \/ ReapStaleRuns
           \/ \E i \in DOMAIN runs : RetryFallsDue(i) \/ ClaimTimesOut(i)
           \/ UNCHANGED schedAllVars
  BY <1>3, Zenon DEF ReapStaleRuns, RetryFallsDue, ClaimTimesOut, schedAllVars,
     schedVars, workerVars, NoParserError
<1>4. ASSUME NEW p \in Processes, ProcessStops(p) \/ ProcessStarts(p)
      PROVE  NoParserError'
  BY <1>l, <1>4, Zenon DEF ProcessStops, ProcessStarts
<1> QED BY <1>1, <1>2, <1>3, <1>4, Zenon DEF SchedNext

\* A step of the scheduler is a step of the queue.
LEMMA SchedJobs ==
  ASSUME Processor = "plain", SchedTypeOK, NoParserError, [SchedNext]_schedAllVars
  PROVE  [Q!Next]_Jobs
<1>0. StoreTypeOK /\ lastId \in Nat /\ runs \in [1..lastId -> Rows]
      /\ DOMAIN runs = 1..lastId /\ WorkersTypeOK
  BY TypeParts, Zenon DEF StoreTypeOK
<1>r. \A i \in 1..lastId : runs[i] \in Rows
  BY <1>0, Zenon
<1>u. ASSUME UNCHANGED runs PROVE [Q!Next]_Jobs
  BY <1>u, Zenon DEF Jobs
<1>1. ASSUME NEW w \in Workers, ClaimNextRun(w) PROVE [Q!Next]_Jobs
  <2>1. PICK i \in NextClaimable(runs) :
          SetRow(i, ClaimReviewRun(runs[i], ProcessOf[w]))
    BY <1>1, Zenon DEF ClaimNextRun
  <2>2. i \in 1..lastId /\ Queued(runs[i])
    BY <1>0, Zenon DEF NextClaimable, IsClaimable, Queued, Active
  <2>3. JobOf(runs[i]) = "queued"
    BY <1>r, <2>2, ActiveJobs, Zenon
  <2>4. JobOf(ClaimReviewRun(runs[i], ProcessOf[w])) = "leased"
    BY <1>r, <2>2, ClaimedJob, Zenon
  <2> QED BY <1>0, <2>1, <2>2, <2>3, <2>4, OneJobStep, Zenon
<1>2. ASSUME NEW w \in Workers, WorkerStep(w) PROVE [Q!Next]_Jobs
  <2>1. pc[w] \notin {"down", "idle"}
    BY <1>2, Zenon DEF WorkerStep, ReloadRunningRun, PublishInProgressStatus,
       CheckCancelled, PersistReviewResult, ProcessPlain, ProcessFails,
       LoadForWriteback, WritebackSucceeds, WritebackFails, FinishParserError,
       WriteParserError, PublishGateResult, CompleteRun, ScheduleRetry, FailRun,
       PublishFailedStatus, HandleSkippedTerminalWrite
  <2>2. claim[w] \in 1..lastId
    BY <1>0, <2>1, BusyHoldsRow, Zenon
  <2> DEFINE row == runs[claim[w]]
  <2>3. row \in Rows
    BY <1>r, <2>2, Zenon
  <2>4. \/ UNCHANGED runs
        \/ \E n : \/ SetRow(claim[w], MarkReviewRunFailedIfRunning(row, n))
                 \/ SetRow(claim[w], MarkReviewRunRetryableFailureIfRunning(row, n))
        \/ SetRow(claim[w], UpdateReviewRunCompletedIfRunning(row))
    BY <1>2, Zenon DEF NoParserError, WorkerStep, ReloadRunningRun,
       PublishInProgressStatus, CheckCancelled, PersistReviewResult, ProcessPlain,
       ProcessFails, LoadForWriteback, WritebackSucceeds, WritebackFails,
       FinishParserError, WriteParserError, PublishGateResult, CompleteRun,
       ScheduleRetry, FailRun, PublishFailedStatus, HandleSkippedTerminalWrite, Row
  <2>5. ASSUME NEW new, SetRow(claim[w], new),
               \/ JobOf(new) = JobOf(row)
               \/ /\ JobOf(row) = "leased"
                  /\ JobOf(new) \in {"succeeded", "failed", "queued"}
        PROVE  [Q!Next]_Jobs
    BY <1>0, <2>2, <2>5, OneJobStep, Zenon
  <2>6. row.status = "running" => JobOf(row) = "leased"
    BY <2>3, ActiveJobs, Zenon
  <2> HIDE DEF row
  <2>7. ASSUME NEW n, SetRow(claim[w], MarkReviewRunFailedIfRunning(row, n))
        PROVE  [Q!Next]_Jobs
    BY <2>3, <2>5, <2>6, <2>7, FailedJob, Zenon
  <2>8. ASSUME NEW n, SetRow(claim[w], MarkReviewRunRetryableFailureIfRunning(row, n))
        PROVE  [Q!Next]_Jobs
    BY <2>3, <2>5, <2>6, <2>8, FailedJob, Zenon
  <2>9. CASE SetRow(claim[w], UpdateReviewRunCompletedIfRunning(row))
    BY <2>3, <2>5, <2>6, <2>9, CompletedJob, Zenon
  <2> QED BY <1>u, <2>4, <2>7, <2>8, <2>9, Zenon
<1>3. CASE ReapStaleRuns
  <2>1. /\ DOMAIN runs' = 1..lastId
        /\ \A i \in 1..lastId : runs'[i] = ReapStaleRunningRuns(runs[i])
    BY <1>0, <1>3, Zenon DEF ReapStaleRuns
  <2>2. \A i \in 1..lastId :
          \/ JobOf(runs'[i]) = JobOf(runs[i])
          \/ JobOf(runs[i]) = "leased" /\ JobOf(runs'[i]) = "queued"
    BY <1>r, <2>1, ReapedJob, Zenon
  <2>3. Q!Release
    BY <1>0, <2>1, <2>2, Zenon DEF Q!Release
  <2> QED BY <2>3, Zenon DEF Q!Next
<1>4. ASSUME NEW i \in DOMAIN runs, RetryFallsDue(i) \/ ClaimTimesOut(i)
      PROVE  [Q!Next]_Jobs
  <2>1. PICK row : SetRow(i, row) /\ JobOf(row) = JobOf(runs[i])
    BY <1>0, <1>r, <1>4, WaitingJob, Zenon DEF RetryFallsDue, ClaimTimesOut
  <2> QED BY <1>0, <2>1, OneJobStep, Zenon
<1>5. ASSUME NEW p \in Processes, ProcessStops(p) \/ ProcessStarts(p)
      PROVE  [Q!Next]_Jobs
  BY <1>u, <1>5, Zenon DEF ProcessStops, ProcessStarts
<1>6. CASE UNCHANGED schedAllVars
  BY <1>u, <1>6, Zenon DEF schedAllVars
<1> QED BY <1>1, <1>2, <1>3, <1>4, <1>5, <1>6, ZenonT(60) DEF SchedNext

-----------------------------------------------------------------------------
(* Webhooks                                                                *)

\* Jobs are dropped, and a new one may be submitted.
LEMMA DropStep ==
  ASSUME StoreTypeOK, NEW table \in [1..lastId -> Rows],
         \A i \in 1..lastId :
           \/ JobOf(table[i]) = JobOf(runs[i])
           \/ JobOf(runs[i]) \notin Q!Settled /\ JobOf(table[i]) = "dropped",
         \/ lastId' = lastId /\ runs' = table
         \/ \E m \in MRs, h \in Heads, key \in Keys :
              /\ lastId' = lastId + 1
              /\ runs' = Inserted(table, lastId, InsertReviewRun(m, h, key))
  PROVE  [Q!Next]_Jobs
<1>0. lastId \in Nat /\ DOMAIN runs = 1..lastId
  BY Zenon DEF StoreTypeOK
<1>1. CASE lastId' = lastId /\ runs' = table
  <2>1. DOMAIN runs' = 1..lastId
    BY <1>1, Zenon
  <2>2. Q!Drop
    BY <1>0, <1>1, <2>1, Zenon DEF Q!Drop
  <2> QED BY <2>2, Zenon DEF Q!Next
<1>2. ASSUME NEW m \in MRs, NEW h \in Heads, NEW key \in Keys,
             lastId' = lastId + 1,
             runs' = Inserted(table, lastId, InsertReviewRun(m, h, key))
      PROVE  [Q!Next]_Jobs
  <2>1. InsertReviewRun(m, h, key) \in Rows
    BY InsertType, Zenon
  <2>2. /\ runs' \in [1..(lastId + 1) -> Rows]
        /\ runs'[lastId + 1] = InsertReviewRun(m, h, key)
        /\ \A i \in 1..lastId : runs'[i] = table[i]
    <3> DEFINE row == InsertReviewRun(m, h, key)
    <3>1. row \in Rows /\ runs' = Inserted(table, lastId, row)
      BY <1>2, <2>1, Zenon
    <3> HIDE DEF row
    <3>2. HasRowMore(table, lastId, row, runs')
      BY <1>0, <3>1, InsertedRows, Zenon
    <3> QED BY <3>2, Zenon DEF HasRowMore, row
  <2>3. JobOf(runs'[lastId + 1]) = "queued"
    BY <2>1, <2>2, DroppedJobs, Zenon
  <2>4. /\ 1..(lastId + 1) = 1..lastId \cup {lastId + 1}
        /\ lastId + 1 \notin 1..lastId /\ lastId + 1 \in 1..(lastId + 1)
    BY <1>0
  <2>5. DOMAIN runs' = 1..(lastId + 1)
    BY <2>2, Zenon
  <2>6. /\ DOMAIN Jobs = 1..lastId /\ DOMAIN Jobs' = 1..(lastId + 1)
        /\ Jobs'[lastId + 1] = "queued"
        /\ \A i \in 1..lastId : Jobs[i] = JobOf(runs[i]) /\ Jobs'[i] = JobOf(runs'[i])
    BY <1>0, <2>3, <2>4, <2>5, Zenon DEF Jobs
  <2>7. Q!Drop
    BY <2>2, <2>4, <2>6, Zenon DEF Q!Drop, Jobs
  <2> QED BY <2>7, Zenon DEF Q!Next
<1> QED BY <1>1, <1>2, Zenon

\* A delivery is a step of the queue.
LEMMA DeliveryJobs ==
  ASSUME ServiceInv, NEW m \in MRs, NEW e \in wire[m], ProcessEvent(m, e)
  PROVE  [Q!Next]_Jobs
<1>0. /\ StoreTypeOK /\ lastId \in Nat /\ DOMAIN runs = 1..lastId
      /\ runs \in [1..lastId -> Rows] /\ \A i \in 1..lastId : runs[i] \in Rows
  BY Zenon DEF ServiceInv, SchedInv, SchedTypeOK, StoreTypeOK
<1>e. e.head \in Heads /\ e.n \in Nat
  BY DEF ServiceInv, IntakeTypeOK, Events
<1>u. ASSUME UNCHANGED runs PROVE [Q!Next]_Jobs
  BY <1>u, Zenon DEF Jobs
<1>n. ASSUME NEW key \in Keys, lastId' = lastId + 1,
             runs' = Inserted(runs, lastId, InsertReviewRun(m, e.head, key))
      PROVE  [Q!Next]_Jobs
  BY <1>0, <1>e, <1>n, DropStep, Zenon
<1>1. WebhookKey(m, e.head) \in Keys /\ CommandKey(m, e.head, e.n) \in Keys
  BY <1>e, Zenon DEF WebhookKey, CommandKey, Keys, Triggers
<1>2. CASE CreatePendingRun(m, e)
  BY <1>n, <1>u, <1>1, <1>2, Zenon DEF CreatePendingRun
<1>3. CASE ExecuteRerun(m, e)
  BY <1>n, <1>u, <1>1, <1>3, Zenon DEF ExecuteRerun
<1>4. CASE HandleUpdate(m, e)
  <2> DEFINE table == [i \in DOMAIN runs |->
                         SupersedeActiveRunsForMR(runs[i], m, lastId + 1)]
  <2>1. table \in [1..lastId -> Rows]
    <3>1. lastId + 1 \in Nat
      BY <1>0
    <3>2. \A i \in 1..lastId :
            SupersedeActiveRunsForMR(runs[i], m, lastId + 1) \in Rows
      BY <1>0, <3>1, OtherStatementTypes, Zenon
    <3> QED BY <1>0, <3>2, Zenon
  <2>2. \A i \in 1..lastId :
          \/ JobOf(table[i]) = JobOf(runs[i])
          \/ JobOf(runs[i]) \notin Q!Settled /\ JobOf(table[i]) = "dropped"
    BY <1>0, DroppedJobs, Zenon
  <2>3. \/ UNCHANGED runs
        \/ /\ lastId' = lastId + 1
           /\ runs' = Inserted(table, lastId,
                        InsertReviewRun(m, e.head, WebhookKey(m, e.head)))
    BY <1>4, Zenon DEF HandleUpdate
  <2> HIDE DEF table
  <2> QED BY <1>0, <1>e, <1>u, <1>1, <2>1, <2>2, <2>3, DropStep, ZenonT(60)
<1>5. CASE CancelRuns(m, e)
  <2> DEFINE table == [i \in DOMAIN runs |-> CancelPendingRunsForMR(runs[i], m)]
  <2>1. table \in [1..lastId -> Rows]
    <3>1. \A i \in 1..lastId : CancelPendingRunsForMR(runs[i], m) \in Rows
      BY <1>0, OtherStatementTypes, Zenon
    <3> QED BY <1>0, <3>1, Zenon
  <2>2. \A i \in 1..lastId :
          \/ JobOf(table[i]) = JobOf(runs[i])
          \/ JobOf(runs[i]) \notin Q!Settled /\ JobOf(table[i]) = "dropped"
    BY <1>0, DroppedJobs, Zenon
  <2>3. UNCHANGED runs \/ (lastId' = lastId /\ runs' = table)
    BY <1>5, Zenon DEF CancelRuns
  <2> HIDE DEF table
  <2> QED BY <1>0, <1>u, <2>1, <2>2, <2>3, DropStep, ZenonT(60)
<1> QED BY <1>2, <1>3, <1>4, <1>5, Zenon DEF ProcessEvent

-----------------------------------------------------------------------------
(* The service                                                             *)

\* Every step of a service without operators.
LEMMA ServiceJobs ==
  ASSUME Processor = "plain", Operators = {}, ServiceInv, NoParserError, [Next]_vars
  PROVE  NoParserError' /\ [Q!Next]_Jobs
<1>0. SchedTypeOK
  BY Zenon DEF ServiceInv, SchedInv
<1>1. CASE SchedNext
  BY <1>0, <1>1, SchedJobs, PlainStep, Zenon
<1>2. CASE AdminStep
  BY <1>2, Zenon DEF AdminStep
<1>3. CASE IntakeStep /\ UNCHANGED <<schedVars, adminVars>>
  <2>1. NoParserError'
    BY <1>3, Zenon DEF NoParserError, schedVars, workerVars
  <2>2. ASSUME NEW m \in MRs, ForgeMoves(m) PROVE [Q!Next]_Jobs
    BY <2>2, Zenon DEF ForgeMoves, Jobs
  <2>3. ASSUME NEW m \in MRs, Deliver(m) PROVE [Q!Next]_Jobs
    BY <2>3, DeliveryJobs, Zenon DEF Deliver
  <2> QED BY <1>3, <2>1, <2>2, <2>3, Zenon DEF IntakeStep
<1>4. CASE UNCHANGED vars
  <2>1. UNCHANGED schedAllVars
    BY <1>4, Zenon DEF vars
  <2> QED BY <1>0, <2>1, SchedJobs, PlainStep, Zenon
<1> QED BY <1>1, <1>2, <1>3, <1>4, Zenon DEF Next

\* The runs of a service whose processor leaves the status to the scheduler
\* are a job queue: only a leased run completes or fails, and settled runs
\* are final whatever late workers, the reaper and webhooks write.
THEOREM ServiceImplementsJobQueue ==
  ASSUME Processor = "plain", Operators = {}
  PROVE  Spec => RunsAreAJobQueue
<1>1. Init => NoParserError /\ Q!Init
  <2> SUFFICES ASSUME Init PROVE NoParserError /\ Q!Init
    BY Zenon
  <2>1. NoParserError
    BY Zenon DEF Init, SchedInit, NoParserError
  <2>2. \A i \in DOMAIN runs : JobOf(runs[i]) = "queued"
    BY Zenon DEF Init, SchedInit, InsertReviewRun, JobOf
  <2>3. Q!Init
    BY <2>2, Zenon DEF Q!Init
  <2> QED BY <2>1, <2>3, Zenon
<1>2. ServiceInv /\ NoParserError /\ [Next]_vars => NoParserError' /\ [Q!Next]_Jobs
  BY ServiceJobs
<1> QED BY <1>1, <1>2, ServiceInvariant, PTL
           DEF Spec, RunsAreAJobQueue, Q!Spec, Jobs
=============================================================================
