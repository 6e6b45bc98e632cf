-------------------------- MODULE RetentionProofs ---------------------------
(***************************************************************************)
(* What a review reports is kept.  When a run that had its merge request   *)
(* to itself reads its outcome, every finding it reported that passes the  *)
(* thresholds has a row that the run has seen and that is alive, or that a *)
(* row of the run replaced, unless another finding of the report displaced *)
(* it.  The proof follows the rows of a worker's copy through its own      *)
(* statements and the commands of people.                                  *)
(***************************************************************************)
EXTENDS FindingProofs

-----------------------------------------------------------------------------
(* What a worker goes by                                                   *)

\* From the first finding to match to the outcome the worker holds its copy.
Holding == Copying \cup {"status"}

\* The finding of the row i is alive, or a row of the run r replaced it.
Alive(t, i, r) ==
  \/ t[i].state \in ActiveStates \cup {"ignored"}
  \/ t[i].state = "superseded" /\ t[i].matched \in DOMAIN t /\ t[t[i].matched].run = r

\* The findings of a report that pass the thresholds.
Passing(report) ==
  {n \in {normalized(report, k) : k \in persisted(report)} : evaluateFindingState(n) = "new"}

\* A finding of the report with the meaning of the row e has another anchor.
Taken(report, e) ==
  \E m \in Passing(report) : m.anchor_fp # e.anchor_fp /\ m.semantic_fp = e.semantic_fp

\* What still holds of the row i of the copy: its meaning is that of the table,
\* and so is its anchor unless it was taken.  It is alive while findings are
\* left to match.
CopyHolds(x, t, i) ==
  /\ t[i].semantic_fp = x.existing[i].semantic_fp
  /\ t[i].anchor_fp = x.existing[i].anchor_fp \/ Taken(x.report, x.existing[i])
  /\ SeenBy(x.existing[i], x.run) => SeenBy(t[i], x.run)
  /\ x.todo # {} => Alive(t, i, x.run)

\* The row i is the one the finding n was matched with, or was inserted for it.
AnswersFor(x, t, i, n) ==
  /\ SeenBy(t[i], x.run) /\ Alive(t, i, x.run)
  /\ \/ i \notin DOMAIN x.existing /\ t[i].anchor_fp = n.anchor_fp
     \/ /\ i \in DOMAIN x.existing /\ i \in x.matched
        /\ \/ x.existing[i].anchor_fp = n.anchor_fp
           \/ x.existing[i].semantic_fp = n.semantic_fp

Answered(x, t, k) ==
  evaluateFindingState(normalized(x.report, k)) = "new" =>
    \E i \in DOMAIN t : AnswersFor(x, t, i, normalized(x.report, k))

Retains(x, t) ==
  x.pc \in Holding =>
    /\ DOMAIN x.existing \subseteq DOMAIN t
    /\ \A i \in DOMAIN x.existing : CopyHolds(x, t, i)
    /\ \A k \in persisted(x.report) \ x.todo : Answered(x, t, k)
    /\ x.pc = "supersede" => x.replaced[2] \in DOMAIN t /\ t[x.replaced[2]].run = x.run
    /\ x.pc = "status" => x.todo = {}

\* The run of a worker that is not alone overlaps.
Alone ==
  \A v, w \in Workers :
    v = w \/ work[v].pc = "idle" \/ work[w].pc = "idle" \/ work[w].run \in overlap

Retained ==
  /\ Alone
  /\ \A w \in Workers : work[w].run \in overlap \/ Retains(work[w], findings)

\* The table t becomes u: no row is lost, and what the run r has seen it has seen.
Upholds(t, u, r) ==
  /\ DOMAIN t \subseteq DOMAIN u
  /\ \A i \in DOMAIN t : u[i].run = t[i].run /\ (SeenBy(t[i], r) => SeenBy(u[i], r))

\* What a statement may do to the rows that a worker goes by: only a row of its
\* copy that was not reported dies, only when all that was reported is matched.
Respects(x, t, u) ==
  /\ Upholds(t, u, x.run)
  /\ \A i \in DOMAIN t :
       /\ i \in DOMAIN x.existing =>
            /\ u[i].semantic_fp = t[i].semantic_fp
            /\ u[i].anchor_fp = t[i].anchor_fp \/ Taken(x.report, x.existing[i])
       /\ i \notin DOMAIN x.existing => u[i].anchor_fp = t[i].anchor_fp
       /\ \/ Alive(t, i, x.run) => Alive(u, i, x.run)
          \/ x.todo = {} /\ i \in DOMAIN x.existing /\ i \notin x.matched

\* The worker goes on with the same copy.
GoesOn(x, y) ==
  /\ y.run = x.run /\ y.report = x.report /\ y.existing = x.existing
  /\ x.matched \subseteq y.matched /\ y.todo \subseteq x.todo

\* What a worker has matched stays matched.
LEMMA AnswersStay ==
  ASSUME NEW t, NEW u, NEW x, NEW y, GoesOn(x, y), Respects(x, t, u),
         NEW n, NEW i \in DOMAIN t, AnswersFor(x, t, i, n)
  PROVE  AnswersFor(y, u, i, n)
<1>1. SeenBy(u[i], y.run)  BY Zenon DEF AnswersFor, Respects, Upholds, GoesOn
<1>2. i \notin DOMAIN x.existing \/ i \in x.matched  BY Zenon DEF AnswersFor
<1>3. Alive(u, i, x.run)  BY <1>2, Zenon DEF AnswersFor, Respects
<1>4. Alive(u, i, y.run)  BY <1>3, Zenon DEF GoesOn
<1>5. CASE i \notin DOMAIN x.existing /\ t[i].anchor_fp = n.anchor_fp
  <2>1. i \notin DOMAIN y.existing /\ u[i].anchor_fp = n.anchor_fp
    BY <1>5, Zenon DEF Respects, GoesOn
  <2> QED BY <1>1, <1>4, <2>1, Zenon DEF AnswersFor
<1>6. CASE /\ i \in DOMAIN x.existing /\ i \in x.matched
           /\ \/ x.existing[i].anchor_fp = n.anchor_fp
              \/ x.existing[i].semantic_fp = n.semantic_fp
  <2>1. /\ i \in DOMAIN y.existing /\ i \in y.matched
        /\ \/ y.existing[i].anchor_fp = n.anchor_fp
           \/ y.existing[i].semantic_fp = n.semantic_fp
    BY <1>6, Zenon DEF GoesOn
  <2> QED BY <1>1, <1>4, <2>1, Zenon DEF AnswersFor
<1> QED BY <1>5, <1>6, Zenon DEF AnswersFor

\* A statement that respects the rows keeps what the worker retains, if the
\* finding it is about is answered for.
LEMMA RetainsByStatement ==
  ASSUME NEW t, NEW u, NEW x, NEW y, x.pc \in Holding, Retains(x, t), GoesOn(x, y),
         Respects(x, t, u), \A k \in x.todo \ y.todo : Answered(y, u, k),
         y.pc = "supersede" => y.replaced[2] \in DOMAIN u /\ u[y.replaced[2]].run = y.run,
         y.pc = "status" => y.todo = {}
  PROVE  Retains(y, u)
<1>1. DOMAIN t \subseteq DOMAIN u  BY Zenon DEF Respects, Upholds
<1>2. DOMAIN x.existing \subseteq DOMAIN t /\ y.existing = x.existing
  BY Zenon DEF Retains, GoesOn
<1>3. ASSUME NEW i \in DOMAIN y.existing PROVE CopyHolds(y, u, i)
  <2>1. i \in DOMAIN x.existing /\ i \in DOMAIN t  BY <1>2, Zenon
  <2>2. CopyHolds(x, t, i)  BY <2>1, Zenon DEF Retains
  <2>3. u[i].semantic_fp = y.existing[i].semantic_fp
    BY <1>2, <2>1, <2>2, Zenon DEF CopyHolds, Respects
  <2>4. u[i].anchor_fp = y.existing[i].anchor_fp \/ Taken(y.report, y.existing[i])
    BY <2>1, <2>2, Zenon DEF CopyHolds, Respects, GoesOn
  <2>5. SeenBy(y.existing[i], y.run) => SeenBy(u[i], y.run)
    BY <2>1, <2>2, Zenon DEF CopyHolds, Respects, Upholds, GoesOn
  <2>6. y.todo # {} => Alive(u, i, y.run)
    <3>1. y.todo # {} => x.todo # {}  BY Zenon DEF GoesOn
    <3>2. y.run = x.run  BY Zenon DEF GoesOn
    <3>3. x.todo # {} => Alive(u, i, x.run)  BY <2>1, <2>2, Zenon DEF CopyHolds, Respects
    <3> QED BY <3>1, <3>2, <3>3, Zenon
  <2> QED BY <2>3, <2>4, <2>5, <2>6, Zenon DEF CopyHolds
<1>4. ASSUME NEW k \in persisted(y.report) \ y.todo PROVE Answered(y, u, k)
  <2>1. CASE k \in x.todo  BY <2>1, Zenon
  <2>2. CASE k \notin x.todo
    <3>1. y.report = x.report  BY Zenon DEF GoesOn
    <3>2. Answered(x, t, k)  BY <2>2, <3>1, Zenon DEF Retains
    <3> DEFINE n == normalized(x.report, k)
    <3>3. SUFFICES ASSUME evaluateFindingState(n) = "new"
                   PROVE  \E i \in DOMAIN u : AnswersFor(y, u, i, n)
      BY <3>1, Zenon DEF Answered
    <3>4. PICK i \in DOMAIN t : AnswersFor(x, t, i, n)  BY <3>2, <3>3, Zenon DEF Answered
    <3> HIDE DEF n
    <3>5. AnswersFor(y, u, i, n)  BY <3>4, AnswersStay, Zenon
    <3> QED BY <1>1, <3>5, Zenon
  <2> QED BY <2>1, <2>2, Zenon
<1> QED BY <1>1, <1>2, <1>3, <1>4, Zenon DEF Retains

\* A row that keeps its state and what replaced it stays alive.
LEMMA AliveStays ==
  ASSUME NEW t, NEW u, NEW r, Upholds(t, u, r), NEW i \in DOMAIN t, Alive(t, i, r),
         u[i].state = t[i].state, u[i].matched = t[i].matched
  PROVE  Alive(u, i, r)
<1>1. CASE t[i].state \in ActiveStates \cup {"ignored"}  BY <1>1, Zenon DEF Alive
<1>2. CASE /\ t[i].state = "superseded" /\ t[i].matched \in DOMAIN t
           /\ t[t[i].matched].run = r
  <2>1. t[i].matched \in DOMAIN u /\ u[t[i].matched].run = r
    BY <1>2, Zenon DEF Upholds
  <2> QED BY <1>2, <2>1, Zenon DEF Alive
<1> QED BY <1>1, <1>2, Zenon DEF Alive

\* An UPDATE of a row leaves its run alone, and what the run r has seen.
LEMMA UpdateUpholds ==
  ASSUME NEW t, NEW u, NEW j, NEW F, Updates(t, u, j, F), NEW r,
         "run" \in FindingFields \ F,
         "last_seen" \in FindingFields \ F \/ (j \in DOMAIN t => u[j].last_seen = r)
  PROVE  Upholds(t, u, r)
<1>1. DOMAIN t \subseteq DOMAIN u  BY Zenon DEF Updates
<1>2. ASSUME NEW i \in DOMAIN t
      PROVE  u[i].run = t[i].run /\ (SeenBy(t[i], r) => SeenBy(u[i], r))
  <2>1. CASE i # j
    <3>1. u[i] = t[i]  BY <2>1, Zenon DEF Updates
    <3> QED BY <3>1, Zenon
  <2>2. CASE i = j
    <3>1. u[j].run = t[j].run  BY <2>2, Zenon DEF Updates
    <3>2. u[j].last_seen = t[j].last_seen \/ u[j].last_seen = r
      BY <2>2, Zenon DEF Updates
    <3> QED BY <2>2, <3>1, <3>2, Zenon DEF SeenBy
  <2> QED BY <2>1, <2>2, Zenon
<1> QED BY <1>1, <1>2, Zenon DEF Upholds

\* A statement after which every row has the anchor, the meaning, the state and
\* the successor it had.
LEMMA QuietRespects ==
  ASSUME NEW x, NEW t, NEW u, Upholds(t, u, x.run),
         \A i \in DOMAIN t :
           /\ u[i].anchor_fp = t[i].anchor_fp /\ u[i].semantic_fp = t[i].semantic_fp
           /\ u[i].state = t[i].state /\ u[i].matched = t[i].matched
  PROVE  Respects(x, t, u)
<1>1. ASSUME NEW i \in DOMAIN t PROVE Alive(t, i, x.run) => Alive(u, i, x.run)
  BY AliveStays, Zenon
<1> QED BY <1>1, Zenon DEF Respects

\* Nothing is written, or a row is added.
LEMMA InsertRespects ==
  ASSUME NEW x, NEW t, NEW u, \/ u = t
                              \/ \E e : Adds(t, u, e)
  PROVE  Respects(x, t, u)
<1>1. DOMAIN t \subseteq DOMAIN u /\ \A i \in DOMAIN t : u[i] = t[i]  BY Zenon DEF Adds
<1>2. Upholds(t, u, x.run)  BY <1>1, Zenon DEF Upholds
<1>3. \A i \in DOMAIN t :
        /\ u[i].anchor_fp = t[i].anchor_fp /\ u[i].semantic_fp = t[i].semantic_fp
        /\ u[i].state = t[i].state /\ u[i].matched = t[i].matched
  BY <1>1, Zenon
<1> QED BY <1>2, <1>3, QuietRespects, Zenon

\* UpdateFindingLastSeen: the run has seen the row, nothing else changes.
LEMMA TouchRespects ==
  ASSUME NEW x, NEW t, Rows(t), NEW j, NEW u, u = UpdateFindingLastSeen(t, j, x.run)
  PROVE  /\ Respects(x, t, u)
         /\ j \in DOMAIN t => j \in DOMAIN u /\ SeenBy(u[j], x.run)
                              /\ (Alive(t, j, x.run) => Alive(u, j, x.run))
<1> DEFINE F == {"last_seen"}
<1>1. Updates(t, u, j, F) /\ (j \in DOMAIN t => u[j].last_seen = x.run)
  BY SeenUpdate, SMT
<1>2. /\ "run" \in FindingFields \ F /\ "state" \in FindingFields \ F
      /\ "matched" \in FindingFields \ F /\ "anchor_fp" \in FindingFields \ F
      /\ "semantic_fp" \in FindingFields \ F
  BY Zenon DEF FindingFields
<1> HIDE DEF F
<1>3. Upholds(t, u, x.run)  BY <1>1, <1>2, UpdateUpholds, Zenon
<1>4. ASSUME NEW i \in DOMAIN t
      PROVE  /\ u[i].anchor_fp = t[i].anchor_fp /\ u[i].semantic_fp = t[i].semantic_fp
             /\ u[i].state = t[i].state /\ u[i].matched = t[i].matched
  <2>1. CASE i # j
    <3>1. u[i] = t[i]  BY <1>1, <2>1, Zenon DEF Updates
    <3> QED BY <3>1, Zenon
  <2>2. CASE i = j
    <3>1. \A k \in FindingFields \ F : u[i][k] = t[i][k]  BY <1>1, <2>2, Zenon DEF Updates
    <3> QED BY <1>2, <3>1, Zenon
  <2> QED BY <2>1, <2>2, Zenon
<1>5. Respects(x, t, u)  BY <1>3, <1>4, QuietRespects, Zenon
<1>6. j \in DOMAIN t => j \in DOMAIN u /\ SeenBy(u[j], x.run)
  BY <1>1, Zenon DEF Updates, SeenBy
<1>7. j \in DOMAIN t => (Alive(t, j, x.run) => Alive(u, j, x.run))
  BY <1>3, <1>4, AliveStays, Zenon
<1> QED BY <1>5, <1>6, <1>7, Zenon

\* UpdateFindingRelocation writes the meaning of the finding and the run.
LEMMA RelocatedRow ==
  ASSUME NEW t, Rows(t), NEW i \in DOMAIN t, NEW n, NEW r, NEW u,
         u = UpdateFindingRelocation(t, i, n, r)
  PROVE  u[i].semantic_fp = n.semantic_fp /\ u[i].last_seen = r
<1> DEFINE row == t[i]  e == [row EXCEPT !.path = n.path, !.kind = n.kind,
                           !.anchor_fp = n.anchor_fp, !.semantic_fp = n.semantic_fp,
                           !.last_seen = r]
<1>1. Has(row, FindingFields)  BY Zenon DEF Rows
<1>2. u[i] = e  BY Zenon DEF UpdateFindingRelocation
<1> HIDE DEF row
<1>3. e.semantic_fp = n.semantic_fp /\ e.last_seen = r
  BY <1>1, Zenon DEF Has, FindingFields
<1> QED BY <1>2, <1>3, Zenon

\* And no column but those of the place, the fingerprints and the run.
LEMMA RelocatedColumns ==
  ASSUME NEW t, Rows(t), NEW i, NEW n, NEW r, NEW u,
         u = UpdateFindingRelocation(t, i, n, r)
  PROVE  Updates(t, u, i, {"path", "kind", "anchor_fp", "semantic_fp", "last_seen"})
BY RelocationUpdate, SMT

\* UpdateFindingRelocation of a row of the copy that has the meaning of the
\* finding: its anchor is taken.
LEMMA RelocationRespects ==
  ASSUME NEW x, NEW t, Rows(t), NEW j \in DOMAIN t, j \in DOMAIN x.existing,
         CopyHolds(x, t, j), NEW n \in Passing(x.report),
         x.existing[j].semantic_fp = n.semantic_fp, x.existing[j].anchor_fp # n.anchor_fp,
         NEW u, u = UpdateFindingRelocation(t, j, n, x.run)
  PROVE  /\ Respects(x, t, u) /\ j \in DOMAIN u /\ SeenBy(u[j], x.run)
         /\ Alive(t, j, x.run) => Alive(u, j, x.run)
<1> DEFINE F == {"path", "kind", "anchor_fp", "semantic_fp", "last_seen"}
<1>1. Updates(t, u, j, F)  BY RelocatedColumns, Zenon
<1>2. u[j].semantic_fp = n.semantic_fp /\ u[j].last_seen = x.run  BY RelocatedRow, SMT
<1>3. /\ "run" \in FindingFields \ F /\ "state" \in FindingFields \ F
      /\ "matched" \in FindingFields \ F
  BY Zenon DEF FindingFields
<1> HIDE DEF F
<1>4. Upholds(t, u, x.run)  BY <1>1, <1>2, <1>3, UpdateUpholds, Zenon
<1>5. \A i \in DOMAIN t : i # j => u[i] = t[i]  BY <1>1, Zenon DEF Updates
<1>6. ASSUME NEW i \in DOMAIN t PROVE Alive(t, i, x.run) => Alive(u, i, x.run)
  <2>1. u[i].state = t[i].state /\ u[i].matched = t[i].matched
    <3>1. CASE i # j
      <4>1. u[i] = t[i]  BY <1>5, <3>1, Zenon
      <4> QED BY <4>1, Zenon
    <3>2. CASE i = j
      <4>1. \A k \in FindingFields \ F : u[i][k] = t[i][k]
        BY <1>1, <3>2, Zenon DEF Updates
      <4> QED BY <1>3, <4>1, Zenon
    <3> QED BY <3>1, <3>2, Zenon
  <2> QED BY <1>4, <2>1, AliveStays, Zenon
<1>7. u[j].semantic_fp = t[j].semantic_fp /\ Taken(x.report, x.existing[j])
  BY <1>2, Zenon DEF CopyHolds, Taken
<1>8. Respects(x, t, u)
  <2>1. ASSUME NEW i \in DOMAIN t
        PROVE  /\ i \in DOMAIN x.existing =>
                    /\ u[i].semantic_fp = t[i].semantic_fp
                    /\ u[i].anchor_fp = t[i].anchor_fp \/ Taken(x.report, x.existing[i])
               /\ i \notin DOMAIN x.existing => u[i].anchor_fp = t[i].anchor_fp
    <3>1. CASE i # j
      <4>1. u[i] = t[i]  BY <1>5, <3>1, Zenon
      <4> QED BY <4>1, Zenon
    <3>2. CASE i = j  BY <1>7, <3>2, Zenon
    <3> QED BY <3>1, <3>2, Zenon
  <2> QED BY <1>4, <1>6, <2>1, Zenon DEF Respects
<1>9. SeenBy(u[j], x.run)  BY <1>2, Zenon DEF SeenBy
<1> QED BY <1>1, <1>6, <1>8, <1>9, Zenon DEF Updates

\* UpdateFindingState: the row stays alive, or may die.
LEMMA StateRespects ==
  ASSUME NEW x, NEW t, Rows(t), NEW j, NEW st, NEW m, NEW u,
         u = UpdateFindingState(t, j, st, m),
         \/ st = "ignored"
         \/ st = "superseded" /\ m \in DOMAIN t /\ t[m].run = x.run
         \/ x.todo = {} /\ j \in DOMAIN x.existing /\ j \notin x.matched
  PROVE  Respects(x, t, u)
<1> DEFINE F == {"state", "matched"}
<1>1. /\ Updates(t, u, j, F)
      /\ j \in DOMAIN t => u[j].state = st /\ u[j].matched = m
  BY StateUpdate, SMT
<1>2. /\ "run" \in FindingFields \ F /\ "last_seen" \in FindingFields \ F
      /\ "anchor_fp" \in FindingFields \ F /\ "semantic_fp" \in FindingFields \ F
  BY Zenon DEF FindingFields
<1> HIDE DEF F
<1>3. Upholds(t, u, x.run)  BY <1>1, <1>2, UpdateUpholds, Zenon
<1>4. ASSUME NEW i \in DOMAIN t
      PROVE  u[i].anchor_fp = t[i].anchor_fp /\ u[i].semantic_fp = t[i].semantic_fp
  <2>1. CASE i # j
    <3>1. u[i] = t[i]  BY <1>1, <2>1, Zenon DEF Updates
    <3> QED BY <3>1, Zenon
  <2>2. CASE i = j
    <3>1. \A k \in FindingFields \ F : u[i][k] = t[i][k]  BY <1>1, <2>2, Zenon DEF Updates
    <3> QED BY <1>2, <3>1, Zenon
  <2> QED BY <2>1, <2>2, Zenon
<1>5. ASSUME NEW i \in DOMAIN t
      PROVE  \/ Alive(t, i, x.run) => Alive(u, i, x.run)
             \/ x.todo = {} /\ i \in DOMAIN x.existing /\ i \notin x.matched
  <2>1. CASE i # j
    <3>1. u[i] = t[i]  BY <1>1, <2>1, Zenon DEF Updates
    <3> QED BY <1>3, <3>1, AliveStays, Zenon
  <2>2. CASE i = j /\ st = "ignored"  BY <1>1, <2>2, Zenon DEF Alive
  <2>3. CASE i = j /\ st = "superseded" /\ m \in DOMAIN t /\ t[m].run = x.run
    <3>1. m \in DOMAIN u /\ u[m].run = x.run  BY <1>3, <2>3, Zenon DEF Upholds
    <3> QED BY <1>1, <2>3, <3>1, Zenon DEF Alive
  <2> QED BY <2>1, <2>2, <2>3, Zenon
<1> QED BY <1>3, <1>4, <1>5, Zenon DEF Respects

\* What becomes of a finding that passes the thresholds: it is matched with a
\* row by its anchor or by its meaning, or a row is inserted.
Disposes(x, y, n) ==
  \/ \E i \in DOMAIN x.existing :
       /\ y.pc = "match" /\ y.matched = x.matched \cup {i}
       /\ \/ /\ x.existing[i].anchor_fp = n.anchor_fp
             /\ \/ SeenBy(x.existing[i], x.run) /\ findings' = findings
                \/ findings' = UpdateFindingLastSeen(findings, i, x.run)
          \/ /\ x.existing[i].semantic_fp = n.semantic_fp /\ NoAnchor(x.existing, n)
             /\ findings' = UpdateFindingRelocation(findings, i, n, x.run)
  \/ /\ findings' = InsertReviewFinding(findings, x.run, n, "new")
     /\ x.matched \subseteq y.matched
     /\ y.pc = "match" \/ (y.pc = "supersede" /\ y.replaced[2] = Len(findings) + 1)

\* One turn of the loop over the findings.
Turns(w, x, y) ==
  LET n == normalized(x.report, Min(x.todo)) IN
  /\ Moves(w) /\ x.pc = "match" /\ x.todo # {}
  /\ y.run = x.run /\ y.report = x.report /\ y.existing = x.existing
  /\ y.todo = x.todo \ {Min(x.todo)}
  /\ \/ /\ evaluateFindingState(n) # "new" /\ y.matched = x.matched /\ y.pc = "match"
        /\ \/ findings' = findings
           \/ findings' = InsertReviewFinding(findings, x.run, n, "filtered")
     \/ evaluateFindingState(n) = "new" /\ Disposes(x, y, n)

\* The row that matchExistingFinding names has the anchor or the meaning.
LEMMA DecisionNames ==
  ASSUME NEW existing, DOMAIN existing \subseteq Nat, NEW n, NEW r,
         NEW d \in matchExistingFinding(existing, n, r)
  PROVE  /\ d.do \in {"skip", "touch"} =>
              d.id \in DOMAIN existing /\ existing[d.id].anchor_fp = n.anchor_fp
         /\ d.do = "skip" => SeenBy(existing[d.id], r)
         /\ d.do = "relocate" =>
              d.id \in DOMAIN existing /\ existing[d.id].semantic_fp = n.semantic_fp
<1> DEFINE byAnchor == {i \in DOMAIN existing :
             ~Uncomparable(existing[i], n) /\ existing[i].anchor_fp = n.anchor_fp}
           bySemantic == {i \in DOMAIN existing :
             /\ ~Uncomparable(existing[i], n)
             /\ existing[i].semantic_fp = n.semantic_fp
             /\ ~SeenBy(existing[i], r)}
<1>1. byAnchor \subseteq DOMAIN existing /\ bySemantic \subseteq DOMAIN existing
  BY Zenon
<1>2. CASE byAnchor # {}
  <2>1. Min(byAnchor) \in byAnchor  BY <1>1, <1>2, HasLeast, Zenon
  <2>2. Min(byAnchor) \in DOMAIN existing /\ existing[Min(byAnchor)].anchor_fp = n.anchor_fp
    BY <2>1, Zenon
  <2> DEFINE verb == IF SeenBy(existing[Min(byAnchor)], r) THEN "skip" ELSE "touch"
  <2>3. d = [do |-> verb, id |-> Min(byAnchor)]
    BY <1>2, Zenon DEF matchExistingFinding
  <2>4. verb \in {"skip", "touch"} /\ (verb = "skip" => SeenBy(existing[Min(byAnchor)], r))
    BY Zenon
  <2> HIDE DEF byAnchor, bySemantic, verb
  <2>5. d.do = verb /\ d.id = Min(byAnchor)  BY <2>3, Zenon
  <2> QED BY <2>2, <2>4, <2>5, Zenon
<1>3. CASE byAnchor = {} /\ bySemantic # {}
  <2>1. Min(bySemantic) \in bySemantic  BY <1>1, <1>3, HasLeast, Zenon
  <2>2. /\ Min(bySemantic) \in DOMAIN existing
        /\ existing[Min(bySemantic)].semantic_fp = n.semantic_fp
    BY <2>1, Zenon
  <2> DEFINE verb == IF relocationMatches(existing[Min(bySemantic)], n) THEN "relocate"
                     ELSE "supersede"
  <2>3. d = [do |-> verb, id |-> Min(bySemantic)]
    BY <1>3, Zenon DEF matchExistingFinding
  <2>4. verb \in {"relocate", "supersede"}  BY Zenon
  <2> HIDE DEF byAnchor, bySemantic, verb
  <2>5. d.do = verb /\ d.id = Min(bySemantic)  BY <2>3, Zenon
  <2> QED BY <2>2, <2>4, <2>5, Zenon
<1>4. CASE byAnchor = {} /\ bySemantic = {}
  <2>1. \/ d = [do |-> "insert", id |-> 0]
        \/ \E i \in DOMAIN existing : d = [do |-> "supersede", id |-> i]
    BY <1>4, Zenon DEF matchExistingFinding
  <2> HIDE DEF byAnchor, bySemantic
  <2>2. d = [do |-> "insert", id |-> 0] => d.do = "insert"  BY SMT
  <2>3. ASSUME NEW i, d = [do |-> "supersede", id |-> i] PROVE d.do = "supersede"
    BY <2>3, Zenon
  <2>4. d.do \in {"insert", "supersede"}  BY <2>1, <2>2, <2>3, Zenon
  <2> QED BY <2>4, Zenon
<1> QED BY <1>2, <1>3, <1>4, Zenon

\* No row of a copy has the id 0.
LEMMA CopiedIdsArePositive ==
  ASSUME Copies, NEW w \in Workers, work[w].pc = "match"
  PROVE  0 \notin DOMAIN work[w].existing
<1>1. DOMAIN work[w].existing \subseteq DOMAIN findings
  BY Zenon DEF Copies, Reads, Copying
<1>2. IsTable(findings)  BY Zenon DEF Copies, AnchoredRows, Rows
<1>3. 0 \notin DOMAIN findings  BY <1>2, SMT DEF IsTable
<1> QED BY <1>1, <1>3, Zenon

\* The loop over the findings, with the rows it has matched.
LEMMA TurnFrame ==
  ASSUME Books, Copies, NEW w \in Workers, MatchFinding(w)
  PROVE  Turns(w, work[w], work'[w])
<1> DEFINE x == work[w]  y == work'[w]  t == x.todo \ {Min(x.todo)}
           n == normalized(x.report, Min(x.todo))
<1>1. work = [v \in Workers |-> work[v]] /\ Has(x, WorkFields)
  BY Zenon DEF Books, Structure, WorkerShape
<1>2. x.pc = "match" /\ x.todo # {}  BY Zenon DEF MatchFinding, At
<1>3. CASE /\ work' = [work EXCEPT ![w].todo = @ \ {Min(@)}]
           /\ evaluateFindingState(n) # "new"
           /\ \/ findings' = InsertReviewFinding(findings, x.run, n, "filtered")
              \/ findings' = findings
  <2>1. Moves(w) /\ y = [x EXCEPT !.todo = t]  BY <1>1, <1>3, Zenon DEF Moves
  <2> HIDE DEF x, y, t, n
  <2>2. /\ y.run = x.run /\ y.report = x.report /\ y.existing = x.existing
        /\ y.pc = x.pc /\ y.todo = t /\ y.matched = x.matched
    BY <1>1, <2>1, Zenon DEF Has, WorkFields
  <2> QED BY <1>2, <1>3, <2>1, <2>2, Zenon DEF Turns, x, y, t, n
<1>4. ASSUME evaluateFindingState(n) = "new",
             NEW d \in matchExistingFinding(x.existing, n, x.run), Decide(w, n, d)
      PROVE  Turns(w, work[w], work'[w])
  <2> DEFINE m == IF d.id = 0 THEN x.matched ELSE x.matched \cup {d.id}
             done == [work EXCEPT ![w].todo = @ \ {Min(@)},
                                  ![w].matched = IF d.id = 0 THEN @ ELSE @ \cup {d.id}]
  <2>1. DOMAIN x.existing \subseteq Nat /\ 0 \notin DOMAIN x.existing
    BY <1>2, CopiedIds, CopiedIdsArePositive, Zenon
  <2>2. /\ d.do \in {"skip", "touch"} =>
             d.id \in DOMAIN x.existing /\ x.existing[d.id].anchor_fp = n.anchor_fp
        /\ d.do = "skip" => SeenBy(x.existing[d.id], x.run)
        /\ d.do = "relocate" =>
             d.id \in DOMAIN x.existing /\ x.existing[d.id].semantic_fp = n.semantic_fp
    <3> HIDE DEF x, n
    <3> QED BY <1>4, <2>1, DecisionNames, SMT
  <2>3. d.do = "relocate" => NoAnchor(x.existing, n)
    BY <1>4, <2>1, Decisions, Zenon
  <2>4. CASE /\ work' = done
             /\ \/ d.do = "skip" /\ findings' = findings
                \/ d.do = "touch" /\ findings' = UpdateFindingLastSeen(findings, d.id, x.run)
                \/ /\ d.do = "relocate"
                   /\ findings' = UpdateFindingRelocation(findings, d.id, n, x.run)
    <3>1. Moves(w) /\ y = [x EXCEPT !.todo = t, !.matched = m]
      BY <1>1, <2>4, Zenon DEF Moves
    <3>2. d.id \in DOMAIN x.existing  BY <2>2, <2>4, Zenon
    <3>3. m = x.matched \cup {d.id}  BY <2>1, <3>2, Zenon
    <3> HIDE DEF x, y, t, n, m
    <3>4. /\ y.run = x.run /\ y.report = x.report /\ y.existing = x.existing
          /\ y.pc = x.pc /\ y.todo = t /\ y.matched = m
      BY <1>1, <3>1, Zenon DEF Has, WorkFields
    <3>5. Disposes(x, y, n)
      BY <1>2, <2>2, <2>3, <2>4, <3>2, <3>3, <3>4, Zenon DEF Disposes
    <3> QED BY <1>2, <1>4, <3>1, <3>4, <3>5, Zenon DEF Turns, x, y, t, n
  <2>5. CASE /\ work' = [done EXCEPT
                           ![w].replaced = IF d.id = 0 THEN <<>>
                                           ELSE <<d.id, Len(findings) + 1>>,
                           ![w].pc = IF d.id = 0 THEN "match" ELSE "supersede"]
             /\ findings' = InsertReviewFinding(findings, x.run, n, "new")
    <3> DEFINE p == IF d.id = 0 THEN <<>> ELSE <<d.id, Len(findings) + 1>>
               label == IF d.id = 0 THEN "match" ELSE "supersede"
               next == [[x EXCEPT !.todo = t, !.matched = m]
                          EXCEPT !.replaced = p, !.pc = label]
    <3>1. Moves(w) /\ y = next
      <4>1. /\ done = [v \in Workers |-> done[v]]
            /\ \A v \in Workers \ {w} : done[v] = work[v]
            /\ done[w] = [x EXCEPT !.todo = t, !.matched = m]
        BY <1>1, Zenon
      <4> HIDE DEF done, p, label
      <4>2. work' = [done EXCEPT ![w].replaced = p, ![w].pc = label]
        BY <2>5, Zenon DEF p, label
      <4> QED BY <4>1, <4>2, Zenon DEF Moves
    <3>2. x.matched \subseteq m  BY Zenon
    <3> HIDE DEF x, y, t, n, m, p, label
    <3>3. /\ y.run = x.run /\ y.report = x.report /\ y.existing = x.existing
          /\ y.todo = t /\ y.matched = m /\ y.pc = label /\ y.replaced = p
      BY <1>1, <3>1, Zenon DEF Has, WorkFields
    <3>4. label = "match" \/ (label = "supersede" /\ p[2] = Len(findings) + 1)
      BY SMT DEF p, label
    <3>5. Disposes(x, y, n)  BY <2>5, <3>2, <3>3, <3>4, Zenon DEF Disposes, x, n
    <3> QED BY <1>2, <1>4, <3>1, <3>3, <3>5, Zenon DEF Turns, x, y, t, n
  <2> QED BY <1>4, <2>4, <2>5, Zenon DEF Decide
<1> QED BY <1>3, <1>4, Zenon DEF MatchFinding

\* The finding that is dealt with has its row: it was matched with one.
LEMMA MatchedAnswers ==
  ASSUME NEW x, NEW y, NEW t, NEW u, NEW n, NEW i \in DOMAIN x.existing, i \in DOMAIN u,
         GoesOn(x, y), i \in y.matched, SeenBy(u[i], x.run), Alive(u, i, x.run),
         \/ x.existing[i].anchor_fp = n.anchor_fp
         \/ x.existing[i].semantic_fp = n.semantic_fp
  PROVE  AnswersFor(y, u, i, n)
<1>1. y.run = x.run /\ y.existing = x.existing  BY Zenon DEF GoesOn
<1> QED BY <1>1, Zenon DEF AnswersFor

\* Or one was inserted for it.
LEMMA InsertedAnswers ==
  ASSUME NEW x, NEW y, NEW t, Rows(t), NEW u, NEW n, GoesOn(x, y),
         DOMAIN x.existing \subseteq DOMAIN t,
         u = InsertReviewFinding(t, x.run, n, "new")
  PROVE  /\ Adds(t, u, FindingRow(x.run, n, "new"))
         /\ Len(t) + 1 \in DOMAIN u /\ u[Len(t) + 1].run = y.run
         /\ AnswersFor(y, u, Len(t) + 1, n)
<1> DEFINE row == FindingRow(x.run, n, "new")  i == Len(t) + 1
<1>1. Adds(t, u, row)  BY FindingInserted, Zenon
<1>2. row.run = x.run /\ row.state = "new" /\ row.anchor_fp = n.anchor_fp
  BY Zenon DEF FindingRow
<1>3. y.run = x.run /\ y.existing = x.existing  BY Zenon DEF GoesOn
<1> HIDE DEF row, i
<1>4. i \in DOMAIN u /\ i \notin DOMAIN t /\ u[i] = row  BY <1>1, Zenon DEF Adds, i
<1>5. SeenBy(u[i], y.run) /\ Alive(u, i, y.run)
  BY <1>2, <1>3, <1>4, Zenon DEF SeenBy, Alive, ActiveStates
<1>6. i \notin DOMAIN y.existing /\ u[i].anchor_fp = n.anchor_fp
  BY <1>2, <1>3, <1>4, Zenon
<1>7. AnswersFor(y, u, i, n)  BY <1>5, <1>6, Zenon DEF AnswersFor
<1> QED BY <1>1, <1>2, <1>3, <1>4, <1>7, Zenon DEF i, row

\* One turn of the loop over the findings.
LEMMA TurnRetains ==
  ASSUME Copies, NEW w \in Workers, Turns(w, work[w], work'[w]), Retains(work[w], findings)
  PROVE  Retains(work'[w], findings')
<1> DEFINE x == work[w]  y == work'[w]  k == Min(x.todo)  n == normalized(x.report, k)
<1>1. /\ x.pc = "match" /\ x.todo # {} /\ y.todo = x.todo \ {k}
      /\ y.run = x.run /\ y.report = x.report /\ y.existing = x.existing
  BY Zenon DEF Turns
<1>2. Reads(x, findings) /\ Reviewed(x) /\ Rows(findings)
  BY Zenon DEF Copies, AnchoredRows
<1>3. PICK r \in Runs : x.report \in Reports[r]
  BY <1>1, <1>2, Zenon DEF Reviewed, Deduping, Copying
<1>4. /\ \A i \in DOMAIN x.existing : Anchored(x.existing[i])
      /\ x.todo \subseteq persisted(x.report) /\ x.pc \in Holding
  BY <1>1, <1>2, Zenon DEF Reads, Copying, Holding
<1>5. k \in x.todo /\ k \in persisted(x.report)
  <2>1. x.todo \subseteq Nat  BY <1>3, <1>4, PlacesAreNumbers, Zenon
  <2>2. k \in x.todo  BY <1>1, <2>1, HasLeast, Zenon
  <2> QED BY <1>4, <2>2, Zenon
<1>6. /\ DOMAIN x.existing \subseteq DOMAIN findings
      /\ \A i \in DOMAIN x.existing : CopyHolds(x, findings, i)
  BY <1>4, Zenon DEF Retains
<1>7. Anchored(n)  BY NormalizedIsAnchored, Zenon
<1>8. y.todo \subseteq x.todo /\ \A j \in x.todo \ y.todo : j = k  BY <1>1, Zenon
<1>9. ASSUME x.matched \subseteq y.matched, Respects(x, findings, findings'),
             Answered(y, findings', k),
             \/ y.pc = "match"
             \/ /\ y.pc = "supersede" /\ y.replaced[2] \in DOMAIN findings'
                /\ findings'[y.replaced[2]].run = y.run
      PROVE  Retains(y, findings')
  <2>1. GoesOn(x, y)  BY <1>1, <1>8, <1>9, Zenon DEF GoesOn
  <2>2. /\ y.pc = "supersede" => /\ y.replaced[2] \in DOMAIN findings'
                                 /\ findings'[y.replaced[2]].run = y.run
        /\ y.pc # "status"
        /\ \A j \in x.todo \ y.todo : Answered(y, findings', j)
    BY <1>8, <1>9, Zenon
  <2> HIDE DEF x, y, k
  <2> QED BY <1>4, <1>9, <2>1, <2>2, RetainsByStatement, Zenon DEF x
<1>10. CASE /\ evaluateFindingState(n) # "new" /\ y.matched = x.matched /\ y.pc = "match"
            /\ \/ findings' = findings
               \/ findings' = InsertReviewFinding(findings, x.run, n, "filtered")
  <2>1. Respects(x, findings, findings')
    <3>1. findings' = findings \/ \E e : Adds(findings, findings', e)
      BY <1>2, <1>10, FindingInserted, Zenon
    <3> HIDE DEF x
    <3> QED BY <3>1, InsertRespects, Zenon
  <2>2. Answered(y, findings', k)  BY <1>1, <1>10, Zenon DEF Answered
  <2> QED BY <1>9, <1>10, <2>1, <2>2, Zenon
<1>11. ASSUME NEW i \in DOMAIN x.existing, evaluateFindingState(n) = "new",
              y.pc = "match", y.matched = x.matched \cup {i},
              \/ /\ x.existing[i].anchor_fp = n.anchor_fp
                 /\ \/ SeenBy(x.existing[i], x.run) /\ findings' = findings
                    \/ findings' = UpdateFindingLastSeen(findings, i, x.run)
              \/ /\ x.existing[i].semantic_fp = n.semantic_fp /\ NoAnchor(x.existing, n)
                 /\ findings' = UpdateFindingRelocation(findings, i, n, x.run)
       PROVE  Retains(y, findings')
  <2>1. i \in DOMAIN findings /\ CopyHolds(x, findings, i)  BY <1>6, Zenon
  <2>2. Alive(findings, i, x.run)  BY <1>1, <2>1, Zenon DEF CopyHolds
  <2>3. n \in Passing(x.report)  BY <1>5, <1>11, Zenon DEF Passing
  <2>4. x.matched \subseteq y.matched /\ i \in y.matched  BY <1>11, Zenon
  <2>5. GoesOn(x, y)  BY <1>1, <1>8, <2>4, Zenon DEF GoesOn
  <2>6. /\ Respects(x, findings, findings') /\ i \in DOMAIN findings'
        /\ SeenBy(findings'[i], x.run) /\ Alive(findings', i, x.run)
    <3>1. CASE SeenBy(x.existing[i], x.run) /\ findings' = findings
      <4>1. Respects(x, findings, findings')
        <5> HIDE DEF x
        <5> QED BY <3>1, InsertRespects, Zenon
      <4>2. SeenBy(findings[i], x.run)  BY <2>1, <3>1, Zenon DEF CopyHolds
      <4> QED BY <2>1, <2>2, <3>1, <4>1, <4>2, Zenon
    <3>2. CASE findings' = UpdateFindingLastSeen(findings, i, x.run)
      <4> HIDE DEF x
      <4> QED BY <1>2, <2>1, <2>2, <3>2, TouchRespects, SMT
    <3>3. CASE /\ x.existing[i].semantic_fp = n.semantic_fp /\ NoAnchor(x.existing, n)
               /\ findings' = UpdateFindingRelocation(findings, i, n, x.run)
      <4>1. x.existing[i].anchor_fp # n.anchor_fp
        BY <1>4, <1>7, <3>3, NoAnchorInCopy, Zenon
      <4> HIDE DEF x, n
      <4> QED BY <1>2, <2>1, <2>2, <2>3, <3>3, <4>1, RelocationRespects, Zenon
    <3> QED BY <1>11, <3>1, <3>2, <3>3, Zenon
  <2>7. AnswersFor(y, findings', i, n)
    <3> HIDE DEF x, y, n
    <3> QED BY <1>11, <2>4, <2>5, <2>6, MatchedAnswers, Zenon
  <2>8. Answered(y, findings', k)  BY <1>1, <2>6, <2>7, Zenon DEF Answered
  <2> QED BY <1>9, <1>11, <2>4, <2>6, <2>8, Zenon
<1>12. ASSUME findings' = InsertReviewFinding(findings, x.run, n, "new"),
              x.matched \subseteq y.matched,
              y.pc = "match" \/ (y.pc = "supersede" /\ y.replaced[2] = Len(findings) + 1)
       PROVE  Retains(y, findings')
  <2>1. GoesOn(x, y)  BY <1>1, <1>8, <1>12, Zenon DEF GoesOn
  <2> DEFINE i == Len(findings) + 1
  <2>2. /\ Adds(findings, findings', FindingRow(x.run, n, "new"))
        /\ i \in DOMAIN findings' /\ findings'[i].run = y.run
        /\ AnswersFor(y, findings', i, n)
    <3> HIDE DEF x, y, n
    <3> QED BY <1>2, <1>6, <1>12, <2>1, InsertedAnswers, SMT
  <2>3. Respects(x, findings, findings')
    <3> HIDE DEF x
    <3> QED BY <2>2, InsertRespects, Zenon
  <2> HIDE DEF i
  <2>4. Answered(y, findings', k)  BY <1>1, <2>2, Zenon DEF Answered
  <2> QED BY <1>9, <1>12, <2>2, <2>3, <2>4, Zenon DEF i
<1> QED BY <1>10, <1>11, <1>12, Zenon DEF Turns, Disposes

\* The list that the loops start with.
LEMMA ListRetains ==
  ASSUME NEW w, Lists(w, work[w], work'[w])
  PROVE  Retains(work'[w], findings')
<1> DEFINE y == work'[w]
<1>1. /\ y.existing = ListActiveFindingsByMR(findings) /\ findings' = findings
      /\ y.todo = persisted(y.report) /\ y.pc = "match"
  BY Zenon DEF Lists, Carries
<1> HIDE DEF y
<1>2. /\ DOMAIN y.existing \subseteq DOMAIN findings
      /\ \A i \in DOMAIN findings :
           i \in DOMAIN y.existing <=> findings[i].state \in ActiveStates
      /\ \A i \in DOMAIN y.existing : y.existing[i] = findings[i]
  BY <1>1, ListedRows, SMT
<1>3. ASSUME NEW i \in DOMAIN y.existing PROVE CopyHolds(y, findings, i)
  <2>1. y.existing[i] = findings[i] /\ findings[i].state \in ActiveStates  BY <1>2, Zenon
  <2>2. Alive(findings, i, y.run)  BY <2>1, Zenon DEF Alive
  <2> QED BY <2>1, <2>2, Zenon DEF CopyHolds
<1>4. persisted(y.report) \ y.todo = {}  BY <1>1, Zenon
<1>5. Retains(y, findings)  BY <1>1, <1>2, <1>3, <1>4, Zenon DEF Retains
<1> QED BY <1>1, <1>5, Zenon DEF y

\* The second statement of a replacement: the row that is replaced has a
\* successor of this run.
LEMMA SupersedeRetains ==
  ASSUME Books, Copies, NEW w \in Workers, SupersedeFinding(w), Retains(work[w], findings)
  PROVE  Moves(w) /\ Retains(work'[w], findings')
<1> DEFINE x == work[w]  y == work'[w]  j == x.replaced[1]  m == x.replaced[2]
<1>1. work = [v \in Workers |-> work[v]] /\ Has(x, WorkFields)
  BY Zenon DEF Books, Structure, WorkerShape
<1>2. /\ Moves(w) /\ x.pc = "supersede"
      /\ findings' = UpdateFindingState(findings, j, "superseded", m)
      /\ y = [x EXCEPT !.pc = "match", !.replaced = <<>>]
  BY <1>1, Zenon DEF SupersedeFinding, At, Moves
<1>3. Rows(findings)  BY Zenon DEF Copies, AnchoredRows
<1> HIDE DEF x, y, j, m
<1>4. GoesOn(x, y) /\ y.pc = "match" /\ y.todo = x.todo
  BY <1>1, <1>2, Zenon DEF Has, WorkFields, GoesOn
<1>5. x.pc \in Holding /\ Retains(x, findings)
  BY <1>2, Zenon DEF Holding, Copying, x
<1>6. m \in DOMAIN findings /\ findings[m].run = x.run
  BY <1>2, <1>5, Zenon DEF Retains, m
<1>7. Respects(x, findings, findings')  BY <1>2, <1>3, <1>6, StateRespects, Zenon
<1>8. /\ \A k \in x.todo \ y.todo : Answered(y, findings', k)
      /\ y.pc # "supersede" /\ y.pc # "status"
  BY <1>4, Zenon
<1>9. Retains(y, findings')  BY <1>4, <1>5, <1>7, <1>8, RetainsByStatement, Zenon
<1> QED BY <1>2, <1>9, Zenon DEF y

\* A row that is settled as missing was matched with nothing.
LEMMA MissingRetains ==
  ASSUME Books, Copies, NEW w \in Workers, MissingFinding(w), Retains(work[w], findings)
  PROVE  Moves(w) /\ Retains(work'[w], findings')
<1> DEFINE x == work[w]  y == work'[w]  missing == DOMAIN x.existing \ x.matched
           i == Min(missing)  st == transitionMissingFinding(x.existing[i], x.report)
<1>1. work = [v \in Workers |-> work[v]] /\ Has(x, WorkFields)
  BY Zenon DEF Books, Structure, WorkerShape
<1>2. x.pc = "match"  BY Zenon DEF MissingFinding, At
<1>3. i \in missing
  <2>1. missing \subseteq Nat /\ missing # {}  BY <1>2, CopiedIds, Zenon DEF MissingFinding
  <2> HIDE DEF missing
  <2> QED BY <2>1, HasLeast, Zenon
<1>4. i \in DOMAIN x.existing /\ i \notin x.matched  BY <1>3, Zenon
<1>5. /\ Moves(w) /\ x.todo = {}
      /\ findings' = findings \/ findings' = UpdateFindingState(findings, i, st, 0)
      /\ y = [x EXCEPT !.matched = x.matched \cup {i}]
  BY <1>1, Zenon DEF MissingFinding, At, Moves
<1>6. Rows(findings)  BY Zenon DEF Copies, AnchoredRows
<1> HIDE DEF x, y, st, i, missing
<1>7. GoesOn(x, y) /\ y.pc = "match" /\ y.todo = x.todo
  BY <1>1, <1>2, <1>5, Zenon DEF Has, WorkFields, GoesOn
<1>8. x.pc \in Holding /\ Retains(x, findings)
  BY <1>2, Zenon DEF Holding, Copying, x
<1>9. Respects(x, findings, findings')
  BY <1>4, <1>5, <1>6, StateRespects, InsertRespects, Zenon
<1>10. /\ \A k \in x.todo \ y.todo : Answered(y, findings', k)
       /\ y.pc # "supersede" /\ y.pc # "status"
  BY <1>7, Zenon
<1>11. Retains(y, findings')  BY <1>7, <1>8, <1>9, <1>10, RetainsByStatement, Zenon
<1> QED BY <1>5, <1>11, Zenon DEF y

\* The outcome is read when nothing is left to match.
LEMMA OutcomeRetains ==
  ASSUME Books, NEW w \in Workers, LoadOutcome(w), Retains(work[w], findings)
  PROVE  Moves(w) /\ Retains(work'[w], findings')
<1> DEFINE x == work[w]  y == work'[w]  o == ListActiveFindingsByMR(findings)
<1>1. work = [v \in Workers |-> work[v]] /\ Has(x, WorkFields)
  BY Zenon DEF Books, Structure, WorkerShape
<1>2. /\ Moves(w) /\ x.pc = "match" /\ x.todo = {} /\ findings' = findings
      /\ y = [x EXCEPT !.pc = "status", !.outcome = o]
  BY <1>1, Zenon DEF LoadOutcome, At, Moves
<1> HIDE DEF x, y, o
<1>3. GoesOn(x, y) /\ y.pc = "status" /\ y.todo = x.todo
  BY <1>1, <1>2, Zenon DEF Has, WorkFields, GoesOn
<1>4. x.pc \in Holding /\ Retains(x, findings)
  BY <1>2, Zenon DEF Holding, Copying, x
<1>5. Respects(x, findings, findings')  BY <1>2, InsertRespects, Zenon
<1>6. /\ \A k \in x.todo \ y.todo : Answered(y, findings', k)
      /\ y.pc # "supersede" /\ y.todo = {}
  BY <1>2, <1>3, Zenon
<1>7. Retains(y, findings')  BY <1>3, <1>4, <1>5, <1>6, RetainsByStatement, Zenon
<1> QED BY <1>2, <1>7, Zenon DEF y

\* The worker leaves the deduplication, or is past it.
Rests(w) ==
  /\ Moves(w) /\ work[w].pc # "idle" /\ work'[w].pc \notin Holding
  /\ work'[w].pc = "idle" \/ work'[w].run = work[w].run

\* Every step is a statement of the deduplication, or of one of these kinds.
LEMMA OtherSteps ==
  ASSUME Books, [PublicationNext]_vars
  PROVE  \/ \E w \in Workers : overlap' = overlap /\ DedupStep(w)
         \/ \E w \in Workers : \E r \in Runs : \E report \in Reports[r] : Begin(w, r, report)
         \/ \E w \in Workers : overlap' = overlap /\ Rests(w)
         \/ CommandTurn
<1>1. Idle.pc = "idle"  BY Zenon DEF Idle
<1>2. ASSUME NEW w \in Workers, WritebackStep(w)
      PROVE  overlap' = overlap /\ Rests(w)
  <2>1. overlap' = overlap /\ Writes(w, work[w], work'[w])
    BY <1>2, WriterFrame, Zenon DEF WritebackStep, publicationVars
  <2> QED BY <1>1, <2>1, Zenon DEF Rests, Writes, Continues, WriterLabels, Settling,
                                   Holding, Copying
<1>3. ASSUME NEW w \in Workers, publishGateResult(w) \/ Stop(w)
      PROVE  overlap' = overlap /\ Rests(w)
  <2>1. /\ work' = [work EXCEPT ![w] = Idle] /\ overlap' = overlap
        /\ work[w].pc # "idle"
    BY <1>3, Zenon DEF publishGateResult, Stop, Abandon, At, publicationVars
  <2>2. Moves(w) /\ work'[w] = Idle  BY <2>1, LeaveFrame, Zenon
  <2> QED BY <1>1, <2>1, <2>2, Zenon DEF Rests, Holding, Copying
<1>4. ASSUME NEW r \in Runs, Cancel(r) PROVE CommandTurn
  BY <1>4, Zenon DEF Cancel, CommandTurn, storeVars, publicationVars
<1>5. ASSUME NEW gid, executeIgnore(gid) \/ executeResolve(gid) PROVE CommandTurn
  BY <1>5, Zenon DEF executeIgnore, executeResolve, CommandTurn, dedupVars
<1>6. CASE UNCHANGED vars
  BY <1>6, Zenon DEF vars, storeVars, dedupVars, publicationVars, CommandTurn
<1>7. ASSUME NEW w \in Workers, PersistStep(w) PROVE overlap' = overlap /\ DedupStep(w)
  BY <1>7, Zenon DEF PersistStep
<1> QED BY <1>2, <1>3, <1>4, <1>5, <1>6, <1>7, Zenon DEF PublicationNext

\* A step of the worker w, which is alone unless its run overlaps.
LEMMA RetainedByStep ==
  ASSUME Retained, NEW w \in Workers, Moves(w), overlap' = overlap,
         work[w].pc # "idle", work'[w].pc = "idle" \/ work'[w].run = work[w].run,
         work[w].run \in overlap \/ Retains(work'[w], findings')
         \/ work'[w].pc \notin Holding
  PROVE  Retained'
<1>1. Alone'  BY Zenon DEF Retained, Alone, Moves
<1>2. ASSUME NEW v \in Workers PROVE work'[v].run \in overlap \/ Retains(work'[v], findings')
  <2>1. CASE v = w  BY <2>1, Zenon DEF Retains, Holding, Copying
  <2>2. CASE v # w
    <3>1. work'[v] = work[v]  BY <2>2, Zenon DEF Moves
    <3>2. work[v].pc = "idle" \/ work[v].run \in overlap
      BY <2>2, Zenon DEF Retained, Alone
    <3> QED BY <3>1, <3>2, Zenon DEF Retains, Holding, Copying
  <2> QED BY <2>1, <2>2, Zenon
<1> QED BY <1>1, <1>2, Zenon DEF Retained

\* A run that begins overlaps with those at work, and they with it.
LEMMA BeginRetained ==
  ASSUME Retained, Books, Comments, NEW w \in Workers, NEW r \in Runs, NEW report,
         Begin(w, r, report)
  PROVE  Retained'
<1> DEFINE busy == {work[v].run : v \in Workers} \ {0}
<1>1. \/ busy = {} /\ overlap' = overlap
      \/ overlap' = overlap \cup busy \cup {r}
  BY Zenon DEF Begin
<1>2. /\ Moves(w) /\ findings' = findings /\ work'[w].pc = "list" /\ work'[w].run = r
  BY BeginFrame, SMT
<1>3. 0 \notin Runs  BY ReportsAssumption, Zenon
<1>4. ASSUME NEW v \in Workers, work[v].pc # "idle" PROVE work[v].run \in busy
  <2>1. work[v].run \in Runs  BY <1>4, Zenon DEF Comments, RunsInTurn
  <2> QED BY <1>3, <2>1, Zenon
<1> HIDE DEF busy
<1>5. ASSUME NEW v \in Workers, v # w, work[v].pc # "idle"
      PROVE  work[v].run \in overlap' /\ r \in overlap'
  BY <1>1, <1>4, <1>5, Zenon
<1>6. ASSUME NEW v \in Workers, v # w
      PROVE  work'[v] = work[v] /\ (work'[v].pc = "idle" \/ work'[v].run \in overlap')
  BY <1>2, <1>5, <1>6, Zenon DEF Moves
<1>7. Alone'
  <2>1. SUFFICES ASSUME NEW u \in Workers, NEW v \in Workers, u # v,
                        work'[u].pc # "idle", work'[v].pc # "idle"
                 PROVE  work'[v].run \in overlap'
    BY Zenon DEF Alone
  <2>2. CASE v = w
    <3>1. u # w /\ work[u].pc # "idle"  BY <1>6, <2>1, <2>2, Zenon
    <3> QED BY <1>2, <1>5, <2>2, <3>1, Zenon
  <2>3. CASE v # w  BY <1>6, <2>1, <2>3, Zenon
  <2> QED BY <2>2, <2>3, Zenon
<1>8. ASSUME NEW v \in Workers
      PROVE  work'[v].run \in overlap' \/ Retains(work'[v], findings')
  <2>1. work'[v].run \in overlap' \/ work'[v].pc \in {"idle", "list"}
    BY <1>2, <1>6, Zenon
  <2> QED BY <2>1, Zenon DEF Retains, Holding, Copying
<1> QED BY <1>7, <1>8, Zenon DEF Retained

\* Every step keeps what the workers have matched, unless their runs overlap.
LEMMA RetainedNext ==
  ASSUME Retained, Copies, Books, Comments, [PublicationNext]_vars
  PROVE  Retained'
<1>1. ASSUME NEW w \in Workers, overlap' = overlap, DedupStep(w) PROVE Retained'
  <2>1. SUFFICES ASSUME work[w].run \in overlap \/ Retains(work[w], findings)
                 PROVE  Retained'
    BY Zenon DEF Retained
  <2>2. CASE work[w].run \in overlap \/ PersistStatus(w)
    <3>1. work[w].pc = "match" => DOMAIN work[w].existing \subseteq Nat
      BY CopiedIds, Zenon
    <3>2. DedupTurn(w, work[w], work'[w]) \/ Concludes(w, work[w], work'[w])
      <4>1. MatchFinding(w) \/ MissingFinding(w) => work[w].pc = "match"
        BY Zenon DEF MatchFinding, MissingFinding, At
      <4> QED BY <1>1, <3>1, <4>1, ListFrame, MatchFrame, SupersedeFrame, MissingFrame,
                 ConcludeFrame, Zenon DEF DedupStep, DedupTurn
    <3>3. /\ Moves(w) /\ work[w].pc # "idle" /\ work'[w].run = work[w].run
      BY <3>2, Zenon DEF DedupTurn, Lists, Matches, Supersedes, Misses, Concludes, Carries
    <3>4. PersistStatus(w) => work'[w].pc \notin Holding
      <4>1. PersistStatus(w) => work'[w].pc = "writeback"
        <5>1. PersistStatus(w) => work' = [work EXCEPT ![w].pc = "writeback"]
          BY Zenon DEF PersistStatus
        <5>2. work = [v \in Workers |-> work[v]] /\ Has(work[w], WorkFields)
          BY Zenon DEF Books, Structure, WorkerShape
        <5> QED BY <5>1, <5>2, Zenon DEF Has, WorkFields
      <4> QED BY <4>1, Zenon DEF Holding, Copying
    <3> QED BY <1>1, <2>2, <3>3, <3>4, RetainedByStep, Zenon
  <2>3. CASE Retains(work[w], findings) /\ ~PersistStatus(w)
    <3>1. ListExisting(w) => Lists(w, work[w], work'[w])  BY ListFrame, Zenon
    <3>2. MatchFinding(w) => Turns(w, work[w], work'[w])  BY TurnFrame, Zenon
    <3>3. SupersedeFinding(w) => work[w].pc = "supersede" /\ Supersedes(w, work[w], work'[w])
      BY SupersedeFrame, Zenon DEF Supersedes
    <3>4. MissingFinding(w) => work[w].pc = "match" /\ Misses(w, work[w], work'[w])
      BY CopiedIds, MissingFrame, Zenon DEF MissingFinding, At
    <3>5. LoadOutcome(w) => work[w].pc = "match" /\ Concludes(w, work[w], work'[w])
      BY ConcludeFrame, Zenon DEF LoadOutcome, At
    <3>6. /\ Moves(w) /\ work[w].pc # "idle" /\ work'[w].run = work[w].run
      BY <1>1, <2>3, <3>1, <3>2, <3>3, <3>4, <3>5, Zenon
         DEF DedupStep, Lists, Turns, Supersedes, Misses, Concludes, Carries
    <3>7. Retains(work'[w], findings')
      BY <1>1, <2>3, <3>1, <3>2, ListRetains, TurnRetains, SupersedeRetains,
         MissingRetains, OutcomeRetains, Zenon DEF DedupStep
    <3> QED BY <1>1, <3>6, <3>7, RetainedByStep, Zenon
  <2> QED BY <2>1, <2>2, <2>3, Zenon
<1>2. ASSUME NEW w \in Workers, overlap' = overlap, Rests(w) PROVE Retained'
  BY <1>2, RetainedByStep, Zenon DEF Rests
<1>3. ASSUME CommandTurn PROVE Retained'
  <2>1. work' = work /\ overlap' = overlap /\ Rows(findings)
    BY <1>3, Zenon DEF CommandTurn, Copies, AnchoredRows
  <2>2. ASSUME NEW w \in Workers, Retains(work[w], findings)
        PROVE  Retains(work[w], findings')
    <3> DEFINE x == work[w]
    <3>1. CASE x.pc \in Holding
      <4> HIDE DEF x
      <4>1. Respects(x, findings, findings')
        BY <1>3, <2>1, StateRespects, InsertRespects, Zenon DEF CommandTurn
      <4>2. Retains(x, findings)  BY <2>2, Zenon DEF x
      <4>3. GoesOn(x, x) /\ \A k \in x.todo \ x.todo : Answered(x, findings', k)
        BY Zenon DEF GoesOn
      <4>4. /\ x.pc = "supersede" => /\ x.replaced[2] \in DOMAIN findings'
                                     /\ findings'[x.replaced[2]].run = x.run
            /\ x.pc = "status" => x.todo = {}
        BY <3>1, <4>1, <4>2, Zenon DEF Retains, Respects, Upholds
      <4>5. Retains(x, findings')
        BY <3>1, <4>1, <4>2, <4>3, <4>4, RetainsByStatement, Zenon
      <4> QED BY <4>5, Zenon DEF x
    <3>2. CASE x.pc \notin Holding  BY <3>2, Zenon DEF Retains
    <3> QED BY <3>1, <3>2, Zenon
  <2> QED BY <2>1, <2>2, Zenon DEF Retained, Alone
<1> QED BY <1>1, <1>2, <1>3, OtherSteps, BeginRetained, Zenon

\* At the start no worker is busy.
LEMMA RetainedInit ==
  ASSUME PublicationInit
  PROVE  Retained
<1>1. \A w \in Workers : work[w].pc = "idle"  BY Zenon DEF PublicationInit, Idle
<1> QED BY <1>1, Zenon DEF Retained, Alone, Retains, Holding, Copying

\* A row that answers for a finding has its anchor or its meaning, or the
\* finding is displaced.
LEMMA AnsweredIsKept ==
  ASSUME NEW x, NEW t, x.pc = "status", Retains(x, t), NEW n \in Passing(x.report)
  PROVE  Displaced(x, n, Passing(x.report)) \/ \E i \in DOMAIN t :
           /\ SeenBy(t[i], x.run) /\ Alive(t, i, x.run)
           /\ t[i].anchor_fp = n.anchor_fp \/ t[i].semantic_fp = n.semantic_fp
<1>1. x.pc \in Holding  BY Zenon DEF Holding
<1>2. PICK k \in persisted(x.report) : n = normalized(x.report, k)
                                       /\ evaluateFindingState(n) = "new"
  BY Zenon DEF Passing
<1>3. Answered(x, t, k)  BY <1>1, <1>2, Zenon DEF Retains
<1>4. PICK i \in DOMAIN t : AnswersFor(x, t, i, n)  BY <1>2, <1>3, Zenon DEF Answered
<1>5. SeenBy(t[i], x.run) /\ Alive(t, i, x.run)  BY <1>4, Zenon DEF AnswersFor
<1>6. CASE i \notin DOMAIN x.existing /\ t[i].anchor_fp = n.anchor_fp
  BY <1>5, <1>6, Zenon
<1>7. CASE i \in DOMAIN x.existing
  <2>1. CopyHolds(x, t, i)  BY <1>1, <1>7, Zenon DEF Retains
  <2>2. CASE x.existing[i].semantic_fp = n.semantic_fp
    BY <1>5, <2>1, <2>2, Zenon DEF CopyHolds
  <2>3. CASE x.existing[i].anchor_fp = n.anchor_fp /\ x.existing[i].semantic_fp # n.semantic_fp
    <3>1. CASE t[i].anchor_fp = x.existing[i].anchor_fp  BY <1>5, <2>3, <3>1, Zenon
    <3>2. CASE Taken(x.report, x.existing[i])
      <4>1. PICK m \in Passing(x.report) : /\ m.anchor_fp # x.existing[i].anchor_fp
                                           /\ m.semantic_fp = x.existing[i].semantic_fp
        BY <3>2, Zenon DEF Taken
      <4>2. /\ x.existing[i].anchor_fp = n.anchor_fp
            /\ m.anchor_fp # n.anchor_fp /\ m.semantic_fp # n.semantic_fp
            /\ x.existing[i].semantic_fp = m.semantic_fp
        BY <2>3, <4>1, Zenon
      <4>3. Displaced(x, n, Passing(x.report))  BY <1>7, <4>2, Zenon DEF Displaced
      <4> QED BY <4>3, Zenon
    <3> QED BY <2>1, <3>1, <3>2, Zenon DEF CopyHolds
  <2> QED BY <1>4, <1>7, <2>2, <2>3, Zenon DEF AnswersFor
<1> QED BY <1>4, <1>6, <1>7, Zenon DEF AnswersFor

\* What a review reports is kept: a finding that passes the thresholds has,
\* when the run reads its outcome, a row with its anchor or its meaning that
\* the run has seen, alive or replaced by the run, unless another finding of the
\* report displaced it; for every run that had the merge request to itself,
\* whatever commands and crashes happened before or meanwhile.
THEOREM ReportedKept == PublicationSpec => []ReportedFindingsAreKept
<1>1. PublicationInit => Retained /\ Comments  BY RetainedInit, CommentsInit
<1>2. /\ Comments /\ Books /\ [PublicationNext]_vars => Comments'
      /\ Retained /\ Copies /\ Books /\ Comments /\ [PublicationNext]_vars => Retained'
  BY CommentsNext, RetainedNext
<1>3. Retained => ReportedFindingsAreKept
  <2>1. SUFFICES ASSUME Retained, NEW w \in Workers, At(w, "status"),
                        work[w].run \notin overlap, NEW n \in Passing(work[w].report)
                 PROVE  \/ Displaced(work[w], n, Passing(work[w].report))
                        \/ \E i \in DOMAIN findings :
                             LET f == findings[i] IN
                             /\ SeenBy(f, work[w].run)
                             /\ f.anchor_fp = n.anchor_fp \/ f.semantic_fp = n.semantic_fp
                             /\ \/ f.state \in ActiveStates \cup {"ignored"}
                                \/ /\ f.state = "superseded"
                                   /\ findings[f.matched].run = work[w].run
    BY Zenon DEF ReportedFindingsAreKept, Passing
  <2>2. work[w].pc = "status" /\ Retains(work[w], findings)
    BY <2>1, Zenon DEF Retained, At
  <2>3. Displaced(work[w], n, Passing(work[w].report)) \/ \E i \in DOMAIN findings :
          /\ SeenBy(findings[i], work[w].run) /\ Alive(findings, i, work[w].run)
          /\ findings[i].anchor_fp = n.anchor_fp \/ findings[i].semantic_fp = n.semantic_fp
    <3> DEFINE x == work[w]
    <3>1. x.pc = "status" /\ Retains(x, findings) /\ n \in Passing(x.report)
      BY <2>1, <2>2, Zenon
    <3> HIDE DEF x
    <3>2. Displaced(x, n, Passing(x.report)) \/ \E i \in DOMAIN findings :
            /\ SeenBy(findings[i], x.run) /\ Alive(findings, i, x.run)
            /\ findings[i].anchor_fp = n.anchor_fp \/ findings[i].semantic_fp = n.semantic_fp
      BY <3>1, AnsweredIsKept, SMT
    <3> QED BY <3>2, Zenon DEF x
  <2> QED BY <2>3, Zenon DEF Alive
<1> QED BY <1>1, <1>2, <1>3, CopiesAreKept, PTL DEF PublicationSpec
=============================================================================
