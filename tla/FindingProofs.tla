--------------------------- MODULE FindingProofs ---------------------------
(***************************************************************************)
(* The life of findings, whatever other workers, commands and crashes do   *)
(* between two statements of persistFindings.  A worker decides by a copy  *)
(* of the active rows: what the copy says is what the decisions rest on.   *)
(* A finding that a person ignored is changed only by a worker whose copy  *)
(* is older than that; and while the runs of the merge request do not      *)
(* overlap, no two active findings have the same anchor.                   *)
(***************************************************************************)
EXTENDS PublicationProofs, WellFoundedInduction

-----------------------------------------------------------------------------
(* Ids                                                                     *)

\* A nonempty set of ids has a least element, which the loops over ids rely on.
LEMMA HasLeast ==
  ASSUME NEW S, S \subseteq Nat, S # {}
  PROVE  Min(S) \in S /\ \A x \in S : Min(S) <= x
<1> DEFINE less == OpToRel(<, Nat)
<1>1. IsWellFoundedOn(less, Nat)  BY NatLessThanWellFounded
<1>2. \A x, y \in Nat : x < y => <<x, y>> \in less  BY DEF OpToRel
<1> HIDE DEF less
<1>3. PICK x \in S : \A y \in S : ~(<<y, x>> \in less)  BY <1>1, WFMin
<1>4. ASSUME NEW y \in S PROVE x <= y
  <2>1. x \in Nat /\ y \in Nat  OBVIOUS
  <2>2. ~(y < x)  BY <1>2, <1>3, <2>1, Zenon
  <2> QED BY <2>1, <2>2
<1> QED BY <1>4 DEF Min

-----------------------------------------------------------------------------
(* The statements of the deduplication, one by one                         *)

\* What only begin and end of a run change.
Carries(x, y) ==
  /\ Has(y, WorkFields)
  /\ y.run = x.run /\ y.report = x.report /\ y.posts = x.posts /\ y.settle = x.settle

\* No row of the copy has the anchor of n.
NoAnchor(existing, n) ==
  \A i \in DOMAIN existing :
    Uncomparable(existing[i], n) \/ existing[i].anchor_fp # n.anchor_fp

Lists(w, x, y) ==
  /\ Moves(w) /\ Carries(x, y) /\ x.pc = "list" /\ y.pc = "match"
  /\ y.existing = ListActiveFindingsByMR(findings) /\ y.todo = persisted(x.report)
  /\ findings' = findings

\* A finding is inserted; it may replace one of the copy.
Inserts(x, y, n) ==
  /\ NoAnchor(x.existing, n)
  /\ findings' = InsertReviewFinding(findings, x.run, n, "new")
  /\ \/ y.pc = "match"
     \/ y.pc = "supersede" /\ y.replaced[1] \in DOMAIN x.existing

Matches(w, x, y) ==
  LET n == normalized(x.report, Min(x.todo)) IN
  /\ Moves(w) /\ Carries(x, y) /\ x.pc = "match" /\ x.todo # {}
  /\ y.existing = x.existing /\ y.todo = x.todo \ {Min(x.todo)}
  /\ \/ y.pc = "match" /\ findings' = findings
     \/ /\ y.pc = "match"
        /\ findings' = InsertReviewFinding(findings, x.run, n, "filtered")
     \/ y.pc = "match" /\ \E i : findings' = UpdateFindingLastSeen(findings, i, x.run)
     \/ /\ y.pc = "match" /\ NoAnchor(x.existing, n)
        /\ \E i : findings' = UpdateFindingRelocation(findings, i, n, x.run)
     \/ evaluateFindingState(n) = "new" /\ Inserts(x, y, n)

Supersedes(w, x, y) ==
  /\ Moves(w) /\ Carries(x, y) /\ x.pc = "supersede" /\ y.pc = "match"
  /\ y.existing = x.existing /\ y.todo = x.todo
  /\ findings' = UpdateFindingState(findings, x.replaced[1], "superseded", x.replaced[2])

Misses(w, x, y) ==
  /\ Moves(w) /\ Carries(x, y) /\ x.pc = "match" /\ y.pc = "match"
  /\ y.existing = x.existing /\ y.todo = x.todo
  /\ \/ findings' = findings
     \/ \E i \in DOMAIN x.existing : \E st \in {"fixed", "stale"} :
          findings' = UpdateFindingState(findings, i, st, 0)

Concludes(w, x, y) ==
  /\ Moves(w) /\ Carries(x, y) /\ y.existing = x.existing /\ findings' = findings
  /\ \/ /\ x.pc = "match" /\ y.pc = "status"
        /\ y.outcome = ListActiveFindingsByMR(findings)
     \/ x.pc = "status" /\ y.pc = "writeback" /\ y.outcome = x.outcome

\* What matchExistingFinding decides.
LEMMA Decisions ==
  ASSUME NEW existing, DOMAIN existing \subseteq Nat, NEW n, NEW r,
         NEW d \in matchExistingFinding(existing, n, r)
  PROVE  /\ d.do \in {"relocate", "insert", "supersede"} => NoAnchor(existing, n)
         /\ d.id # 0 => d.id \in DOMAIN existing
<1> DEFINE byAnchor == {i \in DOMAIN existing :
             ~Uncomparable(existing[i], n) /\ existing[i].anchor_fp = n.anchor_fp}
           bySemantic == {i \in DOMAIN existing :
             /\ ~Uncomparable(existing[i], n)
             /\ existing[i].semantic_fp = n.semantic_fp
             /\ ~SeenBy(existing[i], r)}
<1>1. byAnchor \subseteq DOMAIN existing /\ bySemantic \subseteq DOMAIN existing
  BY Zenon
<1>2. byAnchor = {} => NoAnchor(existing, n)  BY Zenon DEF NoAnchor
<1>3. CASE byAnchor # {}
  <2>1. Min(byAnchor) \in DOMAIN existing  BY <1>1, <1>3, HasLeast, Zenon
  <2>2. d = [do |-> IF SeenBy(existing[Min(byAnchor)], r) THEN "skip" ELSE "touch",
             id |-> Min(byAnchor)]
    BY <1>3, Zenon DEF matchExistingFinding
  <2> HIDE DEF byAnchor
  <2>3. d.do \in {"skip", "touch"} /\ d.id = Min(byAnchor)  BY <2>2, Zenon
  <2> QED BY <2>1, <2>3, Zenon
<1>4. CASE byAnchor = {} /\ bySemantic # {}
  <2>1. Min(bySemantic) \in DOMAIN existing  BY <1>1, <1>4, HasLeast, Zenon
  <2> DEFINE verb == IF relocationMatches(existing[Min(bySemantic)], n) THEN "relocate"
                     ELSE "supersede"
  <2>2. d = [do |-> verb, id |-> Min(bySemantic)]
    BY <1>4, Zenon DEF matchExistingFinding
  <2> HIDE DEF byAnchor, bySemantic, verb
  <2>3. d.id = Min(bySemantic)  BY <2>2, Zenon
  <2> QED BY <1>2, <1>4, <2>1, <2>3, Zenon
<1>5. CASE byAnchor = {} /\ bySemantic = {}
  <2>1. \/ d = [do |-> "insert", id |-> 0]
        \/ \E i \in DOMAIN existing : d = [do |-> "supersede", id |-> i]
    BY <1>5, Zenon DEF matchExistingFinding
  <2> HIDE DEF byAnchor, bySemantic
  <2>2. ASSUME NEW i \in DOMAIN existing, d = [do |-> "supersede", id |-> i]
        PROVE  d.id \in DOMAIN existing
    <3>1. d.id = i  BY <2>2, Zenon
    <3> QED BY <3>1, Zenon
  <2>3. d = [do |-> "insert", id |-> 0] => d.id = 0  BY SMT
  <2> QED BY <1>2, <1>5, <2>1, <2>2, <2>3, Zenon
<1> QED BY <1>3, <1>4, <1>5, Zenon

\* The steps of DedupStep, read off the code.
LEMMA ListFrame ==
  ASSUME Books, NEW w \in Workers, ListExisting(w)
  PROVE  Lists(w, work[w], work'[w])
<1> DEFINE x == work[w]  y == work'[w]
           e == ListActiveFindingsByMR(findings)  t == persisted(x.report)
<1>1. work = [v \in Workers |-> work[v]] /\ Has(x, WorkFields)
  BY Zenon DEF Books, Structure, WorkerShape
<1>2. /\ Moves(w) /\ x.pc = "list" /\ findings' = findings
      /\ y = [x EXCEPT !.pc = "match", !.existing = e, !.todo = t]
  BY <1>1, Zenon DEF ListExisting, At, Moves, storeVars
<1> HIDE DEF x, y, e, t
<1>3. Carries(x, y) /\ y.pc = "match" /\ y.existing = e /\ y.todo = t
  BY <1>1, <1>2, Zenon DEF Has, WorkFields, Carries
<1> QED BY <1>2, <1>3, Zenon DEF Lists, x, y, e, t

\* One turn of the loop of persistFindings matches one finding.
LEMMA MatchFrame ==
  ASSUME Books, NEW w \in Workers, MatchFinding(w), DOMAIN work[w].existing \subseteq Nat
  PROVE  Matches(w, work[w], work'[w])
<1> DEFINE x == work[w]  y == work'[w]  t == x.todo \ {Min(x.todo)}
           n == normalized(x.report, Min(x.todo))
<1>1. work = [v \in Workers |-> work[v]] /\ Has(x, WorkFields)
  BY Zenon DEF Books, Structure, WorkerShape
<1>2. x.pc = "match" /\ x.todo # {}  BY Zenon DEF MatchFinding, At
<1>3. CASE /\ work' = [work EXCEPT ![w].todo = @ \ {Min(@)}]
           /\ \/ findings' = InsertReviewFinding(findings, x.run, n, "filtered")
              \/ findings' = findings
  <2>1. Moves(w) /\ y = [x EXCEPT !.todo = t]  BY <1>1, <1>3, Zenon DEF Moves
  <2> HIDE DEF x, y, t, n
  <2>2. Carries(x, y) /\ y.pc = x.pc /\ y.existing = x.existing /\ y.todo = t
    BY <1>1, <2>1, Zenon DEF Has, WorkFields, Carries
  <2> QED BY <1>2, <1>3, <2>1, <2>2, Zenon DEF Matches, x, y, t, n
<1>4. ASSUME evaluateFindingState(n) = "new",
             NEW d \in matchExistingFinding(x.existing, n, x.run), Decide(w, n, d)
      PROVE  Matches(w, work[w], work'[w])
  <2> DEFINE m == IF d.id = 0 THEN x.matched ELSE x.matched \cup {d.id}
             done == [work EXCEPT ![w].todo = @ \ {Min(@)},
                                  ![w].matched = IF d.id = 0 THEN @ ELSE @ \cup {d.id}]
  <2>1. /\ d.do \in {"relocate", "insert", "supersede"} => NoAnchor(x.existing, n)
        /\ d.id # 0 => d.id \in DOMAIN x.existing
    BY <1>4, Decisions, Zenon
  <2>2. CASE /\ work' = done
             /\ \/ findings' = findings
                \/ findings' = UpdateFindingLastSeen(findings, d.id, x.run)
                \/ /\ d.do = "relocate"
                   /\ findings' = UpdateFindingRelocation(findings, d.id, n, x.run)
    <3>1. Moves(w) /\ y = [x EXCEPT !.todo = t, !.matched = m]
      BY <1>1, <2>2, Zenon DEF Moves
    <3> HIDE DEF x, y, t, n, m
    <3>2. Carries(x, y) /\ y.pc = x.pc /\ y.existing = x.existing /\ y.todo = t
      BY <1>1, <3>1, Zenon DEF Has, WorkFields, Carries
    <3> QED BY <1>2, <2>1, <2>2, <3>1, <3>2, Zenon DEF Matches, x, y, t, n
  <2>3. CASE /\ d.do \in {"insert", "supersede"}
             /\ work' = [done EXCEPT
                           ![w].replaced = IF d.id = 0 THEN <<>>
                                           ELSE <<d.id, Len(findings) + 1>>,
                           ![w].pc = IF d.id = 0 THEN "match" ELSE "supersede"]
             /\ findings' = InsertReviewFinding(findings, x.run, n, "new")
    <3> DEFINE p == IF d.id = 0 THEN <<>> ELSE <<d.id, Len(findings) + 1>>
               label == IF d.id = 0 THEN "match" ELSE "supersede"
               next == [[x EXCEPT !.todo = t, !.matched = m]
                          EXCEPT !.replaced = p, !.pc = label]
    <3>1. Moves(w) /\ y = next
      <4>1. /\ done = [v \in Workers |-> done[v]]
            /\ \A v \in Workers \ {w} : done[v] = work[v]
            /\ done[w] = [x EXCEPT !.todo = t, !.matched = m]
        BY <1>1, Zenon
      <4> HIDE DEF done, p, label
      <4>2. work' = [done EXCEPT ![w].replaced = p, ![w].pc = label]
        BY <2>3, Zenon DEF p, label
      <4> QED BY <4>1, <4>2, Zenon DEF Moves
    <3> HIDE DEF x, y, t, n, m, p, label
    <3>2. /\ Carries(x, y) /\ y.existing = x.existing /\ y.todo = t
          /\ y.pc = label /\ y.replaced = p
      BY <1>1, <3>1, Zenon DEF Has, WorkFields, Carries
    <3>3. d.id # 0 => p[1] = d.id /\ label = "supersede"
      BY SMT DEF p, label
    <3>4. d.id = 0 => label = "match"  BY Zenon DEF label
    <3>5. Inserts(x, y, n)
      BY <2>1, <2>3, <3>2, <3>3, <3>4, Zenon DEF Inserts, x, y, n
    <3> QED BY <1>2, <1>4, <3>1, <3>2, <3>5, Zenon DEF Matches, x, y, t, n
  <2> QED BY <1>4, <2>2, <2>3, Zenon DEF Decide
<1> QED BY <1>3, <1>4, Zenon DEF MatchFinding

\* The second statement on a replaced finding closes the old row.
LEMMA SupersedeFrame ==
  ASSUME Books, NEW w \in Workers, SupersedeFinding(w)
  PROVE  Supersedes(w, work[w], work'[w])
<1> DEFINE x == work[w]  y == work'[w]
<1>1. work = [v \in Workers |-> work[v]] /\ Has(x, WorkFields)
  BY Zenon DEF Books, Structure, WorkerShape
<1>2. /\ Moves(w) /\ x.pc = "supersede"
      /\ findings' = UpdateFindingState(findings, x.replaced[1], "superseded", x.replaced[2])
      /\ y = [x EXCEPT !.pc = "match", !.replaced = <<>>]
  BY <1>1, Zenon DEF SupersedeFinding, At, Moves
<1> HIDE DEF x, y
<1>3. Carries(x, y) /\ y.pc = "match" /\ y.existing = x.existing /\ y.todo = x.todo
  BY <1>1, <1>2, Zenon DEF Has, WorkFields, Carries
<1> QED BY <1>2, <1>3, Zenon DEF Supersedes, x, y

\* One turn of the loop over unmatched rows closes one of them, or none.
LEMMA MissingFrame ==
  ASSUME Books, NEW w \in Workers, MissingFinding(w), DOMAIN work[w].existing \subseteq Nat
  PROVE  Misses(w, work[w], work'[w])
<1> DEFINE x == work[w]  y == work'[w]  missing == DOMAIN x.existing \ x.matched
           i == Min(missing)  st == transitionMissingFinding(x.existing[i], x.report)
<1>1. work = [v \in Workers |-> work[v]] /\ Has(x, WorkFields)
  BY Zenon DEF Books, Structure, WorkerShape
<1>2. missing \subseteq Nat /\ missing # {}  BY Zenon DEF MissingFinding
<1>3. i \in DOMAIN x.existing  BY <1>2, HasLeast, Zenon
<1>4. st = "" \/ st \in {"fixed", "stale"}  BY Zenon DEF transitionMissingFinding
<1>5. /\ Moves(w) /\ x.pc = "match"
      /\ findings' = IF st = "" THEN findings ELSE UpdateFindingState(findings, i, st, 0)
      /\ y = [x EXCEPT !.matched = x.matched \cup {i}]
  BY <1>1, Zenon DEF MissingFinding, At, Moves
<1> HIDE DEF x, y, st, i, missing
<1>6. Carries(x, y) /\ y.pc = x.pc /\ y.existing = x.existing /\ y.todo = x.todo
  BY <1>1, <1>5, Zenon DEF Has, WorkFields, Carries
<1> QED BY <1>3, <1>4, <1>5, <1>6, Zenon DEF Misses, x, y

\* LoadOutcome and PersistStatus leave the findings alone.
LEMMA ConcludeFrame ==
  ASSUME Books, NEW w \in Workers, LoadOutcome(w) \/ PersistStatus(w)
  PROVE  Concludes(w, work[w], work'[w])
<1> DEFINE x == work[w]  y == work'[w]  o == ListActiveFindingsByMR(findings)
<1>1. work = [v \in Workers |-> work[v]] /\ Has(x, WorkFields)
  BY Zenon DEF Books, Structure, WorkerShape
<1>2. CASE LoadOutcome(w)
  <2>1. /\ Moves(w) /\ x.pc = "match" /\ findings' = findings
        /\ y = [x EXCEPT !.pc = "status", !.outcome = o]
    BY <1>1, <1>2, Zenon DEF LoadOutcome, At, Moves
  <2> HIDE DEF x, y, o
  <2>2. Carries(x, y) /\ y.pc = "status" /\ y.existing = x.existing /\ y.outcome = o
    BY <1>1, <2>1, Zenon DEF Has, WorkFields, Carries
  <2> QED BY <2>1, <2>2, Zenon DEF Concludes, x, y, o
<1>3. CASE PersistStatus(w)
  <2>1. /\ Moves(w) /\ x.pc = "status" /\ findings' = findings
        /\ y = [x EXCEPT !.pc = "writeback"]
    BY <1>1, <1>3, Zenon DEF PersistStatus, At, Moves, storeVars
  <2> HIDE DEF x, y
  <2>2. /\ Carries(x, y) /\ y.pc = "writeback" /\ y.existing = x.existing
        /\ y.outcome = x.outcome
    BY <1>1, <2>1, Zenon DEF Has, WorkFields, Carries
  <2> QED BY <2>1, <2>2, Zenon DEF Concludes, x, y
<1> QED BY <1>2, <1>3, Zenon

-----------------------------------------------------------------------------
(* The kinds of steps                                                      *)

Copying == {"match", "supersede"}
Deduping == {"list"} \cup Copying

\* The worker does something else than to deduplicate.
Aside(w) ==
  /\ Moves(w) /\ LinksOnly
  /\ work[w].pc # "idle" /\ work'[w].pc \notin Deduping

DedupTurn(w, x, y) ==
  Lists(w, x, y) \/ Matches(w, x, y) \/ Supersedes(w, x, y) \/ Misses(w, x, y)

\* Nobody works; a command may ignore a finding.
CommandTurn ==
  /\ UNCHANGED <<work, overlap>>
  /\ findings' = findings \/ \E i : findings' = UpdateFindingState(findings, i, "ignored", 0)

StepKinds ==
  \/ \E w \in Workers : \E r \in Runs : \E report \in Reports[r] : Begin(w, r, report)
  \/ \E w \in Workers : UNCHANGED overlap /\ DedupTurn(w, work[w], work'[w])
  \/ \E w \in Workers : UNCHANGED overlap /\ Aside(w)
  \/ CommandTurn

\* Every step is of one of these kinds.
LEMMA StepsAreOfAKind ==
  ASSUME Books, [PublicationNext]_vars,
         \A w \in Workers : work[w].pc = "match" => DOMAIN work[w].existing \subseteq Nat
  PROVE  StepKinds
<1>1. ASSUME NEW w \in Workers, PersistStep(w)
      PROVE  UNCHANGED overlap /\ (DedupTurn(w, work[w], work'[w]) \/ Aside(w))
  <2>1. UNCHANGED overlap  BY <1>1, Zenon DEF PersistStep
  <2>2. CASE ListExisting(w)  BY <2>1, <2>2, ListFrame, Zenon DEF DedupTurn
  <2>3. CASE MatchFinding(w)
    <3>1. work[w].pc = "match"  BY <2>3, Zenon DEF MatchFinding, At
    <3> QED BY <2>1, <2>3, <3>1, MatchFrame, Zenon DEF DedupTurn
  <2>4. CASE SupersedeFinding(w)  BY <2>1, <2>4, SupersedeFrame, Zenon DEF DedupTurn
  <2>5. CASE MissingFinding(w)
    <3>1. work[w].pc = "match"  BY <2>5, Zenon DEF MissingFinding, At
    <3> QED BY <2>1, <2>5, <3>1, MissingFrame, Zenon DEF DedupTurn
  <2>6. CASE LoadOutcome(w) \/ PersistStatus(w)
    <3>1. Concludes(w, work[w], work'[w])  BY <2>6, ConcludeFrame, Zenon
    <3> QED BY <2>1, <3>1, Zenon DEF Concludes, Aside, LinksOnly, Deduping, Copying
  <2> QED BY <1>1, <2>2, <2>3, <2>4, <2>5, <2>6, Zenon DEF PersistStep, DedupStep
<1>2. Idle.pc = "idle"  BY Zenon DEF Idle
<1>3. ASSUME NEW w \in Workers, WritebackStep(w)
      PROVE  UNCHANGED overlap /\ Aside(w)
  <2>1. UNCHANGED overlap /\ Writes(w, work[w], work'[w])
    BY <1>3, WriterFrame, Zenon DEF WritebackStep, publicationVars
  <2> QED BY <1>2, <2>1, Zenon DEF Aside, Writes, Continues, WriterLabels, Settling,
                                   Deduping, Copying
<1>4. ASSUME NEW w \in Workers, publishGateResult(w) \/ Stop(w)
      PROVE  UNCHANGED overlap /\ Aside(w)
  <2>1. /\ work' = [work EXCEPT ![w] = Idle] /\ findings' = findings /\ UNCHANGED overlap
        /\ work[w].pc # "idle"
    BY <1>4, Zenon DEF publishGateResult, Stop, Abandon, At, storeVars, publicationVars
  <2>2. Moves(w) /\ work'[w] = Idle  BY <2>1, LeaveFrame, Zenon
  <2> QED BY <1>2, <2>1, <2>2, Zenon DEF Aside, LinksOnly, Deduping, Copying
<1>5. ASSUME NEW r \in Runs, Cancel(r) PROVE CommandTurn
  BY <1>5, Zenon DEF Cancel, CommandTurn, storeVars, publicationVars
<1>6. ASSUME NEW gid, executeIgnore(gid) \/ executeResolve(gid) PROVE CommandTurn
  BY <1>6, Zenon DEF executeIgnore, executeResolve, CommandTurn, dedupVars
<1>7. CASE UNCHANGED vars
  BY <1>7, Zenon DEF vars, storeVars, dedupVars, publicationVars, CommandTurn, StepKinds
<1> QED BY <1>1, <1>3, <1>4, <1>5, <1>6, <1>7, Zenon DEF PublicationNext, StepKinds

-----------------------------------------------------------------------------
(* The copies workers decide by                                            *)

\* The kind is part of the anchor.
Anchored(row) == row.anchor_fp[2] = row.kind

\* A worker's copy is of active rows, and what it is about to replace is one.
Reads(x, t) ==
  x.pc \in Copying =>
    /\ DOMAIN x.existing \subseteq DOMAIN t
    /\ \A i \in DOMAIN x.existing :
         x.existing[i].state \in ActiveStates /\ Anchored(x.existing[i])
    /\ x.todo \subseteq persisted(x.report)
    /\ x.pc = "supersede" => x.replaced[1] \in DOMAIN x.existing

Reviewed(x) == x.pc \in Deduping => \E r \in Runs : x.report \in Reports[r]

AnchoredRows(t) == Rows(t) /\ \A i \in DOMAIN t : Anchored(t[i])

Copies ==
  /\ AnchoredRows(findings)
  /\ \A w \in Workers : Reads(work[w], findings) /\ Reviewed(work[w])

\* normalizeFinding computes the anchor from the kind it returns.
LEMMA NormalizedIsAnchored ==
  ASSUME NEW report, NEW k
  PROVE  Anchored(normalized(report, k))
<1> DEFINE f == report.findings[k]
           j == normalizeAnchorKind(f.kind)
           kind == IF j # "" THEN j
                   ELSE IF f.new_line /\ ~f.old_line THEN "new"
                   ELSE IF f.old_line /\ ~f.new_line THEN "old" ELSE ""
           n == [f EXCEPT !.kind = kind]
           out == [path |-> f.path, kind |-> n.kind, severity |-> f.severity,
                   confidence |-> f.confidence, old_line |-> f.old_line,
                   new_line |-> f.new_line, anchor_fp |-> computeAnchorFingerprint(n),
                   semantic_fp |-> computeSemanticFingerprint(n)]
<1>1. normalized(report, k) = out  BY Zenon DEF normalized, normalizeFinding
<1> HIDE DEF n
<1>2. out.kind = n.kind /\ out.anchor_fp = computeAnchorFingerprint(n)  BY Zenon
<1>3. computeAnchorFingerprint(n)[2] = n.kind  BY SMT DEF computeAnchorFingerprint
<1> HIDE DEF out
<1> QED BY <1>1, <1>2, <1>3, Zenon DEF Anchored

\* The statements keep the ids.
LEMMA RowUpdated ==
  ASSUME NEW t, AnchoredRows(t), NEW u, NEW i, NEW F, Updates(t, u, i, F),
         \/ F \cap {"anchor_fp", "kind"} = {}
         \/ i \in DOMAIN t => Anchored(u[i])
  PROVE  AnchoredRows(u) /\ DOMAIN t \subseteq DOMAIN u
<1>1. ASSUME NEW j \in DOMAIN t PROVE Anchored(u[j])
  <2>1. CASE j # i  BY <1>1, <2>1, Zenon DEF Updates, AnchoredRows
  <2>2. CASE j = i /\ F \cap {"anchor_fp", "kind"} = {}
    <3>1. "anchor_fp" \in FindingFields \ F /\ "kind" \in FindingFields \ F
      BY <2>2, Zenon DEF FindingFields
    <3> QED BY <1>1, <2>2, <3>1, Zenon DEF Updates, AnchoredRows, Anchored
  <2> QED BY <1>1, <2>1, <2>2, Zenon
<1> QED BY <1>1, Zenon DEF Updates, AnchoredRows

\* A row inserted from a normalized finding is anchored.
LEMMA RowInserted ==
  ASSUME NEW t, AnchoredRows(t), NEW r, NEW n, Anchored(n), NEW st, NEW u,
         u = InsertReviewFinding(t, r, n, st)
  PROVE  AnchoredRows(u) /\ DOMAIN t \subseteq DOMAIN u
<1>1. Rows(u) /\ Adds(t, u, FindingRow(r, n, st))
  BY FindingInserted, Zenon DEF AnchoredRows
<1>2. Anchored(FindingRow(r, n, st))  BY Zenon DEF FindingRow, Anchored
<1> QED BY <1>1, <1>2, Zenon DEF Adds, AnchoredRows

\* The write of any step, Begin included.
LEMMA WritesKeepRows ==
  ASSUME AnchoredRows(findings),
         \/ findings' = findings \/ LinksOnly
         \/ \E i, st, m : findings' = UpdateFindingState(findings, i, st, m)
         \/ \E i, r : findings' = UpdateFindingLastSeen(findings, i, r)
         \/ \E i, r, report, k :
              findings' = UpdateFindingRelocation(findings, i, normalized(report, k), r)
         \/ \E r, report, k, st :
              findings' = InsertReviewFinding(findings, r, normalized(report, k), st)
  PROVE  AnchoredRows(findings') /\ DOMAIN findings \subseteq DOMAIN findings'
<1>1. Rows(findings)  BY Zenon DEF AnchoredRows
<1>2. ASSUME NEW i, NEW st, NEW m, findings' = UpdateFindingState(findings, i, st, m)
      PROVE  AnchoredRows(findings') /\ DOMAIN findings \subseteq DOMAIN findings'
  <2>1. Updates(findings, findings', i, {"state", "matched"})
    BY <1>1, <1>2, StateUpdate, Zenon
  <2>2. {"state", "matched"} \cap {"anchor_fp", "kind"} = {}  BY Zenon
  <2> QED BY <2>1, <2>2, RowUpdated, Zenon
<1>3. ASSUME NEW i, NEW r, findings' = UpdateFindingLastSeen(findings, i, r)
      PROVE  AnchoredRows(findings') /\ DOMAIN findings \subseteq DOMAIN findings'
  <2>1. Updates(findings, findings', i, {"last_seen"})  BY <1>1, <1>3, SeenUpdate, Zenon
  <2>2. {"last_seen"} \cap {"anchor_fp", "kind"} = {}  BY Zenon
  <2> QED BY <2>1, <2>2, RowUpdated, Zenon
<1>4. ASSUME NEW i, NEW d, findings' = UpdateFindingDiscussionID(findings, i, d)
      PROVE  AnchoredRows(findings') /\ DOMAIN findings \subseteq DOMAIN findings'
  <2>1. Updates(findings, findings', i, {"disc"})  BY <1>1, <1>4, DiscussionUpdate, Zenon
  <2>2. {"disc"} \cap {"anchor_fp", "kind"} = {}  BY Zenon
  <2> QED BY <2>1, <2>2, RowUpdated, Zenon
<1>5. ASSUME NEW i, NEW r, NEW report, NEW k,
             findings' = UpdateFindingRelocation(findings, i, normalized(report, k), r)
      PROVE  AnchoredRows(findings') /\ DOMAIN findings \subseteq DOMAIN findings'
  <2> DEFINE F == {"path", "kind", "anchor_fp", "semantic_fp", "last_seen"}
             n == normalized(report, k)
  <2>1. Anchored(n) /\ findings' = UpdateFindingRelocation(findings, i, n, r)
    BY <1>5, NormalizedIsAnchored, Zenon
  <2> HIDE DEF n
  <2>2. /\ Updates(findings, findings', i, F)
        /\ i \in DOMAIN findings =>
             findings'[i].kind = n.kind /\ findings'[i].anchor_fp = n.anchor_fp
    BY <1>1, <2>1, RelocationUpdate, SMT
  <2>3. i \in DOMAIN findings => Anchored(findings'[i])
    BY <2>1, <2>2, Zenon DEF Anchored
  <2> HIDE DEF F
  <2> QED BY <2>2, <2>3, RowUpdated, Zenon
<1>6. ASSUME NEW r, NEW report, NEW k, NEW st,
             findings' = InsertReviewFinding(findings, r, normalized(report, k), st)
      PROVE  AnchoredRows(findings') /\ DOMAIN findings \subseteq DOMAIN findings'
  <2> DEFINE n == normalized(report, k)
  <2>1. Anchored(n) /\ findings' = InsertReviewFinding(findings, r, n, st)
    BY <1>6, NormalizedIsAnchored, Zenon
  <2> HIDE DEF n
  <2> QED BY <2>1, RowInserted, Zenon
<1>7. CASE findings' = findings  BY <1>7, Zenon
<1> QED BY <1>2, <1>3, <1>4, <1>5, <1>6, <1>7, Zenon DEF LinksOnly

\* Begin, as far as the findings are concerned.
LEMMA BeginFrame ==
  ASSUME Books, NEW w \in Workers, NEW r, NEW report, Begin(w, r, report)
  PROVE  /\ Moves(w) /\ findings' = findings /\ threads' = threads
         /\ work[w].pc = "idle" /\ work'[w].pc = "list" /\ work'[w].run = r
         /\ work'[w].report = report /\ work'[w].posts = NoCopy
<1> DEFINE next == [Idle EXCEPT !.pc = "list", !.run = r, !.report = report]
<1>1. /\ work' = [work EXCEPT ![w] = next] /\ findings' = findings /\ threads' = threads
      /\ work[w].pc = "idle"
  BY Zenon DEF Begin, storeVars, At
<1>2. /\ next.pc = "list" /\ next.run = r /\ next.report = report
      /\ next.posts = NoCopy
  BY Zenon DEF Idle
<1> HIDE DEF next
<1>3. Moves(w) /\ work'[w] = next  BY <1>1, Zenon DEF Books, Structure, Moves
<1> QED BY <1>1, <1>2, <1>3, Zenon

\* The workers that do not move keep their copies.
LEMMA CopiesByStep ==
  ASSUME Copies, NEW w \in Workers, Moves(w),
         AnchoredRows(findings') /\ DOMAIN findings \subseteq DOMAIN findings',
         Reads(work'[w], findings'), Reviewed(work'[w])
  PROVE  Copies'
<1>1. ASSUME NEW v \in Workers PROVE Reads(work'[v], findings') /\ Reviewed(work'[v])
  <2>1. CASE v # w
    <3>1. work'[v] = work[v]  BY <2>1, Zenon DEF Moves
    <3>2. Reads(work[v], findings) /\ Reviewed(work[v])  BY Zenon DEF Copies
    <3>3. Reads(work[v], findings')  BY <3>2, Zenon DEF Reads
    <3> QED BY <3>1, <3>2, <3>3, Zenon
  <2> QED BY <2>1, Zenon
<1> QED BY <1>1, Zenon DEF Copies

\* The rows a worker lists.
LEMMA ListedRows ==
  ASSUME NEW t, NEW c, c = ListActiveFindingsByMR(t)
  PROVE  /\ DOMAIN c \subseteq DOMAIN t
         /\ \A i \in DOMAIN t : i \in DOMAIN c <=> t[i].state \in ActiveStates
         /\ \A i \in DOMAIN c : c[i] = t[i]
BY Zenon DEF ListActiveFindingsByMR

\* The ids of the copies are numbers.
LEMMA CopiedIds ==
  ASSUME Copies, NEW w \in Workers, work[w].pc = "match"
  PROVE  DOMAIN work[w].existing \subseteq Nat
<1>1. DOMAIN work[w].existing \subseteq DOMAIN findings
  BY Zenon DEF Copies, Reads, Copying
<1>2. IsTable(findings)  BY Zenon DEF Copies, AnchoredRows, Rows
<1>3. DOMAIN findings \subseteq Nat  BY <1>2, SMT DEF IsTable
<1> QED BY <1>1, <1>3, Zenon

\* Every step keeps the copies that workers have.
LEMMA CopiesNext ==
  ASSUME Copies, Books, [PublicationNext]_vars
  PROVE  Copies'
<1>1. StepKinds  BY StepsAreOfAKind, CopiedIds, Zenon
<1>2. AnchoredRows(findings)  BY Zenon DEF Copies
<1>3. ASSUME NEW w \in Workers, NEW r \in Runs, NEW report \in Reports[r],
             Begin(w, r, report)
      PROVE  Copies'
  <2>1. /\ Moves(w) /\ findings' = findings /\ work'[w].pc = "list"
        /\ work'[w].report = report
    BY <1>3, BeginFrame, SMT
  <2>2. Reads(work'[w], findings')  BY <2>1, Zenon DEF Reads, Copying
  <2>3. Reviewed(work'[w])  BY <2>1, Zenon DEF Reviewed
  <2> QED BY <1>2, <2>1, <2>2, <2>3, CopiesByStep, Zenon
<1>4. ASSUME NEW w \in Workers, Aside(w) PROVE Copies'
  <2>1. Moves(w) /\ LinksOnly /\ work'[w].pc \notin Deduping  BY <1>4, Zenon DEF Aside
  <2>2. Reads(work'[w], findings') /\ Reviewed(work'[w])
    BY <2>1, Zenon DEF Reads, Reviewed, Deduping
  <2>3. AnchoredRows(findings') /\ DOMAIN findings \subseteq DOMAIN findings'
    BY <1>2, <2>1, WritesKeepRows, Zenon
  <2> QED BY <2>1, <2>2, <2>3, CopiesByStep, Zenon
<1>5. ASSUME CommandTurn PROVE Copies'
  <2>1. AnchoredRows(findings') /\ DOMAIN findings \subseteq DOMAIN findings'
    BY <1>2, <1>5, WritesKeepRows, Zenon DEF CommandTurn
  <2>2. work' = work  BY <1>5, Zenon DEF CommandTurn
  <2> QED BY <2>1, <2>2, Zenon DEF Copies, Reads
<1>6. ASSUME NEW w \in Workers, DedupTurn(w, work[w], work'[w]) PROVE Copies'
  <2> DEFINE x == work[w]  y == work'[w]
  <2>1. Reads(x, findings) /\ Reviewed(x)  BY Zenon DEF Copies
  <2>2. Moves(w) /\ Carries(x, y) /\ x.pc \in Deduping
    BY <1>6, Zenon DEF DedupTurn, Lists, Matches, Supersedes, Misses, Deduping, Copying
  <2>3. Reviewed(y)  BY <2>1, <2>2, Zenon DEF Reviewed, Carries
  <2>4. AnchoredRows(findings') /\ DOMAIN findings \subseteq DOMAIN findings'
    <3>1. Lists(w, x, y) => findings' = findings  BY Zenon DEF Lists
    <3>2. Supersedes(w, x, y) =>
            \E i, st, m : findings' = UpdateFindingState(findings, i, st, m)
      BY Zenon DEF Supersedes
    <3>3. Misses(w, x, y) => \/ findings' = findings
            \/ \E i, st, m : findings' = UpdateFindingState(findings, i, st, m)
      BY Zenon DEF Misses
    <3>4. Matches(w, x, y) =>
            \/ findings' = findings
            \/ \E i, r : findings' = UpdateFindingLastSeen(findings, i, r)
            \/ \E i, r, report, k :
                 findings' = UpdateFindingRelocation(findings, i, normalized(report, k), r)
            \/ \E r, report, k, st :
                 findings' = InsertReviewFinding(findings, r, normalized(report, k), st)
      BY Zenon DEF Matches, Inserts
    <3> QED BY <1>2, <1>6, <3>1, <3>2, <3>3, <3>4, WritesKeepRows, Zenon DEF DedupTurn
  <2>5. Reads(y, findings')
    <3>1. CASE Lists(w, x, y)
      <4>1. /\ y.existing = ListActiveFindingsByMR(findings) /\ y.pc = "match"
            /\ y.todo = persisted(y.report)
        BY <3>1, Zenon DEF Lists, Carries
      <4> HIDE DEF y
      <4> DEFINE c == y.existing
      <4>2. /\ DOMAIN c \subseteq DOMAIN findings
            /\ \A i \in DOMAIN findings :
                 i \in DOMAIN c <=> findings[i].state \in ActiveStates
            /\ \A i \in DOMAIN c : c[i] = findings[i]
        BY <4>1, ListedRows, SMT
      <4>3. \A i \in DOMAIN c : c[i].state \in ActiveStates /\ Anchored(c[i])
        BY <1>2, <4>2, Zenon DEF AnchoredRows
      <4> QED BY <2>4, <4>1, <4>2, <4>3, Zenon DEF Reads
    <3>2. CASE ~Lists(w, x, y)
      <4>1. /\ y.existing = x.existing /\ y.todo \subseteq x.todo /\ y.report = x.report
            /\ x.pc \in Copying
            /\ y.pc = "supersede" => y.replaced[1] \in DOMAIN x.existing
        BY <1>6, <3>2, Zenon DEF DedupTurn, Matches, Inserts, Supersedes, Misses, Carries,
                                 Copying
      <4> HIDE DEF x, y
      <4> QED BY <2>1, <2>4, <4>1, Zenon DEF Reads
    <3> QED BY <3>1, <3>2, Zenon
  <2> QED BY <2>2, <2>3, <2>4, <2>5, CopiesByStep, Zenon
<1> QED BY <1>1, <1>3, <1>4, <1>5, <1>6, Zenon DEF StepKinds

\* At the start there are neither rows nor copies.
LEMMA CopiesInit ==
  ASSUME PublicationInit
  PROVE  Copies
<1>1. findings = <<>> /\ IsTable(findings)  BY BooksInit, Zenon DEF PublicationInit
<1>2. DOMAIN findings = {}  BY <1>1, SMT
<1>3. \A w \in Workers : work[w].pc = "idle"  BY Zenon DEF PublicationInit, Idle
<1> QED BY <1>1, <1>2, <1>3, Zenon DEF Copies, AnchoredRows, Rows, Reads, Reviewed,
                                      Deduping, Copying

-----------------------------------------------------------------------------
(* IgnoredFindingsAreLeftAlone                                             *)

\* The state of a row changes only by the statement that sets it.
LEMMA StateStays ==
  ASSUME Rows(findings), NEW i \in DOMAIN findings,
         \/ findings' = findings \/ LinksOnly
         \/ \E j, r : findings' = UpdateFindingLastSeen(findings, j, r)
         \/ \E j, n, r : findings' = UpdateFindingRelocation(findings, j, n, r)
         \/ \E r, n, st : findings' = InsertReviewFinding(findings, r, n, st)
         \/ \E j, st, m : findings' = UpdateFindingState(findings, j, st, m) /\ j # i
  PROVE  findings'[i].state = findings[i].state
<1> DEFINE F == {"path", "kind", "anchor_fp", "semantic_fp", "last_seen"}
<1>1. /\ "state" \in FindingFields \ {"disc"} /\ "state" \in FindingFields \ {"last_seen"}
      /\ "state" \in FindingFields \ F
  BY Zenon DEF FindingFields
<1>2. ASSUME NEW j, NEW G, Updates(findings, findings', j, G),
             j # i \/ "state" \in FindingFields \ G
      PROVE  findings'[i].state = findings[i].state
  BY <1>2, Zenon DEF Updates
<1>3. ASSUME NEW j, NEW d, findings' = UpdateFindingDiscussionID(findings, j, d)
      PROVE  findings'[i].state = findings[i].state
  <2>1. Updates(findings, findings', j, {"disc"})  BY <1>3, DiscussionUpdate, Zenon
  <2> QED BY <1>1, <1>2, <2>1, Zenon
<1>4. ASSUME NEW j, NEW r, findings' = UpdateFindingLastSeen(findings, j, r)
      PROVE  findings'[i].state = findings[i].state
  <2>1. Updates(findings, findings', j, {"last_seen"})  BY <1>4, SeenUpdate, Zenon
  <2> QED BY <1>1, <1>2, <2>1, Zenon
<1>5. ASSUME NEW j, NEW n, NEW r, findings' = UpdateFindingRelocation(findings, j, n, r)
      PROVE  findings'[i].state = findings[i].state
  <2>1. Updates(findings, findings', j, F)  BY <1>5, RelocationUpdate, SMT
  <2> QED BY <1>1, <1>2, <2>1, Zenon
<1>6. ASSUME NEW r, NEW n, NEW st, findings' = InsertReviewFinding(findings, r, n, st)
      PROVE  findings'[i].state = findings[i].state
  <2>1. Adds(findings, findings', FindingRow(r, n, st))  BY <1>6, FindingInserted, Zenon
  <2> QED BY <2>1, Zenon DEF Adds
<1>7. ASSUME NEW j, NEW st, NEW m, findings' = UpdateFindingState(findings, j, st, m),
             j # i
      PROVE  findings'[i].state = findings[i].state
  <2>1. Updates(findings, findings', j, {"state", "matched"})  BY <1>7, StateUpdate, Zenon
  <2> QED BY <1>2, <1>7, <2>1, Zenon
<1>8. CASE findings' = findings  BY <1>8, Zenon
<1> QED BY <1>3, <1>4, <1>5, <1>6, <1>7, <1>8, Zenon DEF LinksOnly

\* A worker settles rows of its copy only, and those were active when listed.
LEMMA IgnoredStay ==
  ASSUME Copies, Books, [PublicationNext]_vars, NEW i \in DOMAIN findings,
         findings[i].state = "ignored", findings'[i].state # "ignored"
  PROVE  \E w \in Workers : /\ i \in DOMAIN work[w].existing
                            /\ work[w].existing[i].state # "ignored"
<1>1. StepKinds  BY StepsAreOfAKind, CopiedIds, Zenon
<1>2. Rows(findings)  BY Zenon DEF Copies, AnchoredRows
<1>3. "ignored" \notin ActiveStates  BY Zenon DEF ActiveStates
<1>4. ASSUME NEW w \in Workers, NEW r \in Runs, NEW report \in Reports[r],
             Begin(w, r, report)
      PROVE  FALSE
  <2>1. findings' = findings  BY <1>4, Zenon DEF Begin, storeVars
  <2> QED BY <2>1, Zenon
<1>5. ASSUME NEW w \in Workers, Aside(w) PROVE FALSE
  BY <1>2, <1>5, StateStays, Zenon DEF Aside
<1>6. ASSUME CommandTurn PROVE FALSE
  <2>1. PICK j : findings' = UpdateFindingState(findings, j, "ignored", 0)
    BY <1>6, Zenon DEF CommandTurn
  <2>2. CASE j = i
    <3>1. j \in DOMAIN findings => findings'[j].state = "ignored"
      BY <1>2, <2>1, StateUpdate, SMT
    <3> QED BY <2>2, <3>1, Zenon
  <2>3. CASE j # i
    <3>1. findings'[i].state = findings[i].state
      BY <1>2, <2>1, <2>3, StateStays, Zenon
    <3> QED BY <3>1, Zenon
  <2> QED BY <2>2, <2>3, Zenon
<1>7. ASSUME NEW w \in Workers, DedupTurn(w, work[w], work'[w])
      PROVE  i \in DOMAIN work[w].existing /\ work[w].existing[i].state # "ignored"
  <2> DEFINE x == work[w]  y == work'[w]
  <2>1. Reads(x, findings)  BY Zenon DEF Copies
  <2>2. \A j \in DOMAIN x.existing : x.pc \in Copying => x.existing[j].state # "ignored"
    BY <1>3, <2>1, Zenon DEF Reads
  <2>3. findings' # findings  BY Zenon
  <2>4. CASE Matches(w, x, y)
    <3>1. \/ \E j, r : findings' = UpdateFindingLastSeen(findings, j, r)
          \/ \E j, n, r : findings' = UpdateFindingRelocation(findings, j, n, r)
          \/ \E r, n, st : findings' = InsertReviewFinding(findings, r, n, st)
      BY <2>3, <2>4, Zenon DEF Matches, Inserts
    <3>2. findings'[i].state = findings[i].state  BY <1>2, <3>1, StateStays, Zenon
    <3> QED BY <3>2, Zenon
  <2>5. CASE Supersedes(w, x, y) \/ Misses(w, x, y)
    <3>1. /\ x.pc \in Copying
          /\ \E j \in DOMAIN x.existing : \E st, m :
               findings' = UpdateFindingState(findings, j, st, m)
      BY <2>1, <2>3, <2>5, Zenon DEF Supersedes, Misses, Reads, Copying
    <3>2. PICK j \in DOMAIN x.existing : \E st, m :
               findings' = UpdateFindingState(findings, j, st, m)
      BY <3>1, Zenon
    <3>3. j = i
      <4>1. j # i => findings'[i].state = findings[i].state
        BY <1>2, <3>2, StateStays, Zenon
      <4> QED BY <4>1, Zenon
    <3> QED BY <2>2, <3>1, <3>3, Zenon
  <2> QED BY <1>7, <2>3, <2>4, <2>5, Zenon DEF DedupTurn, Lists
<1> QED BY <1>1, <1>4, <1>5, <1>6, <1>7, Zenon DEF StepKinds

\* The copies of the rows are as described in every reachable state.
LEMMA CopiesAreKept == PublicationSpec => [](Books /\ IsTable(findings) /\ Copies)
<1>1. PublicationInit => Copies  BY CopiesInit
<1>2. Copies /\ Books /\ [PublicationNext]_vars => Copies'  BY CopiesNext
<1> QED BY <1>1, <1>2, BooksAreKept, PTL DEF PublicationSpec

\* What a person ignored is brought back or settled only by a worker whose
\* list is older than the command: dedup.go never touches a row that was
\* "ignored" when it was listed.
THEOREM IgnoredLeftAlone == PublicationSpec => IgnoredFindingsAreLeftAlone
<1> DEFINE Left == \A i \in DOMAIN findings :
             (findings[i].state = "ignored" /\ findings'[i].state # "ignored") =>
               \E w \in Workers : /\ i \in DOMAIN work[w].existing
                                  /\ work[w].existing[i].state # "ignored"
<1>1. Books /\ Copies /\ [PublicationNext]_vars => Left
  BY IgnoredStay, Zenon
<1> HIDE DEF Left
<1>2. PublicationSpec => [][Left]_vars
  BY <1>1, CopiesAreKept, PTL DEF PublicationSpec
<1> QED BY <1>2 DEF IgnoredFindingsAreLeftAlone, Left

-----------------------------------------------------------------------------
(* NoDuplicateFinding                                                      *)

\* While runs do not overlap one worker at most is busy.
OneBusy ==
  \A v, w \in Workers : v = w \/ work[v].pc = "idle" \/ work[w].pc = "idle"

IsActive(row) == row.state \in ActiveStates

\* The anchors of two active rows differ.
AnchorsDiffer(t) ==
  \A i, j \in DOMAIN t :
    i = j \/ ~IsActive(t[i]) \/ ~IsActive(t[j]) \/ t[i].anchor_fp # t[j].anchor_fp

\* None of the findings that are still to be matched has the anchor of the row.
NotToCome(x, row) == \A k \in x.todo : normalized(x.report, k).anchor_fp # row.anchor_fp

\* What the worker does not see in its copy it will not meet either.
AnchorsKnown(x, t) ==
  x.pc \in Copying =>
    \A i \in DOMAIN t : IsActive(t[i]) =>
      \/ i \in DOMAIN x.existing /\ x.existing[i].anchor_fp = t[i].anchor_fp
      \/ NotToCome(x, t[i])

Deduplicated ==
  overlap = {} =>
    /\ OneBusy /\ AnchorsDiffer(findings)
    /\ \A w \in Workers : AnchorsKnown(work[w], findings)

\* Every report has its findings in a list, the anchors of the ones that are
\* persisted are pairwise different.
LEMMA PersistedDiffer ==
  ASSUME NEW r \in Runs, NEW report \in Reports[r],
         NEW j \in persisted(report), NEW k \in persisted(report), j # k
  PROVE  normalized(report, j).anchor_fp # normalized(report, k).anchor_fp
<1>1. report.findings \in Seq({report.findings[i] : i \in DOMAIN report.findings})
  BY ReportsAssumption, Zenon
<1>2. DOMAIN report.findings = 1..Len(report.findings) /\ Len(report.findings) \in Nat
  BY <1>1, SMT
<1>3. /\ j \in DOMAIN report.findings /\ k \in DOMAIN report.findings
      /\ \A i \in 1..(k - 1) :
           normalized(report, i).anchor_fp # normalized(report, k).anchor_fp
      /\ \A i \in 1..(j - 1) :
           normalized(report, i).anchor_fp # normalized(report, j).anchor_fp
  BY Zenon DEF persisted
<1>4. j \in 1..(k - 1) \/ k \in 1..(j - 1)  BY <1>2, <1>3, SMT
<1> QED BY <1>3, <1>4, Zenon

\* The places in a report are numbers.
LEMMA PlacesAreNumbers ==
  ASSUME NEW r \in Runs, NEW report \in Reports[r]
  PROVE  persisted(report) \subseteq Nat
<1>1. report.findings \in Seq({report.findings[i] : i \in DOMAIN report.findings})
  BY ReportsAssumption, Zenon
<1>2. DOMAIN report.findings \subseteq Nat  BY <1>1, SMT
<1>3. persisted(report) \subseteq DOMAIN report.findings  BY Zenon DEF persisted
<1> QED BY <1>2, <1>3, Zenon

\* A row of another kind has another anchor, so that the exception of
\* Uncomparable hides none.
LEMMA NoAnchorInCopy ==
  ASSUME NEW existing, NEW n, NoAnchor(existing, n), Anchored(n),
         \A i \in DOMAIN existing : Anchored(existing[i]), NEW i \in DOMAIN existing
  PROVE  existing[i].anchor_fp # n.anchor_fp
<1>1. SUFFICES ASSUME existing[i].anchor_fp = n.anchor_fp PROVE FALSE  OBVIOUS
<1>2. existing[i].kind = n.kind  BY <1>1, Zenon DEF Anchored
<1>3. ~Uncomparable(existing[i], n)  BY <1>2, Zenon DEF Uncomparable
<1> QED BY <1>1, <1>3, Zenon DEF NoAnchor

\* t becomes u: rows keep their anchors or stop to be active, and no active
\* row is new.
Thins(t, u) ==
  \A i \in DOMAIN u : IsActive(u[i]) =>
    i \in DOMAIN t /\ IsActive(t[i]) /\ u[i].anchor_fp = t[i].anchor_fp

\* t becomes u with one row more, or another anchor in one row: that of n.
Gains(t, u, n) ==
  /\ DOMAIN t \subseteq DOMAIN u
  /\ \E i \in DOMAIN u :
       /\ u[i].anchor_fp = n.anchor_fp
       /\ \A j \in DOMAIN u \ {i} : j \in DOMAIN t /\ u[j] = t[j]

\* Fewer active rows still have different anchors.
LEMMA ThinnedDiffer ==
  ASSUME NEW t, NEW u, Thins(t, u), AnchorsDiffer(t)
  PROVE  AnchorsDiffer(u)
BY Zenon DEF Thins, AnchorsDiffer

\* A worker that knew the anchors of more rows, and has the same to match, knows
\* those of fewer.
LEMMA ThinnedKnown ==
  ASSUME NEW t, NEW u, Thins(t, u), NEW x, AnchorsKnown(x, t), NEW y,
         y.pc \in Copying => /\ x.pc \in Copying /\ y.existing = x.existing
                             /\ y.todo \subseteq x.todo /\ y.report = x.report
  PROVE  AnchorsKnown(y, u)
<1>1. SUFFICES ASSUME y.pc \in Copying, NEW i \in DOMAIN u, IsActive(u[i])
               PROVE  \/ i \in DOMAIN y.existing /\ y.existing[i].anchor_fp = u[i].anchor_fp
                      \/ NotToCome(y, u[i])
  BY Zenon DEF AnchorsKnown
<1>2. /\ i \in DOMAIN t /\ IsActive(t[i]) /\ u[i].anchor_fp = t[i].anchor_fp
  BY <1>1, Zenon DEF Thins
<1>3. \/ i \in DOMAIN x.existing /\ x.existing[i].anchor_fp = t[i].anchor_fp
      \/ NotToCome(x, t[i])
  BY <1>1, <1>2, Zenon DEF AnchorsKnown
<1> QED BY <1>1, <1>2, <1>3, Zenon DEF NotToCome

\* The finding with the place k of the report is written: no active row has
\* its anchor, and none of the findings that remain has.
LEMMA GainedFresh ==
  ASSUME NEW t, NEW u, NEW x, x.pc \in Copying, AnchorsDiffer(t), AnchorsKnown(x, t),
         NEW k \in x.todo, NEW n, n = normalized(x.report, k), Gains(t, u, n), Anchored(n),
         NoAnchor(x.existing, n), \A i \in DOMAIN x.existing : Anchored(x.existing[i]),
         NEW r \in Runs, x.report \in Reports[r], x.todo \subseteq persisted(x.report),
         NEW y, y.existing = x.existing, y.todo = x.todo \ {k}, y.report = x.report
  PROVE  AnchorsDiffer(u) /\ AnchorsKnown(y, u)
<1>1. ASSUME NEW i \in DOMAIN t, IsActive(t[i]) PROVE t[i].anchor_fp # n.anchor_fp
  <2>1. CASE i \in DOMAIN x.existing /\ x.existing[i].anchor_fp = t[i].anchor_fp
    <3>1. x.existing[i].anchor_fp # n.anchor_fp  BY <2>1, NoAnchorInCopy, Zenon
    <3> QED BY <2>1, <3>1, Zenon
  <2>2. CASE NotToCome(x, t[i])
    <3>1. normalized(x.report, k).anchor_fp # t[i].anchor_fp  BY <2>2, Zenon DEF NotToCome
    <3> QED BY <3>1, Zenon
  <2> QED BY <1>1, <2>1, <2>2, Zenon DEF AnchorsKnown
<1>2. PICK i \in DOMAIN u : /\ u[i].anchor_fp = n.anchor_fp
                            /\ \A j \in DOMAIN u \ {i} : j \in DOMAIN t /\ u[j] = t[j]
  BY Zenon DEF Gains
<1>3. AnchorsDiffer(u)
  <2>1. SUFFICES ASSUME NEW a \in DOMAIN u, NEW b \in DOMAIN u, a # b,
                        IsActive(u[a]), IsActive(u[b])
                 PROVE  u[a].anchor_fp # u[b].anchor_fp
    BY Zenon DEF AnchorsDiffer
  <2>2. CASE a = i
    <3>1. b \in DOMAIN t /\ u[b] = t[b]  BY <1>2, <2>1, <2>2, Zenon
    <3> QED BY <1>1, <1>2, <2>1, <2>2, <3>1, Zenon
  <2>3. CASE b = i
    <3>1. a \in DOMAIN t /\ u[a] = t[a]  BY <1>2, <2>1, <2>3, Zenon
    <3> QED BY <1>1, <1>2, <2>1, <2>3, <3>1, Zenon
  <2>4. CASE a # i /\ b # i
    <3>1. a \in DOMAIN t /\ u[a] = t[a] /\ b \in DOMAIN t /\ u[b] = t[b]
      BY <1>2, <2>4, Zenon
    <3> QED BY <2>1, <3>1, Zenon DEF AnchorsDiffer
  <2> QED BY <2>2, <2>3, <2>4, Zenon
<1>4. ASSUME NEW j \in DOMAIN u, IsActive(u[j])
      PROVE  \/ j \in DOMAIN y.existing /\ y.existing[j].anchor_fp = u[j].anchor_fp
             \/ NotToCome(y, u[j])
  <2>1. CASE j = i
    <3>1. ASSUME NEW m \in y.todo PROVE normalized(x.report, m).anchor_fp # n.anchor_fp
      <4>1. m \in persisted(x.report) /\ k \in persisted(x.report) /\ m # k  BY Zenon
      <4> QED BY <4>1, PersistedDiffer, Zenon
    <3> QED BY <1>2, <2>1, <3>1, Zenon DEF NotToCome
  <2>2. CASE j # i
    <3>1. j \in DOMAIN t /\ u[j] = t[j]  BY <1>2, <2>2, Zenon
    <3>2. \/ j \in DOMAIN x.existing /\ x.existing[j].anchor_fp = t[j].anchor_fp
          \/ NotToCome(x, t[j])
      BY <1>4, <3>1, Zenon DEF AnchorsKnown
    <3> QED BY <3>1, <3>2, Zenon DEF NotToCome
  <2> QED BY <2>1, <2>2, Zenon
<1>5. AnchorsKnown(y, u)  BY <1>4, Zenon DEF AnchorsKnown
<1> QED BY <1>3, <1>5, Zenon

\* The statements that do not write what was reported.
LEMMA StatementsThin ==
  ASSUME Rows(findings),
         \/ findings' = findings \/ LinksOnly
         \/ \E i, r : findings' = UpdateFindingLastSeen(findings, i, r)
         \/ \E i, st, m : findings' = UpdateFindingState(findings, i, st, m)
                          /\ st \notin ActiveStates
         \/ \E r, n : findings' = InsertReviewFinding(findings, r, n, "filtered")
  PROVE  Thins(findings, findings')
<1>1. ASSUME NEW i, NEW F, Updates(findings, findings', i, F),
             \/ "state" \in FindingFields \ F /\ "anchor_fp" \in FindingFields \ F
             \/ i \in DOMAIN findings => ~IsActive(findings'[i])
      PROVE  Thins(findings, findings')
  BY <1>1, Zenon DEF Updates, Thins, IsActive
<1>2. /\ "state" \in FindingFields \ {"disc"} /\ "anchor_fp" \in FindingFields \ {"disc"}
      /\ "state" \in FindingFields \ {"last_seen"}
      /\ "anchor_fp" \in FindingFields \ {"last_seen"}
  BY Zenon DEF FindingFields
<1>3. ASSUME NEW i, NEW d, findings' = UpdateFindingDiscussionID(findings, i, d)
      PROVE  Thins(findings, findings')
  <2>1. Updates(findings, findings', i, {"disc"})  BY <1>3, DiscussionUpdate, Zenon
  <2> QED BY <1>1, <1>2, <2>1, Zenon
<1>4. ASSUME NEW i, NEW r, findings' = UpdateFindingLastSeen(findings, i, r)
      PROVE  Thins(findings, findings')
  <2>1. Updates(findings, findings', i, {"last_seen"})  BY <1>4, SeenUpdate, Zenon
  <2> QED BY <1>1, <1>2, <2>1, Zenon
<1>5. ASSUME NEW i, NEW st, NEW m, findings' = UpdateFindingState(findings, i, st, m),
             st \notin ActiveStates
      PROVE  Thins(findings, findings')
  <2>1. /\ Updates(findings, findings', i, {"state", "matched"})
        /\ i \in DOMAIN findings => findings'[i].state = st
    BY <1>5, StateUpdate, SMT
  <2> QED BY <1>1, <1>5, <2>1, Zenon DEF IsActive
<1>6. ASSUME NEW r, NEW n, findings' = InsertReviewFinding(findings, r, n, "filtered")
      PROVE  Thins(findings, findings')
  <2> DEFINE row == FindingRow(r, n, "filtered")
  <2>1. Adds(findings, findings', row)  BY <1>6, FindingInserted, Zenon
  <2>2. ~IsActive(row)  BY Zenon DEF IsActive, FindingRow, ActiveStates
  <2> HIDE DEF row
  <2> QED BY <2>1, <2>2, Zenon DEF Adds, Thins
<1>7. CASE findings' = findings  BY <1>7, Zenon DEF Thins
<1> QED BY <1>3, <1>4, <1>5, <1>6, <1>7, Zenon DEF LinksOnly

\* The statements that do.
LEMMA StatementsGain ==
  ASSUME Rows(findings), NEW n,
         \/ \E i, r : findings' = UpdateFindingRelocation(findings, i, n, r)
         \/ \E r : findings' = InsertReviewFinding(findings, r, n, "new")
  PROVE  Gains(findings, findings', n) \/ Thins(findings, findings')
<1> DEFINE F == {"path", "kind", "anchor_fp", "semantic_fp", "last_seen"}
<1>1. ASSUME NEW i, NEW r, findings' = UpdateFindingRelocation(findings, i, n, r)
      PROVE  Gains(findings, findings', n) \/ Thins(findings, findings')
  <2>1. /\ Updates(findings, findings', i, F)
        /\ i \in DOMAIN findings => findings'[i].anchor_fp = n.anchor_fp
    BY <1>1, RelocationUpdate, SMT
  <2> HIDE DEF F
  <2>2. CASE i \in DOMAIN findings  BY <2>1, <2>2, Zenon DEF Updates, Gains
  <2>3. CASE i \notin DOMAIN findings  BY <2>1, <2>3, Zenon DEF Updates, Thins
  <2> QED BY <2>2, <2>3, Zenon
<1>2. ASSUME NEW r, findings' = InsertReviewFinding(findings, r, n, "new")
      PROVE  Gains(findings, findings', n)
  <2> DEFINE row == FindingRow(r, n, "new")
  <2>1. Adds(findings, findings', row)  BY <1>2, FindingInserted, Zenon
  <2>2. row.anchor_fp = n.anchor_fp  BY Zenon DEF FindingRow
  <2> HIDE DEF row
  <2> QED BY <2>1, <2>2, Zenon DEF Adds, Gains
<1> QED BY <1>1, <1>2, Zenon

\* A step of a worker that is busy keeps it the only one.
LEMMA StillOneBusy ==
  ASSUME OneBusy, NEW w \in Workers, Moves(w), work[w].pc # "idle"
  PROVE  OneBusy'
BY Zenon DEF OneBusy, Moves

\* A step of the worker w, which is the only one that is busy.
LEMMA DeduplicatedByStep ==
  ASSUME NEW w \in Workers, Moves(w), work[w].pc # "idle", OneBusy,
         AnchorsDiffer(findings'), AnchorsKnown(work'[w], findings')
  PROVE  Deduplicated'
<1>1. OneBusy'  BY StillOneBusy, Zenon
<1>2. ASSUME NEW v \in Workers PROVE AnchorsKnown(work'[v], findings')
  <2>1. CASE v # w
    <3>1. work'[v].pc = "idle"  BY <2>1, Zenon DEF Moves, OneBusy
    <3> QED BY <3>1, Zenon DEF AnchorsKnown, Copying
  <2> QED BY <2>1, Zenon
<1> QED BY <1>1, <1>2, Zenon DEF Deduplicated

\* Nobody is busy when a run begins that does not overlap with another.
LEMMA BeginDeduplicated ==
  ASSUME Deduplicated, Books, Comments, NEW w \in Workers, NEW r \in Runs, NEW report,
         Begin(w, r, report)
  PROVE  Deduplicated'
<1>1. SUFFICES ASSUME overlap' = {} PROVE Deduplicated'  BY Zenon DEF Deduplicated
<1> DEFINE busy == {work[v].run : v \in Workers} \ {0}
<1>2. busy = {} /\ overlap' = overlap
  <2>1. \/ busy = {} /\ overlap' = overlap
        \/ overlap' = overlap \cup busy \cup {r}
    BY Zenon DEF Begin
  <2> QED BY <1>1, <2>1, Zenon
<1>3. 0 \notin Runs  BY ReportsAssumption, Zenon
<1>4. ASSUME NEW v \in Workers PROVE work[v].pc = "idle"
  <2>1. work[v].pc = "idle" \/ work[v].run \in Runs  BY Zenon DEF Comments, RunsInTurn
  <2>2. work[v].run \notin busy  BY <1>2, Zenon
  <2>3. work[v].run = 0  BY <2>2, Zenon
  <2> QED BY <1>3, <2>1, <2>3, Zenon
<1>5. Moves(w) /\ findings' = findings /\ work'[w].pc = "list"
  BY BeginFrame, SMT
<1>6. OneBusy'  BY <1>4, <1>5, Zenon DEF OneBusy, Moves
<1>7. AnchorsDiffer(findings')  BY <1>1, <1>2, <1>5, Zenon DEF Deduplicated
<1>8. ASSUME NEW v \in Workers PROVE work'[v].pc \in {"idle", "list"}
  BY <1>4, <1>5, Zenon DEF Moves
<1>9. ASSUME NEW v \in Workers PROVE AnchorsKnown(work'[v], findings')
  BY <1>8, Zenon DEF AnchorsKnown, Copying
<1> QED BY <1>6, <1>7, <1>9, Zenon DEF Deduplicated

\* A statement of the deduplication.
LEMMA TurnDeduplicated ==
  ASSUME Deduplicated, Copies, overlap' = overlap, NEW w \in Workers,
         DedupTurn(w, work[w], work'[w])
  PROVE  Deduplicated'
<1> DEFINE x == work[w]  y == work'[w]
<1>1. SUFFICES ASSUME overlap = {} PROVE Deduplicated'  BY Zenon DEF Deduplicated
<1>2. OneBusy /\ AnchorsDiffer(findings) /\ AnchorsKnown(x, findings)
  BY <1>1, Zenon DEF Deduplicated
<1>3. Moves(w) /\ Carries(x, y) /\ x.pc \in Deduping
  BY Zenon DEF DedupTurn, Lists, Matches, Supersedes, Misses, Deduping, Copying
<1>4. x.pc # "idle"  BY <1>3, Zenon DEF Deduping, Copying
<1>5. SUFFICES AnchorsDiffer(findings') /\ AnchorsKnown(y, findings')
  BY <1>2, <1>3, <1>4, DeduplicatedByStep, Zenon
<1>6. Reads(x, findings) /\ Reviewed(x) /\ Rows(findings)
  BY Zenon DEF Copies, AnchoredRows
<1>7. y.report = x.report  BY <1>3, Zenon DEF Carries
<1>8. CASE Lists(w, x, y)
  <2>1. findings' = findings /\ y.existing = ListActiveFindingsByMR(findings)
    BY <1>8, Zenon DEF Lists
  <2> HIDE DEF y
  <2>2. \A i \in DOMAIN findings : IsActive(findings[i]) =>
          i \in DOMAIN y.existing /\ y.existing[i] = findings[i]
    BY <2>1, ListedRows, SMT DEF IsActive
  <2>3. AnchorsKnown(y, findings)  BY <2>2, Zenon DEF AnchorsKnown
  <2> QED BY <1>2, <2>1, <2>3, Zenon
<1>9. CASE /\ x.pc \in Copying /\ y.existing = x.existing /\ y.todo \subseteq x.todo
           /\ Thins(findings, findings')
  <2> HIDE DEF x, y
  <2> QED BY <1>2, <1>7, <1>9, ThinnedDiffer, ThinnedKnown, Zenon
<1>10. CASE Supersedes(w, x, y) \/ Misses(w, x, y)
  <2>1. {"superseded", "fixed", "stale"} \cap ActiveStates = {}
    BY Zenon DEF ActiveStates
  <2>2. Thins(findings, findings')
    BY <1>6, <1>10, <2>1, StatementsThin, Zenon DEF Supersedes, Misses
  <2>3. x.pc \in Copying /\ y.existing = x.existing /\ y.todo \subseteq x.todo
    BY <1>10, Zenon DEF Supersedes, Misses, Copying
  <2> QED BY <1>9, <2>2, <2>3, Zenon
<1>11. CASE Matches(w, x, y)
  <2> DEFINE k == Min(x.todo)  n == normalized(x.report, k)
  <2>1. /\ x.pc = "match" /\ x.todo # {} /\ y.existing = x.existing /\ y.todo = x.todo \ {k}
    BY <1>11, Zenon DEF Matches
  <2>2. PICK r \in Runs : x.report \in Reports[r]
    BY <1>6, <2>1, Zenon DEF Reviewed, Deduping, Copying
  <2>3. /\ \A i \in DOMAIN x.existing : Anchored(x.existing[i])
        /\ x.todo \subseteq persisted(x.report) /\ x.pc \in Copying
    BY <1>6, <2>1, Zenon DEF Reads, Copying
  <2>4. k \in x.todo
    <3>1. x.todo \subseteq Nat  BY <2>2, <2>3, PlacesAreNumbers, Zenon
    <3> QED BY <2>1, <3>1, HasLeast, Zenon
  <2>5. \/ Thins(findings, findings')
        \/ NoAnchor(x.existing, n) /\ Gains(findings, findings', n)
    <3>1. \/ findings' = findings
          \/ \E i, q : findings' = UpdateFindingLastSeen(findings, i, q)
          \/ \E q, m : findings' = InsertReviewFinding(findings, q, m, "filtered")
          \/ /\ NoAnchor(x.existing, n)
             /\ \/ \E i, q : findings' = UpdateFindingRelocation(findings, i, n, q)
                \/ \E q : findings' = InsertReviewFinding(findings, q, n, "new")
      BY <1>11, Zenon DEF Matches, Inserts
    <3> HIDE DEF n, x
    <3> QED BY <1>6, <3>1, StatementsThin, StatementsGain, Zenon
  <2>6. CASE Thins(findings, findings')  BY <1>9, <2>1, <2>3, <2>6, Zenon
  <2>7. CASE NoAnchor(x.existing, n) /\ Gains(findings, findings', n)
    <3>1. Anchored(n) /\ n = normalized(x.report, k)  BY NormalizedIsAnchored, Zenon
    <3> HIDE DEF x, y, n, k
    <3> QED BY <1>2, <1>7, <2>1, <2>2, <2>3, <2>4, <2>7, <3>1, GainedFresh, SMT
  <2> QED BY <2>5, <2>6, <2>7, Zenon
<1> QED BY <1>8, <1>10, <1>11, Zenon DEF DedupTurn

\* Every step keeps the anchors of active findings apart while runs do not overlap.
LEMMA DeduplicatedNext ==
  ASSUME Deduplicated, Copies, Books, Comments, [PublicationNext]_vars
  PROVE  Deduplicated'
<1>1. StepKinds  BY StepsAreOfAKind, CopiedIds, Zenon
<1>2. Rows(findings)  BY Zenon DEF Copies, AnchoredRows
<1>3. ASSUME NEW w \in Workers, Aside(w), overlap' = overlap PROVE Deduplicated'
  <2>1. SUFFICES ASSUME overlap = {} PROVE Deduplicated'  BY <1>3, Zenon DEF Deduplicated
  <2>2. OneBusy /\ AnchorsDiffer(findings)  BY <2>1, Zenon DEF Deduplicated
  <2>3. /\ Moves(w) /\ LinksOnly /\ work[w].pc # "idle" /\ work'[w].pc \notin Deduping
    BY <1>3, Zenon DEF Aside
  <2>4. Thins(findings, findings')  BY <1>2, <2>3, StatementsThin, Zenon
  <2>5. AnchorsDiffer(findings')  BY <2>2, <2>4, ThinnedDiffer, Zenon
  <2>6. AnchorsKnown(work'[w], findings')  BY <2>3, Zenon DEF AnchorsKnown, Deduping
  <2> QED BY <2>2, <2>3, <2>5, <2>6, DeduplicatedByStep, Zenon
<1>4. ASSUME CommandTurn PROVE Deduplicated'
  <2>1. SUFFICES ASSUME overlap = {} PROVE Deduplicated'
    BY <1>4, Zenon DEF Deduplicated, CommandTurn
  <2>2. /\ OneBusy /\ AnchorsDiffer(findings)
        /\ \A w \in Workers : AnchorsKnown(work[w], findings)
    BY <2>1, Zenon DEF Deduplicated
  <2>3. "ignored" \notin ActiveStates  BY Zenon DEF ActiveStates
  <2>4. Thins(findings, findings')
    BY <1>2, <1>4, <2>3, StatementsThin, Zenon DEF CommandTurn
  <2>5. AnchorsDiffer(findings')  BY <2>2, <2>4, ThinnedDiffer, Zenon
  <2>6. ASSUME NEW w \in Workers PROVE AnchorsKnown(work[w], findings')
    BY <2>2, <2>4, ThinnedKnown, Zenon
  <2>7. work' = work  BY <1>4, Zenon DEF CommandTurn
  <2>8. OneBusy'  BY <2>2, <2>7, Zenon DEF OneBusy
  <2> QED BY <2>5, <2>6, <2>7, <2>8, Zenon DEF Deduplicated
<1> QED BY <1>1, <1>3, <1>4, BeginDeduplicated, TurnDeduplicated, Zenon DEF StepKinds

\* At the start no worker is busy and there is no finding.
LEMMA DeduplicatedInit ==
  ASSUME PublicationInit
  PROVE  Deduplicated
<1>1. findings = <<>>  BY Zenon DEF PublicationInit
<1>2. DOMAIN findings = {}  BY <1>1, SMT
<1>3. \A w \in Workers : work[w].pc = "idle"  BY Zenon DEF PublicationInit, Idle
<1> QED BY <1>2, <1>3, Zenon DEF Deduplicated, OneBusy, AnchorsDiffer, AnchorsKnown

\* Without overlapping runs no two active findings of a merge request have the
\* same anchor: the first pass of matchExistingFinding, and that the findings
\* of one report are told apart before, see to it.
THEOREM NoDuplicates == PublicationSpec => []NoDuplicateFinding
<1>1. PublicationInit => Deduplicated /\ Comments  BY DeduplicatedInit, CommentsInit
<1>2. /\ Comments /\ Books /\ [PublicationNext]_vars => Comments'
      /\ Deduplicated /\ Copies /\ Books /\ Comments /\ [PublicationNext]_vars => Deduplicated'
  BY CommentsNext, DeduplicatedNext
<1>3. Deduplicated => NoDuplicateFinding
  <2>1. SUFFICES ASSUME Deduplicated, overlap = {}, NEW i \in DOMAIN findings,
                        NEW j \in DOMAIN findings,
                        i # j, findings[i].anchor_fp = findings[j].anchor_fp
                 PROVE  ~({findings[i].state, findings[j].state} \subseteq ActiveStates)
    BY Zenon DEF NoDuplicateFinding
  <2>2. ~IsActive(findings[i]) \/ ~IsActive(findings[j])
    BY <2>1, Zenon DEF Deduplicated, AnchorsDiffer
  <2> QED BY <2>2, Zenon DEF IsActive
<1> QED BY <1>1, <1>2, <1>3, CopiesAreKept, PTL DEF PublicationSpec
=============================================================================
