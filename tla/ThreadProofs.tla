---------------------------- MODULE ThreadProofs ----------------------------
(***************************************************************************)
(* Threads and findings.  A thread that is marked as replaced follows the  *)
(* finding that replaced its own, while the runs of the merge request do   *)
(* not overlap; and a gate that passes has found every thread resolved     *)
(* that was open when the run read its outcome, for a run that one worker  *)
(* had to itself.                                                          *)
(***************************************************************************)
EXTENDS FindingProofs

-----------------------------------------------------------------------------
(* Threads follow findings                                                 *)

\* The row f is settled as before, or ignored.
SettledAs(t, u, f) ==
  u[f].state = "ignored" \/ (u[f].state = t[f].state /\ u[f].matched = t[f].matched)

\* The statements that leave it so.
LEMMA RowSettled ==
  ASSUME Rows(findings), NEW i \in DOMAIN findings,
         \/ findings' = findings \/ LinksOnly
         \/ \E j, r : findings' = UpdateFindingLastSeen(findings, j, r)
         \/ \E j, n, r : findings' = UpdateFindingRelocation(findings, j, n, r)
         \/ \E r, n, st : findings' = InsertReviewFinding(findings, r, n, st)
         \/ \E j, st, m : /\ findings' = UpdateFindingState(findings, j, st, m)
                          /\ j # i \/ st = "ignored"
  PROVE  SettledAs(findings, findings', i)
<1> DEFINE F == {"path", "kind", "anchor_fp", "semantic_fp", "last_seen"}
           Keeps(G) == "state" \in FindingFields \ G /\ "matched" \in FindingFields \ G
<1>1. Keeps({"disc"}) /\ Keeps({"last_seen"}) /\ Keeps(F)  BY Zenon DEF FindingFields
<1>2. ASSUME NEW j, NEW G, Updates(findings, findings', j, G), j # i \/ Keeps(G)
      PROVE  SettledAs(findings, findings', i)
  BY <1>2, Zenon DEF Updates, SettledAs
<1> HIDE DEF Keeps
<1>3. ASSUME NEW j, NEW d, findings' = UpdateFindingDiscussionID(findings, j, d)
      PROVE  SettledAs(findings, findings', i)
  <2>1. Updates(findings, findings', j, {"disc"})  BY <1>3, DiscussionUpdate, Zenon
  <2> QED BY <1>1, <1>2, <2>1, Zenon
<1>4. ASSUME NEW j, NEW r, findings' = UpdateFindingLastSeen(findings, j, r)
      PROVE  SettledAs(findings, findings', i)
  <2>1. Updates(findings, findings', j, {"last_seen"})  BY <1>4, SeenUpdate, Zenon
  <2> QED BY <1>1, <1>2, <2>1, Zenon
<1>5. ASSUME NEW j, NEW n, NEW r, findings' = UpdateFindingRelocation(findings, j, n, r)
      PROVE  SettledAs(findings, findings', i)
  <2>1. Updates(findings, findings', j, F)  BY <1>5, RelocationUpdate, SMT
  <2> QED BY <1>1, <1>2, <2>1, Zenon
<1>6. ASSUME NEW r, NEW n, NEW st, findings' = InsertReviewFinding(findings, r, n, st)
      PROVE  SettledAs(findings, findings', i)
  <2>1. Adds(findings, findings', FindingRow(r, n, st))  BY <1>6, FindingInserted, Zenon
  <2> QED BY <2>1, Zenon DEF Adds, SettledAs
<1>7. ASSUME NEW j, NEW st, NEW m, findings' = UpdateFindingState(findings, j, st, m),
             j # i \/ st = "ignored"
      PROVE  SettledAs(findings, findings', i)
  <2>1. /\ Updates(findings, findings', j, {"state", "matched"})
        /\ j \in DOMAIN findings => findings'[j].state = st
    BY <1>7, StateUpdate, SMT
  <2>2. CASE j # i  BY <1>2, <2>1, <2>2, Zenon
  <2>3. CASE j = i /\ st = "ignored"  BY <2>1, <2>3, Zenon DEF SettledAs
  <2> QED BY <1>7, <2>2, <2>3, Zenon
<1>8. CASE findings' = findings  BY <1>8, Zenon DEF SettledAs
<1> QED BY <1>3, <1>4, <1>5, <1>6, <1>7, <1>8, Zenon DEF LinksOnly

\* Ids refer to rows that exist.
Scopes ==
  /\ \A d \in DOMAIN threads : threads[d].finding \in DOMAIN findings
  /\ \A w \in Workers :
       /\ DOMAIN work[w].posts \subseteq {0} \cup DOMAIN findings
       /\ work[w].pc \in Resolving => DOMAIN work[w].settle # {}

\* A replaced thread is that of a replaced finding, which no worker is going
\* to settle again.
LinkIsTrue(d) ==
  threads[d].superseded_by # 0 =>
    /\ Follows(findings[threads[d].finding], threads[d].superseded_by, threads)
    /\ \A w \in Workers : work[w].pc \in Copying =>
         threads[d].finding \notin DOMAIN work[w].existing

LinksAreTrue ==
  overlap = {} =>
    /\ \A d \in DOMAIN threads : LinkIsTrue(d)
    /\ \A w \in Workers : work[w].pc \in Settling =>
         SettlesTrue(work[w].settle, findings, threads)

Followed == Scopes /\ LinksAreTrue

\* Threads stay with their findings.
ThreadIdsStay ==
  /\ DOMAIN threads \subseteq DOMAIN threads'
  /\ \A d \in DOMAIN threads : threads'[d].finding = threads[d].finding

\* A step of one worker that forgets neither findings nor threads keeps the scopes.
LEMMA ScopesByStep ==
  ASSUME Scopes, NEW w \in Workers, Moves(w), DOMAIN findings \subseteq DOMAIN findings',
         ThreadIdsStay, NewThreads(threads, threads', DOMAIN findings),
         DOMAIN work'[w].posts \subseteq {0} \cup DOMAIN findings,
         work'[w].pc \in Resolving => DOMAIN work'[w].settle # {}
  PROVE  Scopes'
<1>1. ASSUME NEW d \in DOMAIN threads' PROVE threads'[d].finding \in DOMAIN findings'
  <2>1. CASE d \in DOMAIN threads  BY <2>1, Zenon DEF Scopes, ThreadIdsStay
  <2>2. CASE d \notin DOMAIN threads  BY <2>2, Zenon DEF NewThreads
  <2> QED BY <2>1, <2>2, Zenon
<1>2. ASSUME NEW v \in Workers
      PROVE  /\ DOMAIN work'[v].posts \subseteq {0} \cup DOMAIN findings'
             /\ work'[v].pc \in Resolving => DOMAIN work'[v].settle # {}
  <2>1. CASE v # w
    <3>1. work'[v] = work[v]  BY <2>1, Zenon DEF Moves
    <3> QED BY <3>1, Zenon DEF Scopes
  <2> QED BY <2>1, Zenon
<1> QED BY <1>1, <1>2, Zenon DEF Scopes

\* What holds of a settled row goes on to hold.
LEMMA FollowsOn ==
  ASSUME ThreadIdsStay, NEW i, SettledAs(findings, findings', i), NEW d,
         Follows(findings[i], d, threads)
  PROVE  Follows(findings'[i], d, threads')
BY Zenon DEF ThreadIdsStay, SettledAs, Follows

\* Findings that were to be settled still are, if their rows and threads stay.
LEMMA SettlesOn ==
  ASSUME ThreadIdsStay, DOMAIN findings \subseteq DOMAIN findings',
         \A i \in DOMAIN findings : SettledAs(findings, findings', i),
         NEW s, SettlesTrue(s, findings, threads)
  PROVE  SettlesTrue(s, findings', threads')
<1>1. SUFFICES ASSUME NEW f \in DOMAIN s
               PROVE  /\ f \in DOMAIN findings'
                      /\ s[f] # 0 => Follows(findings'[f], s[f], threads')
  BY Zenon DEF SettlesTrue
<1>2. f \in DOMAIN findings /\ (s[f] # 0 => Follows(findings[f], s[f], threads))
  BY <1>1, Zenon DEF SettlesTrue
<1> QED BY <1>2, FollowsOn, Zenon

\* A step of the only worker that is busy.
LEMMA LinksByStep ==
  ASSUME Scopes, LinksAreTrue, overlap = {}, OneBusy, NEW w \in Workers, Moves(w),
         work[w].pc # "idle", ThreadIdsStay,
         \A i \in DOMAIN findings : \/ SettledAs(findings, findings', i)
                                    \/ /\ work[w].pc \in Copying
                                       /\ i \in DOMAIN work[w].existing,
         \A d \in DOMAIN threads' : threads'[d].superseded_by # 0 =>
           \/ /\ d \in DOMAIN threads
              /\ threads'[d].superseded_by = threads[d].superseded_by
           \/ /\ threads'[d].finding \in DOMAIN findings
              /\ Follows(findings[threads'[d].finding], threads'[d].superseded_by, threads)
              /\ work[w].pc \notin Copying /\ work'[w].pc \notin Copying,
         work'[w].pc \in Copying =>
           \/ work[w].pc \in Copying /\ work'[w].existing = work[w].existing
           \/ work'[w].existing = ListActiveFindingsByMR(findings),
         work'[w].pc \in Settling => SettlesTrue(work'[w].settle, findings', threads')
  PROVE  LinksAreTrue'
<1>1. ASSUME NEW v \in Workers, v # w PROVE work'[v].pc = "idle"
  BY <1>1, Zenon DEF Moves, OneBusy
<1>2. "idle" \notin Copying \cup Settling  BY Zenon DEF Copying, Settling
<1>3. ASSUME NEW d \in DOMAIN threads', threads'[d].superseded_by # 0
      PROVE  LinkIsTrue(d)'
  <2> DEFINE f == threads'[d].finding  s == threads'[d].superseded_by
             x == work[w]  y == work'[w]
  <2>1. /\ f \in DOMAIN findings /\ Follows(findings[f], s, threads)
        /\ x.pc \in Copying => f \notin DOMAIN x.existing
        /\ y.pc \in Copying => f \notin DOMAIN x.existing \/ x.pc \notin Copying
    <3>1. CASE d \in DOMAIN threads /\ s = threads[d].superseded_by
      <4>1. f = threads[d].finding /\ f \in DOMAIN findings /\ LinkIsTrue(d)
        BY <3>1, Zenon DEF ThreadIdsStay, Scopes, LinksAreTrue
      <4> QED BY <1>3, <3>1, <4>1, Zenon DEF LinkIsTrue
    <3> QED BY <1>3, <3>1, Zenon
  <2>2. Follows(findings'[f], s, threads')
    <3>1. SettledAs(findings, findings', f)  BY <2>1, Zenon
    <3> HIDE DEF f, s
    <3> QED BY <2>1, <3>1, FollowsOn, Zenon
  <2>3. y.pc \in Copying => f \notin DOMAIN y.existing
    <3>1. CASE x.pc \in Copying /\ y.existing = x.existing  BY <2>1, <3>1, Zenon
    <3>2. CASE y.existing = ListActiveFindingsByMR(findings)
      <4>1. findings[f].state \notin ActiveStates
        BY <2>1, Zenon DEF Follows, ActiveStates
      <4>2. DOMAIN ListActiveFindingsByMR(findings)
              = {j \in DOMAIN findings : findings[j].state \in ActiveStates}
        BY Zenon DEF ListActiveFindingsByMR
      <4> HIDE DEF y, f
      <4> QED BY <3>2, <4>1, <4>2, Zenon
    <3> QED BY <3>1, <3>2, Zenon
  <2>4. ASSUME NEW v \in Workers, work'[v].pc \in Copying
        PROVE  f \notin DOMAIN work'[v].existing
    BY <1>1, <1>2, <2>3, <2>4, Zenon
  <2> QED BY <2>2, <2>4, Zenon DEF LinkIsTrue
<1>4. ASSUME NEW d \in DOMAIN threads' PROVE LinkIsTrue(d)'
  <2>1. CASE threads'[d].superseded_by = 0  BY <2>1, Zenon DEF LinkIsTrue
  <2> QED BY <1>3, <2>1, Zenon
<1>5. ASSUME NEW v \in Workers, work'[v].pc \in Settling
      PROVE  SettlesTrue(work'[v].settle, findings', threads')
  BY <1>1, <1>2, <1>5, Zenon
<1> QED BY <1>4, <1>5, Zenon DEF LinksAreTrue

\* Statements that leave the threads alone.
LEMMA ThreadsAlone ==
  ASSUME threads' = threads
  PROVE  /\ ThreadIdsStay /\ KeepThreads(threads, threads')
         /\ \A F : NewThreads(threads, threads', F)
BY Zenon DEF ThreadIdsStay, KeepThreads, NewThreads

\* Where the others are: OneBusy.
LEMMA AloneAtWork ==
  ASSUME Deduplicated, overlap = {}
  PROVE  OneBusy
BY Zenon DEF Deduplicated

\* A run that begins settles nothing yet.
LEMMA BeginFollowed ==
  ASSUME Followed, Books, Comments, Deduplicated, NEW w \in Workers, NEW r \in Runs,
         NEW report, Begin(w, r, report)
  PROVE  Followed'
<1>1. /\ Moves(w) /\ findings' = findings /\ threads' = threads
      /\ work'[w].pc = "list" /\ work'[w].posts = NoCopy
  BY BeginFrame, SMT
<1>2. DOMAIN NoCopy = {} /\ "list" \notin Resolving \cup Settling \cup Copying
  BY Zenon DEF NoCopy, Resolving, Settling, Copying
<1>3. ThreadIdsStay /\ NewThreads(threads, threads', DOMAIN findings)
  BY <1>1, ThreadsAlone, Zenon
<1>4. Scopes'  BY <1>1, <1>2, <1>3, ScopesByStep, Zenon DEF Followed
<1>5. LinksAreTrue'
  <2>1. overlap' = {} => overlap = {}
    BY Zenon DEF Begin
  <2>2. SUFFICES ASSUME overlap = {} PROVE LinksAreTrue'
    BY <2>1, Zenon DEF LinksAreTrue
  <2>3. ASSUME NEW v \in Workers, work'[v].pc \in Copying \cup Settling
        PROVE  work'[v] = work[v]
    BY <1>1, <1>2, <2>3, Zenon DEF Moves
  <2>4. /\ \A d \in DOMAIN threads : LinkIsTrue(d)
        /\ \A v \in Workers : work[v].pc \in Settling =>
             SettlesTrue(work[v].settle, findings, threads)
    BY <2>2, Zenon DEF Followed, LinksAreTrue
  <2>5. ASSUME NEW d \in DOMAIN threads' PROVE LinkIsTrue(d)'
    BY <1>1, <2>3, <2>4, Zenon DEF LinkIsTrue
  <2> QED BY <1>1, <2>3, <2>4, <2>5, Zenon DEF LinksAreTrue
<1> QED BY <1>4, <1>5, Zenon DEF Followed

\* persistFindings changes only findings whose threads are not replaced.
LEMMA PersistFollowed ==
  ASSUME Followed, Copies, Books, Deduplicated, NEW w \in Workers, PersistStep(w), Copies'
  PROVE  Followed'
<1> DEFINE x == work[w]  y == work'[w]
<1>1. threads' = threads /\ overlap' = overlap
  BY Zenon DEF PersistStep, DedupStep, ListExisting, MatchFinding, SupersedeFinding,
               MissingFinding, LoadOutcome, PersistStatus, storeVars
<1>2. DedupTurn(w, x, y) \/ Concludes(w, x, y)
  BY CopiedIds, ListFrame, MatchFrame, SupersedeFrame, MissingFrame, ConcludeFrame, Zenon
     DEF PersistStep, DedupStep, DedupTurn, MatchFinding, MissingFinding, At
<1>3. Rows(findings) /\ Reads(x, findings)  BY Zenon DEF Copies, AnchoredRows
<1>4. /\ Moves(w) /\ Carries(x, y)
      /\ x.pc \in Deduping \cup {"status"} /\ y.pc \in Copying \cup {"status", "writeback"}
      /\ y.pc \in Copying => \/ x.pc \in Copying /\ y.existing = x.existing
                             \/ y.existing = ListActiveFindingsByMR(findings)
  BY <1>2, Zenon DEF DedupTurn, Lists, Matches, Inserts, Supersedes, Misses, Concludes,
                     Deduping, Copying
<1>5. /\ x.pc # "idle" /\ y.pc \notin Resolving \cup Settling
  BY <1>4, Zenon DEF Deduping, Copying, Resolving, Settling
<1>6. ASSUME NEW i \in DOMAIN findings
      PROVE  SettledAs(findings, findings', i) \/ (x.pc \in Copying /\ i \in DOMAIN x.existing)
  <2>1. CASE Lists(w, x, y) \/ Concludes(w, x, y)
    <3>1. findings' = findings  BY <2>1, Zenon DEF Lists, Concludes
    <3> QED BY <1>3, <3>1, RowSettled, Zenon
  <2>2. CASE Matches(w, x, y)
    <3>1. \/ findings' = findings
          \/ \E j, r : findings' = UpdateFindingLastSeen(findings, j, r)
          \/ \E j, n, r : findings' = UpdateFindingRelocation(findings, j, n, r)
          \/ \E r, n, st : findings' = InsertReviewFinding(findings, r, n, st)
      BY <2>2, Zenon DEF Matches, Inserts
    <3> QED BY <1>3, <3>1, RowSettled, Zenon
  <2>3. CASE Supersedes(w, x, y) \/ Misses(w, x, y)
    <3>1. /\ x.pc \in Copying
          /\ \/ findings' = findings
             \/ \E j \in DOMAIN x.existing : \E st, m :
                  findings' = UpdateFindingState(findings, j, st, m)
      BY <1>3, <2>3, Zenon DEF Supersedes, Misses, Reads, Copying
    <3>2. CASE findings' = findings  BY <1>3, <3>2, RowSettled, Zenon
    <3>3. ASSUME NEW j \in DOMAIN x.existing, NEW st, NEW m,
                 findings' = UpdateFindingState(findings, j, st, m)
          PROVE  SettledAs(findings, findings', i) \/ i \in DOMAIN x.existing
      <4>1. CASE j = i  BY <4>1, Zenon
      <4>2. CASE j # i
        <5>1. SettledAs(findings, findings', i)  BY <1>3, <3>3, <4>2, RowSettled, Zenon
        <5> QED BY <5>1, Zenon
      <4> QED BY <4>1, <4>2, Zenon
    <3> QED BY <3>1, <3>2, <3>3, Zenon
  <2> QED BY <1>2, <2>1, <2>2, <2>3, Zenon DEF DedupTurn
<1>7. DOMAIN findings \subseteq DOMAIN findings'
  <2>1. \/ LinksOnly \/ \E i, st, m : findings' = UpdateFindingState(findings, i, st, m)
        \/ \E i, r : findings' = UpdateFindingLastSeen(findings, i, r)
        \/ \E i, r, report, k :
             findings' = UpdateFindingRelocation(findings, i, normalized(report, k), r)
        \/ \E r, report, k, st :
             findings' = InsertReviewFinding(findings, r, normalized(report, k), st)
    BY <1>2, Zenon DEF DedupTurn, Lists, Matches, Inserts, Supersedes, Misses, Concludes,
                       LinksOnly
  <2>2. AnchoredRows(findings)  BY Zenon DEF Copies
  <2> QED BY <2>1, <2>2, WritesKeepRows, Zenon
<1>8. ThreadIdsStay /\ NewThreads(threads, threads', DOMAIN findings)
  BY <1>1, ThreadsAlone, Zenon
<1>9. Scopes'
  <2>1. DOMAIN y.posts \subseteq {0} \cup DOMAIN findings
    BY <1>4, Zenon DEF Carries, Followed, Scopes
  <2> QED BY <1>4, <1>5, <1>7, <1>8, <2>1, ScopesByStep, Zenon DEF Followed
<1>10. LinksAreTrue'
  <2>1. SUFFICES ASSUME overlap = {} PROVE LinksAreTrue'
    BY <1>1, Zenon DEF LinksAreTrue
  <2>2. OneBusy /\ Scopes /\ LinksAreTrue  BY <2>1, AloneAtWork, Zenon DEF Followed
  <2>3. \A d \in DOMAIN threads' : d \in DOMAIN threads
          /\ threads'[d].superseded_by = threads[d].superseded_by
    BY <1>1, Zenon
  <2> QED BY <1>4, <1>5, <1>6, <1>8, <2>1, <2>2, <2>3, LinksByStep, Zenon
<1> QED BY <1>9, <1>10, Zenon DEF Followed

\* A comment writer marks a thread as replaced only by that of the finding which
\* replaced its own.
LEMMA WriterFollowed ==
  ASSUME Followed, Copies, Books, Deduplicated, NEW w \in Workers, WritebackStep(w)
  PROVE  Followed'
<1> DEFINE x == work[w]  y == work'[w]
<1>1. WriterStep(w) /\ overlap' = overlap  BY Zenon DEF WritebackStep, publicationVars
<1>2. Scopes /\ LinksAreTrue  BY Zenon DEF Followed
<1>3. Writes(w, x, y) /\ WriterThreads(x)  BY <1>1, WriterFrame, WriterThreadsFrame, Zenon
<1>4. Proceeds(x, y)  BY <1>1, <1>2, ProceedsFrame, Zenon DEF Scopes
<1>5. /\ Moves(w) /\ LinksOnly /\ x.pc \in WriterLabels
      /\ y.pc \in WriterLabels \cup {"gate", "idle"}
  <2>1. Idle.pc = "idle"  BY Zenon DEF Idle
  <2> QED BY <1>3, <2>1, Zenon DEF Writes, Continues
<1>6. x.pc # "idle" /\ x.pc \notin Copying /\ y.pc \notin Copying
  BY <1>5, Zenon DEF WriterLabels, Settling, Copying
<1>7. Rows(findings) /\ AnchoredRows(findings)  BY Zenon DEF Copies, AnchoredRows
<1>8. DOMAIN findings \subseteq DOMAIN findings'  BY <1>5, <1>7, WritesKeepRows, Zenon
<1>9. \A i \in DOMAIN findings : SettledAs(findings, findings', i)
  BY <1>5, <1>7, RowSettled, Zenon
<1>10. ThreadIdsStay
  BY <1>3, Zenon DEF WriterThreads, KeepThreads, LinkThread, ThreadIdsStay
<1>11. NewThreads(threads, threads', DOMAIN findings)
  <2>1. DOMAIN x.posts \ {0} \subseteq DOMAIN findings  BY <1>2, Zenon DEF Scopes
  <2> QED BY <1>3, <2>1, Zenon DEF WriterThreads, LinkThread, NewThreads
<1>12. Scopes'
  <2>1. DOMAIN y.posts \subseteq {0} \cup DOMAIN findings
    <3>1. DOMAIN x.posts \subseteq {0} \cup DOMAIN findings  BY <1>2, Zenon DEF Scopes
    <3>2. DOMAIN y.posts \subseteq DOMAIN x.posts \cup {0} \cup DOMAIN findings
      BY <1>4, Zenon DEF Proceeds
    <3> QED BY <3>1, <3>2, Zenon
  <2>2. y.pc \in Resolving => DOMAIN y.settle # {}  BY <1>4, Zenon DEF Proceeds
  <2> QED BY <1>2, <1>5, <1>8, <1>10, <1>11, <2>1, <2>2, ScopesByStep, Zenon
<1>13. LinksAreTrue'
  <2>1. SUFFICES ASSUME overlap = {} PROVE LinksAreTrue'
    BY <1>1, Zenon DEF LinksAreTrue
  <2>2. OneBusy  BY <2>1, AloneAtWork, Zenon
  <2>3. x.pc \in Settling => SettlesTrue(x.settle, findings, threads)
    BY <1>2, <2>1, Zenon DEF LinksAreTrue
  <2>4. y.pc \in Settling => SettlesTrue(y.settle, findings', threads')
    <3>1. y.pc \in Settling => SettlesTrue(y.settle, findings, threads)
      BY <1>4, <2>3, Zenon DEF Proceeds, SettlesTrue
    <3> QED BY <1>8, <1>9, <1>10, <3>1, SettlesOn, Zenon
  <2>5. ASSUME NEW d \in DOMAIN threads', threads'[d].superseded_by # 0
        PROVE  \/ /\ d \in DOMAIN threads
                  /\ threads'[d].superseded_by = threads[d].superseded_by
               \/ /\ threads'[d].finding \in DOMAIN findings
                  /\ Follows(findings[threads'[d].finding], threads'[d].superseded_by, threads)
    <3>1. CASE KeepThreads(threads, threads')
               /\ NewThreads(threads, threads', DOMAIN x.posts \ {0})
      BY <2>5, <3>1, Zenon DEF KeepThreads, NewThreads
    <3>2. CASE /\ x.pc = "supersedes"
               /\ LinkThread(threads, threads', x.thread, x.settle[Min(DOMAIN x.settle)])
      <4> DEFINE f == Min(DOMAIN x.settle)
      <4>1. x.pc \in Resolving /\ x.pc \in Settling  BY <3>2, Zenon DEF Resolving, Settling
      <4>2. x.thread \in DOMAIN threads /\ threads[x.thread].finding = f
        BY <4>1, SettlerFacts, Zenon
      <4>3. SettlesTrue(x.settle, findings, threads) /\ DOMAIN x.settle # {}
        BY <1>2, <2>3, <4>1, Zenon DEF Scopes
      <4>4. DOMAIN x.settle \subseteq DOMAIN findings  BY <4>3, Zenon DEF SettlesTrue
      <4>5. DOMAIN findings \subseteq Nat
        <5>1. IsTable(findings)  BY <1>7, Zenon DEF Rows
        <5> QED BY <5>1, SMT DEF IsTable
      <4>6. f \in DOMAIN x.settle  BY <4>3, <4>4, <4>5, HasLeast, Zenon
      <4>7. CASE d = x.thread
        <5>1. threads'[d].superseded_by = x.settle[f] /\ threads'[d].finding = f
          BY <3>2, <4>2, <4>7, Zenon DEF LinkThread
        <5>2. f \in DOMAIN findings /\ Follows(findings[f], x.settle[f], threads)
          BY <2>5, <4>3, <4>6, <5>1, Zenon DEF SettlesTrue
        <5> QED BY <5>1, <5>2, Zenon
      <4>8. CASE d # x.thread  BY <2>5, <3>2, <4>8, Zenon DEF LinkThread
      <4> QED BY <4>7, <4>8, Zenon
    <3> QED BY <1>3, <3>1, <3>2, Zenon DEF WriterThreads
  <2> QED BY <1>2, <1>5, <1>6, <1>9, <1>10, <2>1, <2>2, <2>4, <2>5, LinksByStep, Zenon
<1> QED BY <1>12, <1>13, Zenon DEF Followed

\* Leaving a run, at the gate or before, changes no thread.
LEMMA LeavingFollowed ==
  ASSUME Followed, Copies, Books, Deduplicated, NEW w \in Workers,
         publishGateResult(w) \/ Stop(w)
  PROVE  Followed'
<1>1. /\ work' = [work EXCEPT ![w] = Idle] /\ findings' = findings /\ threads' = threads
      /\ overlap' = overlap /\ work[w].pc # "idle"
  BY Zenon DEF publishGateResult, Stop, Abandon, At, storeVars, publicationVars
<1>2. Moves(w) /\ work'[w] = Idle  BY <1>1, LeaveFrame, Zenon
<1>3. Idle.pc = "idle" /\ Idle.posts = NoCopy  BY Zenon DEF Idle
<1>4. DOMAIN NoCopy = {} /\ "idle" \notin Resolving \cup Settling \cup Copying
  BY Zenon DEF NoCopy, Resolving, Settling, Copying
<1>5. ThreadIdsStay /\ NewThreads(threads, threads', DOMAIN findings)
  BY <1>1, ThreadsAlone, Zenon
<1>6. Scopes'
  <2>1. /\ DOMAIN work'[w].posts \subseteq {0} \cup DOMAIN findings
        /\ work'[w].pc \notin Resolving
    BY <1>2, <1>3, <1>4, Zenon
  <2> QED BY <1>1, <1>2, <1>5, <2>1, ScopesByStep, Zenon DEF Followed
<1>7. LinksAreTrue'
  <2>1. SUFFICES ASSUME overlap = {} PROVE LinksAreTrue'
    BY <1>1, Zenon DEF LinksAreTrue
  <2>2. OneBusy /\ Scopes /\ LinksAreTrue  BY <2>1, AloneAtWork, Zenon DEF Followed
  <2>3. \A i \in DOMAIN findings : SettledAs(findings, findings', i)
    BY <1>1, Zenon DEF SettledAs
  <2>4. \A d \in DOMAIN threads' : d \in DOMAIN threads
          /\ threads'[d].superseded_by = threads[d].superseded_by
    BY <1>1, Zenon
  <2>5. work'[w].pc \notin Copying /\ work'[w].pc \notin Settling  BY <1>2, <1>3, <1>4, Zenon
  <2> QED BY <1>1, <1>2, <1>5, <2>1, <2>2, <2>3, <2>4, <2>5, LinksByStep, Zenon
<1> QED BY <1>6, <1>7, Zenon DEF Followed

\* Commands resolve threads and ignore findings, but replace none.
LEMMA CommandFollowed ==
  ASSUME Followed, Copies, Books,
         \/ \E gid : executeIgnore(gid) \/ executeResolve(gid)
         \/ \E r : Cancel(r)
         \/ UNCHANGED vars
  PROVE  Followed'
<1>1. /\ work' = work /\ overlap' = overlap
      /\ \/ findings' = findings
         \/ \E i : findings' = UpdateFindingState(findings, i, "ignored", 0)
      /\ \/ threads' = threads
         \/ \E D : threads' = [j \in DOMAIN threads |->
              IF j \in D THEN [threads[j] EXCEPT !.resolved = TRUE] ELSE threads[j]]
  BY Zenon DEF executeIgnore, executeResolve, Cancel, vars, storeVars, dedupVars,
               publicationVars
<1>2. /\ Rows(findings) /\ AnchoredRows(findings)
      /\ \A d \in DOMAIN threads : Has(threads[d], ThreadFields)
  BY Zenon DEF Copies, AnchoredRows, Books, Structure, Tables
<1>3. KeepThreads(threads, threads') /\ DOMAIN threads' = DOMAIN threads
  <2>1. CASE threads' = threads  BY <2>1, ThreadsAlone, Zenon
  <2>2. ASSUME NEW D, threads' = [j \in DOMAIN threads |->
              IF j \in D THEN [threads[j] EXCEPT !.resolved = TRUE] ELSE threads[j]]
        PROVE  KeepThreads(threads, threads') /\ DOMAIN threads' = DOMAIN threads
    BY <1>2, <2>2, CommandedThreads, SMT
  <2> QED BY <1>1, <2>1, <2>2, Zenon
<1>4. ThreadIdsStay  BY <1>3, Zenon DEF KeepThreads, ThreadIdsStay
<1>5. DOMAIN findings \subseteq DOMAIN findings'  BY <1>1, <1>2, WritesKeepRows, Zenon
<1>6. \A i \in DOMAIN findings : SettledAs(findings, findings', i)
  BY <1>1, <1>2, RowSettled, Zenon
<1>7. Scopes'  BY <1>1, <1>3, <1>4, <1>5, Zenon DEF Followed, Scopes, ThreadIdsStay
<1>8. LinksAreTrue'
  <2>1. SUFFICES ASSUME overlap = {} PROVE LinksAreTrue'
    BY <1>1, Zenon DEF LinksAreTrue
  <2>2. /\ \A d \in DOMAIN threads : LinkIsTrue(d)
        /\ \A v \in Workers : work[v].pc \in Settling =>
             SettlesTrue(work[v].settle, findings, threads)
    BY <2>1, Zenon DEF Followed, LinksAreTrue
  <2>3. ASSUME NEW d \in DOMAIN threads', threads'[d].superseded_by # 0
        PROVE  LinkIsTrue(d)'
    <3> DEFINE f == threads[d].finding  s == threads[d].superseded_by
    <3>1. /\ d \in DOMAIN threads /\ threads'[d].finding = f
          /\ threads'[d].superseded_by = s
      BY <1>3, Zenon DEF KeepThreads
    <3>2. f \in DOMAIN findings /\ LinkIsTrue(d)  BY <2>2, <3>1, Zenon DEF Followed, Scopes
    <3>3. /\ Follows(findings[f], s, threads)
          /\ \A v \in Workers : work[v].pc \in Copying => f \notin DOMAIN work[v].existing
      BY <2>3, <3>1, <3>2, Zenon DEF LinkIsTrue
    <3>4. SettledAs(findings, findings', f)  BY <1>6, <3>2, Zenon
    <3> HIDE DEF f, s
    <3>5. Follows(findings'[f], s, threads')  BY <1>4, <3>3, <3>4, FollowsOn, Zenon
    <3> QED BY <1>1, <3>1, <3>3, <3>5, Zenon DEF LinkIsTrue
  <2>4. ASSUME NEW d \in DOMAIN threads' PROVE LinkIsTrue(d)'
    <3>1. CASE threads'[d].superseded_by = 0  BY <3>1, Zenon DEF LinkIsTrue
    <3> QED BY <2>3, <3>1, Zenon
  <2>5. ASSUME NEW v \in Workers, work[v].pc \in Settling
        PROVE  SettlesTrue(work[v].settle, findings', threads')
    BY <1>4, <1>5, <1>6, <2>2, <2>5, SettlesOn, Zenon
  <2> QED BY <1>1, <2>4, <2>5, Zenon DEF LinksAreTrue
<1> QED BY <1>7, <1>8, Zenon DEF Followed

\* Every step keeps what the threads follow.
LEMMA FollowedNext ==
  ASSUME Followed, Copies, Books, Comments, Deduplicated, [PublicationNext]_vars
  PROVE  Followed'
<1>1. Copies'  BY CopiesNext, Zenon
<1>2. CASE \E w \in Workers : \E r \in Runs : \E report \in Reports[r] : Begin(w, r, report)
  BY <1>2, BeginFollowed, SMT
<1>3. ASSUME NEW w \in Workers, PersistStep(w) PROVE Followed'
  BY <1>1, <1>3, PersistFollowed, Zenon
<1>4. ASSUME NEW w \in Workers, WritebackStep(w) PROVE Followed'
  BY <1>4, WriterFollowed, Zenon
<1>5. ASSUME NEW w \in Workers, publishGateResult(w) \/ Stop(w) PROVE Followed'
  BY <1>5, LeavingFollowed, Zenon
<1> QED BY <1>2, <1>3, <1>4, <1>5, CommandFollowed, Zenon DEF PublicationNext

\* At the start there are no threads and no posts.
LEMMA FollowedInit ==
  ASSUME PublicationInit
  PROVE  Followed
<1>1. findings = <<>> /\ threads = <<>>  BY Zenon DEF PublicationInit
<1>2. DOMAIN findings = {} /\ DOMAIN threads = {}  BY <1>1, SMT
<1>3. \A w \in Workers : work[w].pc = "idle" /\ DOMAIN work[w].posts = {}
  BY Zenon DEF PublicationInit, Idle, NoCopy
<1>4. "idle" \notin Resolving \cup Settling  BY Zenon DEF Resolving, Settling
<1> QED BY <1>2, <1>3, <1>4, Zenon DEF Followed, Scopes, LinksAreTrue

\* The invariants that the theorems about threads and gates rest on, together.
LEMMA FindingsAreKept ==
  PublicationSpec => [](Books /\ Copies /\ Comments /\ Deduplicated /\ Followed)
<1>1. PublicationInit => Comments /\ Deduplicated /\ Followed
  BY CommentsInit, DeduplicatedInit, FollowedInit
<1>2. Comments /\ Books /\ [PublicationNext]_vars => Comments'
  BY CommentsNext
<1>3. Deduplicated /\ Copies /\ Books /\ Comments /\ [PublicationNext]_vars => Deduplicated'
  BY DeduplicatedNext
<1>4. /\ Followed /\ Copies /\ Books /\ Comments /\ Deduplicated /\ [PublicationNext]_vars
      => Followed'
  BY FollowedNext
<1> QED BY <1>1, <1>2, <1>3, <1>4, CopiesAreKept, PTL DEF PublicationSpec

\* linkSupersededDiscussion marks a discussion as replaced by that of the
\* finding that replaced its own, however long ago the writer read which
\* findings are settled, as long as runs do not overlap.
THEOREM ThreadsFollow == PublicationSpec => []ThreadsFollowFindings
<1>1. Followed => ThreadsFollowFindings
  <2>1. SUFFICES ASSUME Followed, NEW d \in DOMAIN threads,
                        threads[d].superseded_by # 0, overlap = {}
                 PROVE  LET f == findings[threads[d].finding] IN
                        \/ f.state = "ignored"
                        \/ f.matched = threads[threads[d].superseded_by].finding
    BY Zenon DEF ThreadsFollowFindings
  <2>2. LinkIsTrue(d)  BY <2>1, Zenon DEF Followed, LinksAreTrue
  <2> QED BY <2>1, <2>2, Zenon DEF LinkIsTrue, Follows
<1> QED BY <1>1, FindingsAreKept, PTL

-----------------------------------------------------------------------------
(* PassedGateMeansThreadsResolved                                          *)

\* The row passed the thresholds when it was made.
Passes(row) ==
  /\ severityRank(row.severity) >= severityRank(Threshold.severity)
  /\ row.confidence >= Threshold.confidence

PassingRows(t) == \A i \in DOMAIN t : IsActive(t[i]) => Passes(t[i])

\* The two rankings of severities agree as far as the gate looks.
LEMMA RanksAgree ==
  ASSUME NEW s, NEW t, severityRank(s) >= severityRank(t)
  PROVE  gateSeverityRank(s) >= gateSeverityRank(t)
<1> DEFINE Ranked(x) ==
      \/ severityRank(x) = 4 /\ gateSeverityRank(x) = 4
      \/ severityRank(x) = 3 /\ gateSeverityRank(x) = 3
      \/ severityRank(x) = 2 /\ gateSeverityRank(x) = 2
      \/ severityRank(x) = 1 /\ gateSeverityRank(x) = 1
      \/ severityRank(x) = 0 /\ gateSeverityRank(x) = 0
      \/ severityRank(x) = -1 /\ gateSeverityRank(x) = 0
<1>1. ASSUME NEW x PROVE Ranked(x)
  BY SMT DEF severityRank, gateSeverityRank
<1>2. Ranked(s) /\ Ranked(t)  BY <1>1, Zenon
<1> QED BY <1>2, SMT

\* A finding that is kept as new passes.
LEMMA NewPasses ==
  ASSUME NEW r \in Runs, NEW report \in Reports[r], NEW k \in persisted(report),
         evaluateFindingState(normalized(report, k)) = "new"
  PROVE  Passes(normalized(report, k))
<1> DEFINE n == normalized(report, k)
<1>1. k \in DOMAIN report.findings  BY Zenon DEF persisted
<1>2. report.findings[k].confidence \in Int /\ Threshold.confidence \in Int
  BY <1>1, ReportsAssumption, Zenon
<1>3. n.confidence = report.findings[k].confidence
  BY Zenon DEF normalized, normalizeFinding
<1> HIDE DEF n
<1>4. /\ ~(n.confidence < Threshold.confidence)
      /\ ~(severityRank(n.severity) < severityRank(Threshold.severity))
  BY Zenon DEF evaluateFindingState, n
<1>5. \A s : severityRank(s) \in Int  BY SMT DEF severityRank
<1>6. Passes(n)
  <2>1. severityRank(n.severity) \in Int /\ severityRank(Threshold.severity) \in Int
    BY <1>5, Zenon
  <2>2. n.confidence >= Threshold.confidence  BY <1>2, <1>3, <1>4, SMT
  <2>3. severityRank(n.severity) >= severityRank(Threshold.severity)  BY <1>4, <2>1, SMT
  <2> QED BY <2>2, <2>3, Zenon DEF Passes
<1> QED BY <1>6, Zenon DEF n

\* The statements of the model.
LEMMA RowsPass ==
  ASSUME Rows(findings), PassingRows(findings),
         \/ findings' = findings \/ LinksOnly
         \/ \E i, r : findings' = UpdateFindingLastSeen(findings, i, r)
         \/ \E i, n, r : findings' = UpdateFindingRelocation(findings, i, n, r)
         \/ \E i, st, m : findings' = UpdateFindingState(findings, i, st, m)
                          /\ st \notin ActiveStates
         \/ \E r, n, st : findings' = InsertReviewFinding(findings, r, n, st)
                          /\ (st = "filtered" \/ Passes(n))
  PROVE  PassingRows(findings')
<1> DEFINE F == {"path", "kind", "anchor_fp", "semantic_fp", "last_seen"}
           Keeps(G) == {"state", "severity", "confidence"} \subseteq FindingFields \ G
<1>1. Keeps({"disc"}) /\ Keeps({"last_seen"}) /\ Keeps(F)  BY Zenon DEF FindingFields
<1>2. ASSUME NEW i, NEW G, Updates(findings, findings', i, G),
             Keeps(G) \/ (i \in DOMAIN findings => ~IsActive(findings'[i]))
      PROVE  PassingRows(findings')
  <2>1. SUFFICES ASSUME NEW j \in DOMAIN findings, IsActive(findings'[j])
                 PROVE  Passes(findings'[j])
    BY <1>2, Zenon DEF PassingRows, Updates
  <2>2. CASE j # i  BY <1>2, <2>1, <2>2, Zenon DEF Updates, PassingRows
  <2>3. CASE j = i /\ Keeps(G)
    <3>1. /\ findings'[i].state = findings[i].state
          /\ findings'[i].severity = findings[i].severity
          /\ findings'[i].confidence = findings[i].confidence
      BY <1>2, <2>1, <2>3, Zenon DEF Updates
    <3>2. Passes(findings[i])  BY <2>1, <2>3, <3>1, Zenon DEF PassingRows, IsActive
    <3> QED BY <2>3, <3>1, <3>2, Zenon DEF Passes
  <2> QED BY <1>2, <2>1, <2>2, <2>3, Zenon
<1> HIDE DEF Keeps
<1>3. ASSUME NEW j, NEW d, findings' = UpdateFindingDiscussionID(findings, j, d)
      PROVE  PassingRows(findings')
  <2>1. Updates(findings, findings', j, {"disc"})  BY <1>3, DiscussionUpdate, Zenon
  <2> QED BY <1>1, <1>2, <2>1, Zenon
<1>4. ASSUME NEW j, NEW r, findings' = UpdateFindingLastSeen(findings, j, r)
      PROVE  PassingRows(findings')
  <2>1. Updates(findings, findings', j, {"last_seen"})  BY <1>4, SeenUpdate, Zenon
  <2> QED BY <1>1, <1>2, <2>1, Zenon
<1>5. ASSUME NEW j, NEW n, NEW r, findings' = UpdateFindingRelocation(findings, j, n, r)
      PROVE  PassingRows(findings')
  <2>1. Updates(findings, findings', j, F)  BY <1>5, RelocationUpdate, SMT
  <2> QED BY <1>1, <1>2, <2>1, Zenon
<1>6. ASSUME NEW r, NEW n, NEW st, findings' = InsertReviewFinding(findings, r, n, st),
             st = "filtered" \/ Passes(n)
      PROVE  PassingRows(findings')
  <2> DEFINE row == FindingRow(r, n, st)
  <2>1. Adds(findings, findings', row)  BY <1>6, FindingInserted, Zenon
  <2>2. row.severity = n.severity /\ row.confidence = n.confidence /\ row.state = st
    BY Zenon DEF FindingRow
  <2> HIDE DEF row
  <2>3. IsActive(row) => Passes(row)
    BY <1>6, <2>2, Zenon DEF IsActive, ActiveStates, Passes
  <2> QED BY <2>1, <2>3, Zenon DEF Adds, PassingRows
<1>7. ASSUME NEW j, NEW st, NEW m, findings' = UpdateFindingState(findings, j, st, m),
             st \notin ActiveStates
      PROVE  PassingRows(findings')
  <2>1. /\ Updates(findings, findings', j, {"state", "matched"})
        /\ j \in DOMAIN findings => findings'[j].state = st
    BY <1>7, StateUpdate, SMT
  <2>2. j \in DOMAIN findings => ~IsActive(findings'[j])  BY <1>7, <2>1, Zenon DEF IsActive
  <2> QED BY <1>2, <2>1, <2>2, Zenon
<1>8. CASE findings' = findings  BY <1>8, Zenon
<1> QED BY <1>3, <1>4, <1>5, <1>6, <1>7, <1>8, Zenon DEF LinksOnly

\* The labels at which a worker has its outcome.
AfterOutcome == {"status", "gate"} \cup WriterLabels

\* The outcome has the findings with an open thread, as the gate counts them.
Opened(x, open) ==
  \A i \in open : /\ i \in DOMAIN x.outcome /\ IsActive(x.outcome[i])
                  /\ Passes(x.outcome[i]) /\ x.outcome[i].disc # 0

ThreadDone(ts, i) == \E d \in DOMAIN ts : ts[d].finding = i /\ ts[d].resolved

\* The verdict on a run that was never shared is the last of it.
VerdictIsLast(r) ==
  verdict[r] # "none" =>
    /\ status[r] \notin Open /\ \A w \in Workers : work[w].run # r
    /\ verdict[r] = "passed" => \A i \in openAt[r] : ThreadDone(threads, i)

Gated ==
  /\ DOMAIN verdict = Runs /\ DOMAIN openAt = Runs
  /\ PassingRows(findings)
  /\ \A w \in Workers : (work[w].pc \in AfterOutcome /\ work[w].run \in Runs \ shared) =>
       Opened(work[w], openAt[work[w].run])
  /\ \A r \in Runs \ shared : VerdictIsLast(r)

ThreadsStayDone == \A i : ThreadDone(threads, i) => ThreadDone(threads', i)

\* A step of a worker that is not the gate's.
LEMMA GatedByStep ==
  ASSUME Gated, Comments, NEW w \in Workers, Moves(w), work[w].pc # "idle",
         work'[w] = Idle \/ work'[w].run = work[w].run, PassingRows(findings'),
         UNCHANGED <<shared, verdict>>, NothingOpens, ThreadsStayDone,
         DOMAIN openAt' = Runs, \A r \in Runs \ {work[w].run} : openAt'[r] = openAt[r],
         (work'[w].pc \in AfterOutcome /\ work'[w].run \in Runs \ shared) =>
           Opened(work'[w], openAt'[work'[w].run])
  PROVE  Gated'
<1> DEFINE x == work[w]  y == work'[w]
<1>1. shared' = shared /\ verdict' = verdict  OBVIOUS
<1>2. ASSUME NEW v \in Workers, work'[v].pc \in AfterOutcome, work'[v].run \in Runs \ shared
      PROVE  Opened(work'[v], openAt'[work'[v].run])
  <2>1. CASE v = w  BY <1>2, <2>1, Zenon
  <2>2. CASE v # w
    <3>1. work'[v] = work[v]  BY <2>2, Zenon DEF Moves
    <3>2. work[v].run # x.run
      BY <1>2, <2>2, <3>1, Zenon DEF Comments, RunsInTurn
    <3>3. Opened(work[v], openAt[work[v].run])  BY <1>2, <3>1, Zenon DEF Gated
    <3>4. openAt'[work[v].run] = openAt[work[v].run]  BY <1>2, <3>1, <3>2, Zenon
    <3> QED BY <3>1, <3>3, <3>4, Zenon
  <2> QED BY <2>1, <2>2, Zenon
<1>3. ASSUME NEW r \in Runs \ shared, verdict[r] # "none" PROVE VerdictIsLast(r)'
  <2>1. VerdictIsLast(r)  BY <1>3, Zenon DEF Gated
  <2>2. /\ status[r] \notin Open /\ \A v \in Workers : work[v].run # r
        /\ verdict[r] = "passed" => \A i \in openAt[r] : ThreadDone(threads, i)
    BY <1>3, <2>1, Zenon DEF VerdictIsLast
  <2>3. status'[r] \notin Open  BY <1>3, <2>2, Zenon DEF NothingOpens
  <2>4. 0 \notin Runs /\ Idle.run = 0  BY ReportsAssumption, Zenon DEF Idle
  <2>5. ASSUME NEW v \in Workers PROVE work'[v].run # r
    <3>1. CASE v = w  BY <1>3, <2>2, <2>4, <3>1, Zenon
    <3>2. CASE v # w  BY <2>2, <3>2, Zenon DEF Moves
    <3> QED BY <3>1, <3>2, Zenon
  <2>6. openAt'[r] = openAt[r]  BY <1>3, <2>2, Zenon
  <2> QED BY <1>1, <2>2, <2>3, <2>5, <2>6, Zenon DEF VerdictIsLast, ThreadsStayDone
<1>4. ASSUME NEW r \in Runs \ shared PROVE VerdictIsLast(r)'
  <2>1. CASE verdict[r] = "none"  BY <1>1, <2>1, Zenon DEF VerdictIsLast
  <2> QED BY <1>3, <2>1, Zenon
<1> QED BY <1>1, <1>2, <1>4, Zenon DEF Gated

\* With one thread per finding, as the gate asks.
LEMMA DoneIsResolved ==
  ASSUME Books, NEW i
  PROVE  discussionResolved(i) <=> ThreadDone(threads, i)
<1>1. /\ IsTable(threads)
      /\ \A d, e \in DOMAIN threads : threads[d].finding = threads[e].finding => d = e
  BY Zenon DEF Books, Structure, Tables
<1>2. GetGitlabDiscussionByFinding(threads, i) =
        {d \in DOMAIN threads : threads[d].finding = i}
  BY <1>1, ThreadOf, Zenon
<1> QED BY <1>2, Zenon DEF discussionResolved, ThreadDone,
                           GetGitlabDiscussionByMergeRequestAndFinding

\* Threads are never marked as open again.
LEMMA StayDone ==
  ASSUME \/ KeepThreads(threads, threads')
         \/ \E i, s : LinkThread(threads, threads', i, s)
  PROVE  ThreadsStayDone
BY Zenon DEF KeepThreads, LinkThread, ThreadsStayDone, ThreadDone

\* No status opens a run but that of Begin.
LEMMA StepsClose ==
  ASSUME NEW w \in Workers, DedupStep(w) \/ WriterStep(w)
  PROVE  ClosingStatement
<1> DEFINE r == work[w].run
           s == canonicalRunStatus(work[w].report.status, DOMAIN work[w].outcome)
           t == IF status[r] = "running" THEN "failed" ELSE status[r]
<1>1. \/ UNCHANGED status \/ status' = [status EXCEPT ![r] = s]
      \/ status' = [status EXCEPT ![r] = t]
  <2>1. CASE DedupStep(w)
    BY <2>1, Zenon DEF DedupStep, ListExisting, MatchFinding, SupersedeFinding,
                       MissingFinding, LoadOutcome, PersistStatus
  <2>2. CASE \E f \in DOMAIN work[w].posts : finalizeAction(w, f)
    BY <2>2, Zenon DEF finalizeAction
  <2>3. CASE WriterStep(w) /\ ~\E f \in DOMAIN work[w].posts : finalizeAction(w, f)
    BY <2>3, Zenon DEF WriterStep, StartWriteback, writeFindings, PostStep, CheckPost,
         ensureAction, CallForge, persistDiscussion, persistFindingDiscussionLink,
         ListSettled, SettleFinding, ResolveDiscussion, FinalizeResolve, MarkResolved,
         linkSupersededDiscussion, StartSummary, FinishWriteback, Publish
  <2> QED BY <2>1, <2>2, <2>3, Zenon
<1>2. s \notin Open  BY Zenon DEF canonicalRunStatus, Open
<1>3. t \in Open => t = status[r]  BY Zenon DEF Open
<1> HIDE DEF s, t
<1> QED BY <1>1, <1>2, <1>3 DEF ClosingStatement

\* persistFindings and the status of the run: the outcome is read here, and with it
\* the threads the gate has to find resolved.
LEMMA PersistGated ==
  ASSUME Gated, Comments, Copies, Books, NEW w \in Workers, PersistStep(w)
  PROVE  Gated'
<1> DEFINE x == work[w]  y == work'[w]  open == {i \in DOMAIN findings : HasOpenThread(i)}
<1>1. threads' = threads /\ shared' = shared /\ verdict' = verdict /\ DedupStep(w)
  BY Zenon DEF PersistStep, DedupStep, ListExisting, MatchFinding, SupersedeFinding,
               MissingFinding, LoadOutcome, PersistStatus, storeVars
<1>2. DedupTurn(w, x, y) \/ Concludes(w, x, y)
  BY CopiedIds, ListFrame, MatchFrame, SupersedeFrame, MissingFrame, ConcludeFrame, Zenon
     DEF PersistStep, DedupStep, DedupTurn, MatchFinding, MissingFinding, At
<1>3. Rows(findings) /\ Reads(x, findings) /\ Reviewed(x)  BY Zenon DEF Copies, AnchoredRows
<1>4. /\ Moves(w) /\ Carries(x, y) /\ x.pc \in Deduping \cup {"status"}
  BY <1>2, Zenon DEF DedupTurn, Lists, Matches, Inserts, Supersedes, Misses, Concludes,
                     Deduping, Copying
<1>5. x.pc # "idle" /\ y.run = x.run
  BY <1>4, Zenon DEF Deduping, Copying, Carries
<1>6. PassingRows(findings)  BY Zenon DEF Gated
<1>7. PassingRows(findings')
  <2>1. CASE Matches(w, x, y)
    <3> DEFINE k == Min(x.todo)  n == normalized(x.report, k)
    <3>1. x.pc = "match" /\ x.todo # {}  BY <2>1, Zenon DEF Matches
    <3>2. PICK r \in Runs : x.report \in Reports[r]
      BY <1>3, <3>1, Zenon DEF Reviewed, Deduping, Copying
    <3>3. x.todo \subseteq persisted(x.report)  BY <1>3, <3>1, Zenon DEF Reads, Copying
    <3>4. k \in persisted(x.report)
      <4>1. x.todo \subseteq Nat  BY <3>2, <3>3, PlacesAreNumbers, Zenon
      <4> QED BY <3>1, <3>3, <4>1, HasLeast, Zenon
    <3>5. evaluateFindingState(n) = "new" => Passes(n)  BY <3>2, <3>4, NewPasses, Zenon
    <3>6. \/ findings' = findings
          \/ \E i, q : findings' = UpdateFindingLastSeen(findings, i, q)
          \/ \E i, m, q : findings' = UpdateFindingRelocation(findings, i, m, q)
          \/ \E q, m, st : findings' = InsertReviewFinding(findings, q, m, st)
                           /\ (st = "filtered" \/ Passes(m))
      BY <2>1, <3>5, Zenon DEF Matches, Inserts
    <3> QED BY <1>3, <1>6, <3>6, RowsPass, Zenon
  <2>2. CASE Supersedes(w, x, y) \/ Misses(w, x, y)
    <3>1. {"superseded", "fixed", "stale"} \cap ActiveStates = {}
      BY Zenon DEF ActiveStates
    <3> QED BY <1>3, <1>6, <2>2, <3>1, RowsPass, Zenon DEF Supersedes, Misses
  <2>3. CASE findings' = findings  BY <1>3, <1>6, <2>3, RowsPass, Zenon
  <2> QED BY <1>2, <2>1, <2>2, <2>3, Zenon DEF DedupTurn, Lists, Concludes
<1>8. NothingOpens  BY <1>1, StepsClose, StatusStays, Zenon
<1>9. ThreadsStayDone  BY <1>1, ThreadsAlone, StayDone, Zenon
<1>10. DOMAIN openAt = Runs  BY Zenon DEF Gated
<1>11. openAt' = IF x.pc = "match" /\ y.pc = "status"
                 THEN [openAt EXCEPT ![x.run] = open] ELSE openAt
  BY Zenon DEF PersistStep
<1>12. /\ DOMAIN openAt' = Runs /\ \A r \in Runs \ {x.run} : openAt'[r] = openAt[r]
       /\ (x.pc = "match" /\ y.pc = "status" /\ x.run \in Runs) => openAt'[x.run] = open
       /\ ~(x.pc = "match" /\ y.pc = "status") => openAt' = openAt
  <2> HIDE DEF open
  <2> QED BY <1>10, <1>11, Zenon
<1>13. ASSUME y.pc \in AfterOutcome, y.run \in Runs \ shared
       PROVE  Opened(y, openAt'[y.run])
  <2>1. Concludes(w, x, y)
    BY <1>2, <1>13, Zenon DEF AfterOutcome, WriterLabels, Settling, DedupTurn, Lists, Matches,
                              Inserts, Supersedes, Misses
  <2>2. CASE x.pc = "match" /\ y.pc = "status" /\ y.outcome = ListActiveFindingsByMR(findings)
    <3>1. openAt'[y.run] = open  BY <1>5, <1>12, <1>13, <2>2, Zenon
    <3>2. ASSUME NEW i \in open
          PROVE  /\ i \in DOMAIN findings /\ IsActive(findings[i]) /\ findings[i].disc # 0
      BY <3>2, Zenon DEF HasOpenThread, IsActive
    <3>3. \A i \in DOMAIN findings : IsActive(findings[i]) =>
            i \in DOMAIN y.outcome /\ y.outcome[i] = findings[i]
      <4> DEFINE c == y.outcome
      <4>1. c = ListActiveFindingsByMR(findings)  BY <2>2, Zenon
      <4> HIDE DEF c
      <4>2. \A i \in DOMAIN findings : IsActive(findings[i]) =>
              i \in DOMAIN c /\ c[i] = findings[i]
        BY <4>1, ListedRows, SMT DEF IsActive
      <4> QED BY <4>2, Zenon DEF c
    <3> HIDE DEF y, open
    <3> QED BY <1>6, <3>1, <3>2, <3>3, Zenon DEF Opened, PassingRows
  <2>3. CASE x.pc = "status" /\ y.outcome = x.outcome
    <3>1. openAt' = openAt  BY <1>12, <2>3, Zenon
    <3>2. Opened(x, openAt[x.run])
      BY <1>5, <1>13, <2>3, Zenon DEF Gated, AfterOutcome
    <3> QED BY <1>5, <2>3, <3>1, <3>2, Zenon DEF Opened
  <2> QED BY <2>1, <2>2, <2>3, Zenon DEF Concludes
<1> QED BY <1>1, <1>4, <1>5, <1>7, <1>8, <1>9, <1>12, <1>13, GatedByStep, Zenon

\* The comment writer keeps the outcome, and resolves threads.
LEMMA WriterGated ==
  ASSUME Gated, Comments, Copies, Books, NEW w \in Workers, WritebackStep(w)
  PROVE  Gated'
<1> DEFINE x == work[w]  y == work'[w]
<1>1. WriterStep(w) /\ shared' = shared /\ verdict' = verdict /\ openAt' = openAt
  BY Zenon DEF WritebackStep, publicationVars
<1>2. Writes(w, x, y) /\ WriterThreads(x)  BY <1>1, WriterFrame, WriterThreadsFrame, Zenon
<1>3. Moves(w) /\ LinksOnly /\ x.pc \in WriterLabels /\ (y = Idle \/ Continues(x, y))
  BY <1>2, Zenon DEF Writes
<1>4. x.pc # "idle"  BY <1>3, Zenon DEF WriterLabels, Settling
<1>5. y = Idle \/ y.run = x.run  BY <1>3, Zenon DEF Continues
<1>6. PassingRows(findings')
  BY <1>3, RowsPass, Zenon DEF Gated, Copies, AnchoredRows
<1>7. NothingOpens  BY <1>1, StepsClose, StatusStays, Zenon
<1>8. ThreadsStayDone  BY <1>2, StayDone, Zenon DEF WriterThreads
<1>9. ASSUME y.pc \in AfterOutcome, y.run \in Runs \ shared
      PROVE  Opened(y, openAt'[y.run])
  <2>1. Idle.pc = "idle" /\ "idle" \notin AfterOutcome
    BY Zenon DEF Idle, AfterOutcome, WriterLabels, Settling
  <2>2. y.run = x.run /\ y.outcome = x.outcome
    BY <1>3, <1>9, <2>1, Zenon DEF Continues
  <2>3. Opened(x, openAt[x.run])
    BY <1>3, <1>9, <2>2, Zenon DEF Gated, AfterOutcome
  <2> QED BY <1>1, <2>2, <2>3, Zenon DEF Opened
<1>10. DOMAIN openAt' = Runs /\ \A r \in Runs \ {x.run} : openAt'[r] = openAt[r]
  BY <1>1, Zenon DEF Gated
<1> QED BY <1>1, <1>3, <1>4, <1>5, <1>6, <1>7, <1>8, <1>9, <1>10, GatedByStep, Zenon

\* A worker that stops leaves no verdict.
LEMMA StopGated ==
  ASSUME Gated, Comments, Books, NEW w \in Workers, Stop(w)
  PROVE  Gated'
<1>1. /\ work' = [work EXCEPT ![w] = Idle] /\ findings' = findings /\ threads' = threads
      /\ work[w].pc # "idle" /\ status' = status
      /\ shared' = shared /\ verdict' = verdict /\ openAt' = openAt
  BY Zenon DEF Stop, Abandon, At, storeVars, publicationVars
<1>2. Moves(w) /\ work'[w] = Idle  BY <1>1, LeaveFrame, Zenon
<1>3. PassingRows(findings')  BY <1>1, Zenon DEF Gated
<1>4. NothingOpens  BY <1>1, StatusStays, Zenon DEF ClosingStatement
<1>5. ThreadsStayDone  BY <1>1, ThreadsAlone, StayDone, Zenon
<1>6. Idle.pc = "idle" /\ "idle" \notin AfterOutcome
  BY Zenon DEF Idle, AfterOutcome, WriterLabels, Settling
<1>7. DOMAIN openAt' = Runs /\ \A r \in Runs \ {work[w].run} : openAt'[r] = openAt[r]
  BY <1>1, Zenon DEF Gated
<1> QED BY <1>1, <1>2, <1>3, <1>4, <1>5, <1>6, <1>7, GatedByStep, Zenon

\* Commands, and the cancelling of a run, neither reopen a thread nor a run.
LEMMA CommandGated ==
  ASSUME Gated, Comments, Copies, Books,
         \/ \E gid : executeIgnore(gid) \/ executeResolve(gid)
         \/ \E r : Cancel(r)
         \/ UNCHANGED vars
  PROVE  Gated'
<1>1. /\ work' = work /\ shared' = shared /\ verdict' = verdict /\ openAt' = openAt
      /\ \/ findings' = findings
         \/ \E i : findings' = UpdateFindingState(findings, i, "ignored", 0)
      /\ \/ threads' = threads
         \/ \E D : threads' = [j \in DOMAIN threads |->
              IF j \in D THEN [threads[j] EXCEPT !.resolved = TRUE] ELSE threads[j]]
  BY Zenon DEF executeIgnore, executeResolve, Cancel, vars, storeVars, dedupVars,
               publicationVars
<1>2. /\ Rows(findings) /\ \A d \in DOMAIN threads : Has(threads[d], ThreadFields)
  BY Zenon DEF Copies, AnchoredRows, Books, Structure, Tables
<1>3. ThreadsStayDone
  <2>1. CASE threads' = threads  BY <2>1, ThreadsAlone, StayDone, Zenon
  <2>2. ASSUME NEW D, threads' = [j \in DOMAIN threads |->
              IF j \in D THEN [threads[j] EXCEPT !.resolved = TRUE] ELSE threads[j]]
        PROVE  ThreadsStayDone
    <3>1. KeepThreads(threads, threads')  BY <1>2, <2>2, CommandedThreads, SMT
    <3> QED BY <3>1, StayDone, Zenon
  <2> QED BY <1>1, <2>1, <2>2, Zenon
<1>4. PassingRows(findings')
  <2>1. "ignored" \notin ActiveStates  BY Zenon DEF ActiveStates
  <2> QED BY <1>1, <1>2, <2>1, RowsPass, Zenon DEF Gated
<1>5. NothingOpens
  <2>1. CASE \E r : Cancel(r)
    <3>1. \E r : status' = [status EXCEPT ![r] = "cancelled"]  BY <2>1, Zenon DEF Cancel
    <3>2. "cancelled" \notin Open  BY Zenon DEF Open
    <3> QED BY <3>1, <3>2, StatusStays DEF ClosingStatement
  <2>2. CASE UNCHANGED status  BY <2>2, StatusStays, Zenon DEF ClosingStatement
  <2> QED BY <2>1, <2>2, Zenon DEF executeIgnore, executeResolve, vars, dedupVars
<1>6. ASSUME NEW r \in Runs \ shared PROVE VerdictIsLast(r)'
  <2>1. VerdictIsLast(r)  BY <1>6, Zenon DEF Gated
  <2> QED BY <1>1, <1>3, <1>5, <1>6, <2>1, Zenon DEF VerdictIsLast, ThreadsStayDone,
                                                    NothingOpens
<1> QED BY <1>1, <1>4, <1>6, Zenon DEF Gated

\* A run with a verdict is not begun again.
LEMMA BeginGated ==
  ASSUME Gated, Comments, Books, NEW w \in Workers, NEW r \in Runs, NEW report,
         Begin(w, r, report)
  PROVE  Gated'
<1>1. /\ Moves(w) /\ findings' = findings /\ threads' = threads
      /\ work'[w].pc = "list" /\ work'[w].run = r
  BY BeginFrame, SMT
<1>2. /\ verdict' = verdict /\ openAt' = openAt /\ shared \subseteq shared'
      /\ status[r] \in Open /\ status' = [status EXCEPT ![r] = "running"]
  BY Zenon DEF Begin, Open
<1>3. "list" \notin AfterOutcome  BY Zenon DEF AfterOutcome, WriterLabels, Settling
<1>4. ASSUME NEW v \in Workers, work'[v].pc \in AfterOutcome, work'[v].run \in Runs \ shared'
      PROVE  Opened(work'[v], openAt'[work'[v].run])
  <2>1. v # w  BY <1>1, <1>3, <1>4, Zenon
  <2>2. work'[v] = work[v]  BY <1>1, <2>1, Zenon DEF Moves
  <2> QED BY <1>2, <1>4, <2>2, Zenon DEF Gated
<1>5. ASSUME NEW q \in Runs \ shared', verdict[q] # "none" PROVE VerdictIsLast(q)'
  <2>1. VerdictIsLast(q)  BY <1>2, <1>5, Zenon DEF Gated
  <2>2. /\ status[q] \notin Open /\ \A v \in Workers : work[v].run # q
        /\ verdict[q] = "passed" => \A i \in openAt[q] : ThreadDone(threads, i)
    BY <1>5, <2>1, Zenon DEF VerdictIsLast
  <2>3. q # r  BY <1>2, <2>2, Zenon
  <2>4. DOMAIN status = Runs  BY Zenon DEF Comments, RunsInTurn
  <2>5. status'[q] = status[q]  BY <1>2, <1>5, <2>3, <2>4, Zenon
  <2>6. \A v \in Workers : work'[v].run # q  BY <1>1, <2>2, <2>3, Zenon DEF Moves
  <2> QED BY <1>1, <1>2, <2>2, <2>5, <2>6, Zenon DEF VerdictIsLast
<1>6. ASSUME NEW q \in Runs \ shared' PROVE VerdictIsLast(q)'
  <2>1. CASE verdict[q] = "none"  BY <1>2, <2>1, Zenon DEF VerdictIsLast
  <2> QED BY <1>5, <2>1, Zenon
<1> QED BY <1>1, <1>2, <1>4, <1>6, Zenon DEF Gated

\* The gate passes only if the open threads of the outcome are resolved by now.
LEMMA VerdictGated ==
  ASSUME Gated, Comments, Books, NEW w \in Workers, publishGateResult(w)
  PROVE  Gated'
<1> DEFINE x == work[w]  r == x.run  c == ComputeResultWithDiscussionState(x.outcome)
<1>1. /\ work' = [work EXCEPT ![w] = Idle] /\ findings' = findings /\ threads' = threads
      /\ x.pc = "gate" /\ status' = status /\ shared' = shared /\ openAt' = openAt
      /\ verdict' = verdict \/ verdict' = [verdict EXCEPT ![r] = c]
  BY Zenon DEF publishGateResult, At, storeVars
<1>2. Moves(w) /\ work'[w] = Idle  BY <1>1, LeaveFrame, Zenon
<1>3. /\ Idle.pc = "idle" /\ Idle.run = 0 /\ "idle" \notin AfterOutcome
      /\ "gate" \in AfterOutcome /\ "gate" \notin Early
  BY Zenon DEF Idle, AfterOutcome, WriterLabels, Settling, Early
<1>4. 0 \notin Runs /\ r \in Runs
  BY <1>1, ReportsAssumption, Zenon DEF Comments, RunsInTurn
<1>5. ASSUME NEW v \in Workers, work'[v].pc \in AfterOutcome, work'[v].run \in Runs \ shared'
      PROVE  Opened(work'[v], openAt'[work'[v].run])
  <2>1. v # w  BY <1>2, <1>3, <1>5, Zenon
  <2>2. work'[v] = work[v]  BY <1>2, <2>1, Zenon DEF Moves
  <2> QED BY <1>1, <1>5, <2>2, Zenon DEF Gated
<1>6. ASSUME NEW q \in Runs \ shared PROVE VerdictIsLast(q)'
  <2>1. VerdictIsLast(q)  BY <1>6, Zenon DEF Gated
  <2>2. CASE q # r
    <3>1. verdict'[q] = verdict[q]
      <4>1. DOMAIN verdict = Runs  BY Zenon DEF Gated
      <4> HIDE DEF c, r
      <4> QED BY <1>1, <1>6, <2>2, <4>1, Zenon
    <3>2. ASSUME NEW v \in Workers, work[v].run # q PROVE work'[v].run # q
      BY <1>2, <1>3, <1>4, <1>6, <3>2, Zenon DEF Moves
    <3> QED BY <1>1, <2>1, <3>1, <3>2, Zenon DEF VerdictIsLast
  <2>3. CASE q = r
    <3>1. verdict[r] = "none"  BY <2>1, <2>3, Zenon DEF VerdictIsLast
    <3>2. status[r] \notin Open  BY <1>1, <1>3, <1>6, <2>3, AloneFacts, Zenon
    <3>3. ASSUME NEW v \in Workers PROVE work'[v].run # r
      <4>1. CASE v = w  BY <1>2, <1>3, <1>4, <4>1, Zenon
      <4>2. CASE v # w
        <5>1. work[v].run # r  BY <1>6, <2>3, <4>2, Zenon DEF Comments, RunsInTurn
        <5> QED BY <1>2, <4>2, <5>1, Zenon DEF Moves
      <4> QED BY <4>1, <4>2, Zenon
    <3>4. ASSUME verdict'[r] = "passed", NEW i \in openAt[r] PROVE ThreadDone(threads, i)
      <4> DEFINE row == x.outcome[i]
      <4>1. DOMAIN verdict = Runs  BY Zenon DEF Gated
      <4>2. c = "passed"
        <5>1. verdict' # verdict  BY <3>1, <3>4, Zenon
        <5>2. verdict' = [verdict EXCEPT ![r] = c]  BY <1>1, <5>1, Zenon
        <5> HIDE DEF c
        <5> QED BY <1>4, <3>4, <4>1, <5>2, Zenon
      <4>3. Opened(x, openAt[r])  BY <1>1, <1>3, <1>6, <2>3, Zenon DEF Gated
      <4>4. i \in DOMAIN x.outcome /\ IsActive(row) /\ Passes(row) /\ row.disc # 0
        BY <3>4, <4>3, Zenon DEF Opened
      <4>5. ~qualifies(row, i)
        BY <4>2, <4>4, Zenon DEF ComputeResultWithDiscussionState
      <4>6. /\ row.state \notin {"ignored", "fixed", "stale", "superseded", "filtered"}
            /\ gateSeverityRank(row.severity) >= gateSeverityRank(Threshold.severity)
            /\ row.confidence >= Threshold.confidence
        <5>1. row.state \notin {"ignored", "fixed", "stale", "superseded", "filtered"}
          BY <4>4, Zenon DEF IsActive, ActiveStates
        <5> QED BY <4>4, <5>1, RanksAgree, Zenon DEF Passes
      <4>7. discussionResolved(i)  BY <4>4, <4>5, <4>6, Zenon DEF qualifies
      <4> QED BY <4>7, DoneIsResolved, Zenon
    <3> QED BY <1>1, <2>3, <3>2, <3>3, <3>4, Zenon DEF VerdictIsLast
  <2> QED BY <2>2, <2>3, Zenon
<1>7. DOMAIN verdict' = Runs /\ PassingRows(findings') /\ DOMAIN openAt' = Runs
  <2>1. DOMAIN verdict = Runs /\ PassingRows(findings) /\ DOMAIN openAt = Runs
    BY Zenon DEF Gated
  <2> HIDE DEF c
  <2> QED BY <1>1, <2>1, Zenon
<1> QED BY <1>1, <1>5, <1>6, <1>7, Zenon DEF Gated

\* Every step keeps what a passed gate means.
LEMMA GatedNext ==
  ASSUME Gated, Copies, Books, Comments, [PublicationNext]_vars
  PROVE  Gated'
<1>1. CASE \E w \in Workers : \E r \in Runs : \E report \in Reports[r] : Begin(w, r, report)
  BY <1>1, BeginGated, SMT
<1>2. ASSUME NEW w \in Workers, PersistStep(w) PROVE Gated'  BY <1>2, PersistGated, Zenon
<1>3. ASSUME NEW w \in Workers, WritebackStep(w) PROVE Gated'  BY <1>3, WriterGated, Zenon
<1>4. ASSUME NEW w \in Workers, publishGateResult(w) PROVE Gated'
  BY <1>4, VerdictGated, Zenon
<1>5. ASSUME NEW w \in Workers, Stop(w) PROVE Gated'  BY <1>5, StopGated, Zenon
<1> QED BY <1>1, <1>2, <1>3, <1>4, <1>5, CommandGated, Zenon DEF PublicationNext

\* At the start there is no verdict and no outcome.
LEMMA GatedInit ==
  ASSUME PublicationInit
  PROVE  Gated
<1>1. findings = <<>>  BY Zenon DEF PublicationInit
<1>2. DOMAIN findings = {}  BY <1>1, SMT
<1>3. \A w \in Workers : work[w].pc = "idle"  BY Zenon DEF PublicationInit, Idle
<1>4. "idle" \notin AfterOutcome  BY Zenon DEF AfterOutcome, WriterLabels, Settling
<1>5. /\ DOMAIN verdict = Runs /\ DOMAIN openAt = Runs
      /\ \A r \in Runs : verdict[r] = "none"
  BY Zenon DEF PublicationInit
<1> QED BY <1>2, <1>3, <1>4, <1>5, Zenon DEF Gated, PassingRows, VerdictIsLast

\* The gate decides by the outcome it was handed, which is older than the
\* writeback; it passes only if every thread that was open when the outcome was
\* read has been resolved since, whatever commands and other runs did meanwhile.
THEOREM PassedGateResolved == PublicationSpec => []PassedGateMeansThreadsResolved
<1>1. PublicationInit => Gated  BY GatedInit
<1>2. Gated /\ Copies /\ Books /\ Comments /\ [PublicationNext]_vars => Gated'
  BY GatedNext
<1>3. Gated /\ Books => PassedGateMeansThreadsResolved
  <2>1. SUFFICES ASSUME Gated, Books, NEW r \in Runs, verdict[r] = "passed", r \notin shared,
                        NEW i \in openAt[r]
                 PROVE  discussionResolved(i)
    BY Zenon DEF PassedGateMeansThreadsResolved
  <2>2. VerdictIsLast(r)  BY <2>1, Zenon DEF Gated
  <2>3. ThreadDone(threads, i)  BY <2>1, <2>2, Zenon DEF VerdictIsLast
  <2> QED BY <2>1, <2>3, DoneIsResolved, Zenon
<1> QED BY <1>1, <1>2, <1>3, FindingsAreKept, PTL DEF PublicationSpec
=============================================================================
