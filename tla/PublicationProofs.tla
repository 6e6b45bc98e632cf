------------------------- MODULE PublicationProofs -------------------------
(***************************************************************************)
(* Proofs about Publication: what the writer puts on the forge, and what   *)
(* gitlab_discussions and comment_actions say of it; that a run comments   *)
(* once on a finding; and what the statements of the publication do to the *)
(* rows of review_findings and gitlab_discussions.                         *)
(***************************************************************************)
EXTENDS Publication, TLAPS

-----------------------------------------------------------------------------
(* Shapes                                                                  *)

WorkFields ==
  {"pc", "run", "report", "existing", "todo", "matched", "replaced", "outcome",
   "posts", "settle", "thread", "answer"}

PostFields == {"pc", "kind", "tries", "answer", "gid"}

ThreadFields == {"finding", "gid", "type", "resolved", "superseded_by"}

CommentFields == {"run", "finding", "kind", "resolved"}

\* x has the fields F.
Has(x, F) == x = [k \in F |-> x[k]]

IsFunction(m) == m = [k \in DOMAIN m |-> m[k]]

IsTable(t) == \E S : t \in Seq(S)

PostKinds == {"diff", "file", "note", "parser", "summary"}

Unwritten == {"check", "ensure", "call"}

\* The labels at which a goroutine may have a comment that is not on record.
Unsaved == {"call", "final", "row"}

\* The labels of resolveFindingDiscussion, from the call on.
Resolving == {"resolve", "resolved", "mark", "supersedes"}

\* What a goroutine has at each label: no comment before its call succeeded,
\* and the number of the comment from then on.
PostShape(f, p) ==
  /\ Has(p, PostFields) /\ p.kind \in PostKinds
  /\ f = 0 <=> p.kind \in {"parser", "summary"}
  /\ p.pc \in Unwritten => p.gid = 0
  /\ p.pc = "final" => (p.answer = "ok" <=> p.gid # 0)
  /\ p.pc = "final" /\ p.answer = "position" => p.kind \in {"diff", "file"}
  /\ p.pc = "row" => p.gid # 0
  /\ p.pc \in {"row", "link"} => f # 0

\* The goroutines of a worker exist while it is posting.
WorkerShape(x) ==
  /\ Has(x, WorkFields) /\ IsFunction(x.posts)
  /\ x.pc # "posting" => DOMAIN x.posts = {}
  /\ 0 \in DOMAIN x.posts => DOMAIN x.posts = {0}
  /\ \A f \in DOMAIN x.posts : PostShape(f, x.posts[f])

\* The thread a worker resolves is that of the finding it is at, and resolved
\* once the forge has said so.
HeldThread(x, ts, comments) ==
  /\ x.pc \in Resolving =>
       x.thread \in DOMAIN ts /\ ts[x.thread].finding = Min(DOMAIN x.settle)
  /\ (x.pc = "mark" \/ (x.pc = "resolved" /\ x.answer = "ok")) =>
       comments[ts[x.thread].gid].resolved

\* The comments its goroutines know are on the forge and about their findings.
HeldIds(x, ts, comments) ==
  /\ \A f \in DOMAIN x.posts : x.posts[f].gid # 0 =>
       x.posts[f].gid \in DOMAIN comments /\ comments[x.posts[f].gid].finding = f
  /\ HeldThread(x, ts, comments)

Tables ==
  /\ IsTable(threads) /\ IsTable(forge)
  /\ \A d \in DOMAIN threads : /\ Has(threads[d], ThreadFields)
                               /\ threads[d].gid \in DOMAIN forge
  /\ \A g \in DOMAIN forge : Has(forge[g], CommentFields)
  /\ \A d, e \in DOMAIN threads : threads[d].finding = threads[e].finding => d = e

Structure ==
  /\ Tables
  /\ work = [w \in Workers |-> work[w]]
  /\ \A w \in Workers : WorkerShape(work[w]) /\ HeldIds(work[w], threads, forge)

\* The thread of a finding whose resolve action succeeded is resolved.
ThreadIsResolved(f, ts, comments) ==
  \E d \in DOMAIN ts : ts[d].finding = f /\ comments[ts[d].gid].resolved

Succeeded(a, r, f) ==
  GetCommentActionByIdempotencyKey(a, Key(r, f, "resolve")) = "succeeded"

ResolveActionsAreTrue ==
  \A r, f : Succeeded(actions, r, f) => ThreadIsResolved(f, threads, forge)

\* The inductive invariant.
Books ==
  /\ Structure
  /\ ResolveActionsAreTrue /\ ResolvedRowsAreTrue /\ ThreadsAreKnown

-----------------------------------------------------------------------------
(* What every step keeps                                                   *)

\* u is the table t with the row e added.
Adds(t, u, e) ==
  /\ IsTable(u) /\ DOMAIN u = DOMAIN t \cup {Len(t) + 1}
  /\ Len(t) + 1 \notin DOMAIN t /\ Len(t) + 1 # 0
  /\ u[Len(t) + 1] = e
  /\ \A i \in DOMAIN t : u[i] = t[i]

\* What an INSERT, or a new comment, does.
LEMMA AppendFacts ==
  ASSUME NEW t, IsTable(t), NEW e
  PROVE  Adds(t, Append(t, e), e)
<1>1. PICK S : t \in Seq(S)  BY DEF IsTable
<1> DEFINE T == S \cup {e}
<1>2. t \in Seq(T) /\ e \in T  BY <1>1
<1> HIDE DEF T
<1>3. Append(t, e) \in Seq(T)  BY <1>2
<1>4. IsTable(Append(t, e))  BY <1>3 DEF IsTable
<1>5. /\ DOMAIN Append(t, e) = DOMAIN t \cup {Len(t) + 1}
      /\ Len(t) + 1 \notin DOMAIN t /\ Len(t) + 1 # 0
      /\ Append(t, e)[Len(t) + 1] = e
      /\ \A i \in DOMAIN t : Append(t, e)[i] = t[i]
  BY <1>2
<1> QED BY <1>4, <1>5, Zenon DEF Adds

\* An UPDATE keeps a table a table.
LEMMA UpdateFacts ==
  ASSUME NEW t, IsTable(t), NEW u, u = [i \in DOMAIN t |-> u[i]]
  PROVE  IsTable(u)
<1>1. PICK S : t \in Seq(S)  BY DEF IsTable
<1> DEFINE T == {u[i] : i \in DOMAIN t}
<1>2. u \in [DOMAIN t -> T]  BY Zenon
<1> HIDE DEF T
<1>3. u \in Seq(T)  BY <1>1, <1>2
<1> QED BY <1>3 DEF IsTable

\* Threads and comments are never removed; a thread keeps its finding and its
\* comment, and what is resolved stays so.
Grow ==
  /\ DOMAIN threads \subseteq DOMAIN threads' /\ DOMAIN forge \subseteq DOMAIN forge'
  /\ \A d \in DOMAIN threads :
       /\ threads'[d].finding = threads[d].finding
       /\ threads'[d].gid = threads[d].gid
  /\ \A g \in DOMAIN forge :
       /\ forge'[g].run = forge[g].run /\ forge'[g].finding = forge[g].finding
       /\ forge'[g].kind = forge[g].kind
       /\ forge[g].resolved => forge'[g].resolved

\* Workers that do not move keep what they hold.
LEMMA BystandersKeepIds ==
  ASSUME Grow, Tables, NEW x, HeldIds(x, threads, forge)
  PROVE  HeldIds(x, threads', forge')
<1>1. \A f \in DOMAIN x.posts : x.posts[f].gid # 0 =>
        x.posts[f].gid \in DOMAIN forge' /\ forge'[x.posts[f].gid].finding = f
  BY Zenon DEF HeldIds, Grow
<1>2. x.pc \in Resolving =>
        x.thread \in DOMAIN threads' /\ threads'[x.thread].finding = Min(DOMAIN x.settle)
  BY Zenon DEF HeldIds, HeldThread, Grow
<1>3. ASSUME x.pc = "mark" \/ (x.pc = "resolved" /\ x.answer = "ok")
      PROVE  forge'[threads'[x.thread].gid].resolved
  <2>1. x.thread \in DOMAIN threads /\ forge[threads[x.thread].gid].resolved
    BY <1>3, Zenon DEF HeldIds, HeldThread, Resolving
  <2>2. /\ threads[x.thread].gid \in DOMAIN forge
        /\ threads'[x.thread].gid = threads[x.thread].gid
    BY <2>1, Zenon DEF Tables, Grow
  <2> QED BY <2>1, <2>2, Zenon DEF Grow
<1> QED BY <1>1, <1>2, <1>3, Zenon DEF HeldIds, HeldThread

\* A step of the worker w alone.
Moves(w) ==
  /\ work' = [v \in Workers |-> work'[v]]
  /\ \A v \in Workers \ {w} : work'[v] = work[v]

\* The worker x has made the comment g and not yet put it on record.
Holds(x, g) ==
  g # 0 /\ \E f \in DOMAIN x.posts : x.posts[f].gid = g /\ x.posts[f].pc \in Unsaved

\* The finding f has a thread.
Known(ts, f) == \E d \in DOMAIN ts : ts[d].finding = f

\* A comment that is not on record stays with its worker, gets on record, or
\* is counted as cut off.
HandsOver ==
  /\ cut \subseteq cut'
  /\ \A v \in Workers, g \in DOMAIN forge : Holds(work[v], g) =>
       \/ forge[g].finding = 0 \/ Holds(work'[v], g) \/ g \in cut'
       \/ Known(threads', forge[g].finding)
  /\ \A g \in DOMAIN forge' \ DOMAIN forge :
       \/ forge'[g].finding = 0 \/ forge'[g].kind = "github" \/ g \in cut'
       \/ \E v \in Workers : Holds(work'[v], g)

\* The same for a step of the worker w.
HandsOverBy(w) ==
  /\ cut \subseteq cut'
  /\ \A g \in DOMAIN forge : Holds(work[w], g) =>
       \/ forge[g].finding = 0 \/ Holds(work'[w], g) \/ g \in cut'
       \/ Known(threads', forge[g].finding)
  /\ \A g \in DOMAIN forge' \ DOMAIN forge :
       \/ forge'[g].finding = 0 \/ forge'[g].kind = "github" \/ g \in cut'
       \/ Holds(work'[w], g)

\* A thread is marked as resolved when it is so on the forge, or by a command.
MarksWell ==
  /\ byCommand \subseteq byCommand'
  /\ \A d \in DOMAIN threads' : threads'[d].resolved =>
       \/ d \in DOMAIN threads /\ threads[d].resolved
       \/ d \in byCommand' \/ forge'[threads'[d].gid].resolved

\* A resolve action succeeds only if the thread is resolved on the forge.
ActsWell ==
  \A r, f : Succeeded(actions', r, f) =>
              Succeeded(actions, r, f) \/ ThreadIsResolved(f, threads, forge)

\* With one thread per finding the latest is the only one.
LEMMA ThreadOf ==
  ASSUME NEW ts, IsTable(ts), NEW f,
         \A d, e \in DOMAIN ts : ts[d].finding = ts[e].finding => d = e
  PROVE  /\ GetGitlabDiscussionByFinding(ts, f)
              = {d \in DOMAIN ts : ts[d].finding = f}
         /\ GetGitlabDiscussionByFinding(ts, f) # {} <=> Known(ts, f)
<1>1. \A d \in DOMAIN ts : d <= d
  <2>1. PICK S : ts \in Seq(S)  BY DEF IsTable
  <2> QED BY <2>1
<1>2. GetGitlabDiscussionByFinding(ts, f) = {d \in DOMAIN ts : ts[d].finding = f}
  BY <1>1, Zenon DEF GetGitlabDiscussionByFinding
<1> QED BY <1>2, Zenon DEF Known

\* Such a step keeps the books.
LEMMA BooksByTables ==
  ASSUME Books, Structure', Grow, HandsOver, MarksWell, ActsWell
  PROVE  Books'
<1>1. Structure /\ Tables /\ Tables'  BY Zenon DEF Books, Structure
<1>2. ResolveActionsAreTrue'
  <2> SUFFICES ASSUME NEW r, NEW f, Succeeded(actions', r, f)
               PROVE  ThreadIsResolved(f, threads', forge')
    BY Zenon DEF ResolveActionsAreTrue
  <2>1. ThreadIsResolved(f, threads, forge)
    BY Zenon DEF Books, ResolveActionsAreTrue, ActsWell
  <2> QED BY <1>1, <2>1, Zenon DEF ThreadIsResolved, Tables, Grow
<1>3. ResolvedRowsAreTrue'
  <2> SUFFICES ASSUME NEW d \in DOMAIN threads', threads'[d].resolved
               PROVE  forge'[threads'[d].gid].resolved \/ d \in byCommand'
    BY Zenon DEF ResolvedRowsAreTrue
  <2>1. CASE d \in DOMAIN threads /\ threads[d].resolved
    <3>1. forge[threads[d].gid].resolved \/ d \in byCommand
      BY <2>1, Zenon DEF Books, ResolvedRowsAreTrue
    <3>2. threads[d].gid \in DOMAIN forge /\ threads'[d].gid = threads[d].gid
      BY <1>1, <2>1, Zenon DEF Tables, Grow
    <3> QED BY <3>1, <3>2, Zenon DEF MarksWell, Grow
  <2> QED BY <2>1, Zenon DEF MarksWell
<1>4. ThreadsAreKnown'
  <2>1. /\ \A f : GetGitlabDiscussionByFinding(threads, f) # {} <=> Known(threads, f)
        /\ \A f : GetGitlabDiscussionByFinding(threads', f) # {} <=> Known(threads', f)
    BY <1>1, ThreadOf, Zenon DEF Tables
  <2>2. /\ \A v, g : g \in Unrecorded(v) <=> Holds(work[v], g)
        /\ \A v, g : g \in Unrecorded(v)' <=> Holds(work'[v], g)
    BY Zenon DEF Unrecorded, Holds, Unsaved
  <2> SUFFICES ASSUME NEW g \in DOMAIN forge', forge'[g].finding # 0,
                      forge'[g].kind # "github", g \notin cut',
                      \A v \in Workers : ~Holds(work'[v], g)
               PROVE  Known(threads', forge'[g].finding)
    BY <2>1, <2>2, Zenon DEF ThreadsAreKnown
  <2>3. g \in DOMAIN forge /\ g \notin cut  BY Zenon DEF HandsOver
  <2>4. forge'[g].finding = forge[g].finding /\ forge'[g].kind = forge[g].kind
    BY <2>3, Zenon DEF Grow
  <2>5. CASE \E v \in Workers : Holds(work[v], g)
    BY <2>3, <2>4, <2>5, Zenon DEF HandsOver
  <2>6. CASE \A v \in Workers : ~Holds(work[v], g)
    <3>1. Known(threads, forge[g].finding)
      BY <2>1, <2>2, <2>3, <2>4, <2>6, Zenon DEF Books, ThreadsAreKnown
    <3> QED BY <2>4, <3>1, Zenon DEF Grow, Known
  <2> QED BY <2>5, <2>6, Zenon
<1> QED BY <1>2, <1>3, <1>4, Zenon DEF Books

\* Such a step of one worker.
LEMMA BooksByStep ==
  ASSUME Books, NEW w \in Workers, Moves(w), Tables', Grow,
         WorkerShape(work'[w]), HeldIds(work'[w], threads', forge'),
         HandsOverBy(w), MarksWell, ActsWell
  PROVE  Books'
<1>1. Structure /\ Tables  BY Zenon DEF Books, Structure
<1>2. Structure'
  <2>1. ASSUME NEW v \in Workers
        PROVE  WorkerShape(work'[v]) /\ HeldIds(work'[v], threads', forge')
    <3>1. CASE v # w
      <4>1. work'[v] = work[v]  BY <3>1, Zenon DEF Moves
      <4>2. WorkerShape(work[v]) /\ HeldIds(work[v], threads, forge)
        BY <1>1, Zenon DEF Structure
      <4> QED BY <1>1, <4>1, <4>2, BystandersKeepIds, Zenon
    <3> QED BY <3>1, Zenon
  <2> QED BY <2>1, Zenon DEF Structure, Moves
<1>3. HandsOver  BY Zenon DEF HandsOver, HandsOverBy, Moves
<1> QED BY <1>2, <1>3, BooksByTables, Zenon

\* Such a step of no worker.
LEMMA BooksAside ==
  ASSUME Books, UNCHANGED <<work, cut>>, Tables', Grow, DOMAIN forge' = DOMAIN forge,
         MarksWell, ActsWell
  PROVE  Books'
<1>1. Structure /\ Tables /\ work' = work /\ cut' = cut  BY Zenon DEF Books, Structure
<1>2. Structure'
  <2>1. ASSUME NEW v \in Workers
        PROVE  WorkerShape(work[v]) /\ HeldIds(work[v], threads', forge')
    BY <1>1, BystandersKeepIds, Zenon DEF Structure
  <2> QED BY <1>1, <2>1, Zenon DEF Structure
<1>3. HandsOver  BY <1>1, Zenon DEF HandsOver
<1> QED BY <1>2, <1>3, BooksByTables, Zenon

\* Steps that write neither to gitlab_discussions nor to the forge.
LEMMA UnchangedTables ==
  ASSUME Tables, UNCHANGED <<threads, forge>>
  PROVE  Tables' /\ Grow
<1>1. threads' = threads /\ forge' = forge  OBVIOUS
<1> QED BY <1>1, Zenon DEF Tables, Grow

\* A comment is made.
LEMMA CommentMade ==
  ASSUME Tables, NEW c, Has(c, CommentFields), forge' = Append(forge, c),
         UNCHANGED threads
  PROVE  Tables' /\ Grow /\ Adds(forge, forge', c)
<1>1. Adds(forge, forge', c)  BY AppendFacts, Zenon DEF Tables
<1>2. threads' = threads  OBVIOUS
<1>3. Grow  BY <1>1, <1>2, Zenon DEF Adds, Grow
<1>4. Tables'  BY <1>1, <1>2, Zenon DEF Adds, Tables
<1> QED BY <1>1, <1>3, <1>4, Zenon

\* Steps that mark no thread.
LEMMA QuietMarks ==
  ASSUME UNCHANGED <<threads, byCommand>>
  PROVE  MarksWell
<1>1. threads' = threads /\ byCommand' = byCommand  OBVIOUS
<1> QED BY <1>1, Zenon DEF MarksWell

\* The statements on comment_actions that close no resolve action.
QuietStatement ==
  \/ UNCHANGED actions
  \/ \E k : actions' = InsertCommentAction(actions, k)
  \/ \E k, st : /\ actions' = UpdateCommentActionStatus(actions, k, st)
                /\ st # "succeeded" \/ \A r, f : k # Key(r, f, "resolve")

\* Such statements on comment_actions leave the resolved findings resolved.
LEMMA QuietActions ==
  ASSUME QuietStatement
  PROVE  ActsWell
<1>1. CASE UNCHANGED actions  BY <1>1, Zenon DEF ActsWell
<1>2. ASSUME NEW k, actions' = InsertCommentAction(actions, k) PROVE ActsWell
  <2>1. "pending" # "succeeded"  OBVIOUS
  <2>2. \A j : GetCommentActionByIdempotencyKey(actions', j) = "succeeded" =>
               GetCommentActionByIdempotencyKey(actions, j) = "succeeded"
    BY <1>2, <2>1, Zenon DEF InsertCommentAction, GetCommentActionByIdempotencyKey
  <2> QED BY <2>2, Zenon DEF ActsWell, Succeeded
<1>3. ASSUME NEW k, NEW st, actions' = UpdateCommentActionStatus(actions, k, st),
             st # "succeeded" \/ \A r, f : k # Key(r, f, "resolve")
      PROVE  ActsWell
  <2>1. \A j : GetCommentActionByIdempotencyKey(actions', j) = "succeeded" =>
               \/ GetCommentActionByIdempotencyKey(actions, j) = "succeeded"
               \/ j = k /\ st = "succeeded"
    BY <1>3, Zenon DEF GetCommentActionByIdempotencyKey, UpdateCommentActionStatus
  <2>2. ASSUME NEW r, NEW f, Succeeded(actions', r, f) PROVE Succeeded(actions, r, f)
    <3> DEFINE j == Key(r, f, "resolve")
    <3>1. j = k => st # "succeeded"  BY <1>3, Zenon
    <3>2. GetCommentActionByIdempotencyKey(actions', j) = "succeeded"
      BY <2>2, Zenon DEF Succeeded
    <3> HIDE DEF j
    <3>3. GetCommentActionByIdempotencyKey(actions, j) = "succeeded"
      BY <2>1, <3>1, <3>2, Zenon
    <3> QED BY <3>3, Zenon DEF Succeeded, j
  <2> QED BY <2>2, Zenon DEF ActsWell
<1> QED BY <1>1, <1>2, <1>3, Zenon DEF QuietStatement

\* Where there are no goroutines there is nothing to record.
LEMMA NothingHeld ==
  ASSUME NEW x, WorkerShape(x), x.pc # "posting"
  PROVE  \A g : ~Holds(x, g)
BY Zenon DEF WorkerShape, Holds

\* A worker moves on that is not at the forge.
LEMMA QuietStep ==
  ASSUME Books, NEW w \in Workers, Moves(w),
         Has(work'[w], WorkFields), work'[w].posts = work[w].posts,
         work[w].pc # "posting", work'[w].pc \notin Resolving \cup {"posting"},
         UNCHANGED <<threads, forge, byCommand, cut>>, QuietStatement
  PROVE  Books'
<1>1. Tables /\ WorkerShape(work[w])  BY Zenon DEF Books, Structure
<1>2. threads' = threads /\ forge' = forge /\ cut' = cut  OBVIOUS
<1>3. WorkerShape(work'[w])  BY <1>1, Zenon DEF WorkerShape
<1>4. DOMAIN work'[w].posts = {}  BY <1>1, Zenon DEF WorkerShape
<1>5. HeldIds(work'[w], threads', forge')  BY <1>4, Zenon DEF HeldIds, HeldThread, Resolving
<1>6. HandsOverBy(w)  BY <1>1, <1>2, NothingHeld, Zenon DEF HandsOverBy
<1>7. Tables' /\ Grow  BY <1>1, UnchangedTables, Zenon
<1>8. MarksWell /\ ActsWell  BY QuietMarks, QuietActions, Zenon
<1> QED BY <1>3, <1>5, <1>6, <1>7, <1>8, BooksByStep, Zenon

\* A worker leaves; what it had not put on record is counted as cut off.
LEMMA LeavingStep ==
  ASSUME Books, NEW w \in Workers, work' = [work EXCEPT ![w] = Idle],
         Tables', Grow, cut \subseteq cut',
         \A g : Holds(work[w], g) => g \in cut',
         \A g \in DOMAIN forge' \ DOMAIN forge : g \in cut',
         UNCHANGED <<threads, byCommand>>, QuietStatement
  PROVE  Books'
<1>1. Moves(w) /\ work'[w] = Idle  BY Zenon DEF Books, Structure, Moves
<1>2. /\ Has(Idle, WorkFields) /\ Idle.pc = "idle"
      /\ Idle.posts = NoCopy /\ IsFunction(NoCopy) /\ DOMAIN NoCopy = {}
  BY Zenon DEF Idle, Has, WorkFields, NoCopy, IsFunction
<1>3. WorkerShape(work'[w])  BY <1>1, <1>2, Zenon DEF WorkerShape
<1>4. HeldIds(work'[w], threads', forge')
  BY <1>1, <1>2, Zenon DEF HeldIds, HeldThread, Resolving
<1>5. HandsOverBy(w)  BY Zenon DEF HandsOverBy
<1>6. MarksWell /\ ActsWell  BY QuietMarks, QuietActions, Zenon
<1> QED BY <1>1, <1>3, <1>4, <1>5, <1>6, BooksByStep, Zenon

-----------------------------------------------------------------------------
(* Persisting the result                                                   *)

\* The six statements of the deduplication touch no thread and no comment.
LEMMA DedupBooks ==
  ASSUME Books, NEW w \in Workers, DedupStep(w), UNCHANGED <<writerVars, byCommand>>
  PROVE  Books'
<1> DEFINE x == work[w]  y == work'[w]
           quiet == /\ Moves(w) /\ Has(y, WorkFields) /\ y.posts = x.posts
                    /\ x.pc \in {"list", "match", "supersede", "status"}
                    /\ y.pc \in {"match", "supersede", "status", "writeback"}
                    /\ UNCHANGED threads /\ QuietStatement
<1>1. work = [v \in Workers |-> work[v]] /\ Has(x, WorkFields)
  BY Zenon DEF Books, Structure, WorkerShape
<1>2. ASSUME ListExisting(w) PROVE quiet
  <2>1. /\ x.pc = "list" /\ Moves(w) /\ UNCHANGED <<threads, actions>>
        /\ y = [x EXCEPT !.pc = "match", !.existing = ListActiveFindingsByMR(findings),
                         !.todo = persisted(x.report)]
    BY <1>1, <1>2, Zenon DEF ListExisting, At, storeVars, Moves
  <2> QED BY <1>1, <2>1, Zenon DEF Has, WorkFields, QuietStatement
<1>3. ASSUME MatchFinding(w) PROVE quiet
  <2>1. x.pc = "match" /\ UNCHANGED <<threads, actions>>
    BY <1>3, Zenon DEF MatchFinding, At
  <2>2. \/ work' = [work EXCEPT ![w].todo = @ \ {Min(@)}]
        \/ \E n, d : Decide(w, n, d)
    BY <1>3, Zenon DEF MatchFinding
  <2>3. ASSUME work' = [work EXCEPT ![w].todo = @ \ {Min(@)}] PROVE quiet
    <3>1. Moves(w) /\ y = [x EXCEPT !.todo = @ \ {Min(@)}]
      BY <1>1, <2>3, Zenon DEF Moves
    <3> QED BY <1>1, <2>1, <3>1, Zenon DEF Has, WorkFields, QuietStatement
  <2>4. ASSUME NEW n, NEW d, Decide(w, n, d) PROVE quiet
    <3> DEFINE todo == x.todo \ {Min(x.todo)}
               matched == IF d.id = 0 THEN x.matched ELSE x.matched \cup {d.id}
               ids == IF d.id = 0 THEN <<>> ELSE <<d.id, Len(findings) + 1>>
    <3>1. /\ Moves(w)
          /\ \/ y = [x EXCEPT !.todo = todo, !.matched = matched]
             \/ y = [x EXCEPT !.todo = todo, !.matched = matched, !.replaced = ids,
                              !.pc = IF d.id = 0 THEN "match" ELSE "supersede"]
      BY <1>1, <2>4, Zenon DEF Decide, Moves
    <3> HIDE DEF todo, matched, ids
    <3> QED BY <1>1, <2>1, <3>1, Zenon DEF Has, WorkFields, QuietStatement
  <2> QED BY <2>2, <2>3, <2>4, Zenon
<1>4. ASSUME SupersedeFinding(w) PROVE quiet
  <2>1. /\ x.pc = "supersede" /\ Moves(w) /\ UNCHANGED <<threads, actions>>
        /\ y = [x EXCEPT !.pc = "match", !.replaced = <<>>]
    BY <1>1, <1>4, Zenon DEF SupersedeFinding, At, Moves
  <2> QED BY <1>1, <2>1, Zenon DEF Has, WorkFields, QuietStatement
<1>5. ASSUME MissingFinding(w) PROVE quiet
  <2>1. /\ x.pc = "match" /\ Moves(w) /\ UNCHANGED <<threads, actions>>
        /\ \E a : y = [x EXCEPT !.matched = a]
    BY <1>1, <1>5, Zenon DEF MissingFinding, At, Moves
  <2> QED BY <1>1, <2>1, Zenon DEF Has, WorkFields, QuietStatement
<1>6. ASSUME LoadOutcome(w) PROVE quiet
  <2>1. /\ x.pc = "match" /\ Moves(w) /\ UNCHANGED threads
        /\ UNCHANGED actions \/ \E k : actions' = InsertCommentAction(actions, k)
        /\ \E a : y = [x EXCEPT !.pc = "status", !.outcome = a]
    BY <1>1, <1>6, Zenon DEF LoadOutcome, At, Moves
  <2> QED BY <1>1, <2>1, Zenon DEF Has, WorkFields, QuietStatement
<1>7. ASSUME PersistStatus(w) PROVE quiet
  <2>1. /\ x.pc = "status" /\ Moves(w) /\ UNCHANGED <<threads, actions>>
        /\ y = [x EXCEPT !.pc = "writeback"]
    BY <1>1, <1>7, Zenon DEF PersistStatus, At, storeVars, Moves
  <2> QED BY <1>1, <2>1, Zenon DEF Has, WorkFields, QuietStatement
<1>8. quiet
  BY <1>2, <1>3, <1>4, <1>5, <1>6, <1>7, Zenon DEF DedupStep
<1>9. UNCHANGED <<forge, cut, byCommand>>  BY DEF writerVars
<1> QED BY <1>8, <1>9, QuietStep, Zenon DEF Resolving

-----------------------------------------------------------------------------
(* The goroutines                                                          *)

\* What is known of a goroutine.
LEMMA PostFacts ==
  ASSUME Books, NEW w \in Workers, NEW f \in DOMAIN work[w].posts
  PROVE  /\ work[w].pc = "posting" /\ Tables /\ PostShape(f, work[w].posts[f])
         /\ work[w].posts[f].gid # 0 => /\ work[w].posts[f].gid \in DOMAIN forge
                                        /\ forge[work[w].posts[f].gid].finding = f
BY Zenon DEF Books, Structure, WorkerShape, HeldIds

\* One goroutine of a worker goes on, the others stay.
PostTurns(w, f, q) ==
  /\ Moves(w) /\ Has(work'[w], WorkFields) /\ IsFunction(work'[w].posts)
  /\ work'[w].pc = work[w].pc /\ work'[w].run = work[w].run
  /\ DOMAIN work'[w].posts = DOMAIN work[w].posts /\ work'[w].posts[f] = q
  /\ \A g \in DOMAIN work[w].posts \ {f} : work'[w].posts[g] = work[w].posts[g]

\* A goroutine that goes on leaves the others as they are.
LEMMA GoesFacts ==
  ASSUME Books, NEW w \in Workers, NEW f \in DOMAIN work[w].posts, NEW q, Goes(w, f, q)
  PROVE  PostTurns(w, f, q)
<1> DEFINE x == work[w]  y == work'[w]  posts == [x.posts EXCEPT ![f] = q]
<1>1. /\ work = [v \in Workers |-> work[v]] /\ Has(x, WorkFields)
      /\ IsFunction(x.posts)
  BY Zenon DEF Books, Structure, WorkerShape
<1>2. Moves(w) /\ y = [x EXCEPT !.posts = posts]  BY <1>1, Zenon DEF Goes, Moves
<1>3. /\ IsFunction(posts) /\ DOMAIN posts = DOMAIN x.posts /\ posts[f] = q
      /\ \A g \in DOMAIN x.posts \ {f} : posts[g] = x.posts[g]
  BY <1>1, Zenon DEF IsFunction
<1> HIDE DEF posts
<1>4. Has(y, WorkFields) /\ y.posts = posts /\ y.pc = x.pc /\ y.run = x.run
  BY <1>1, <1>2, Zenon DEF Has, WorkFields
<1> QED BY <1>2, <1>3, <1>4, Zenon DEF PostTurns

\* A goroutine goes on: what it had made it still has, or it is on record.
LEMMA BooksByPost ==
  ASSUME Books, NEW w \in Workers, NEW f \in DOMAIN work[w].posts, NEW q, Goes(w, f, q),
         PostShape(f, q),
         q.gid # 0 => q.gid \in DOMAIN forge' /\ forge'[q.gid].finding = f,
         Tables', Grow, MarksWell, QuietStatement, cut \subseteq cut',
         \/ f = 0 \/ work[w].posts[f].gid = 0 \/ work[w].posts[f].pc \notin Unsaved
         \/ q.gid = work[w].posts[f].gid /\ q.pc \in Unsaved
         \/ Known(threads', f),
         \A g \in DOMAIN forge' \ DOMAIN forge :
           g \in cut' \/ (g # 0 /\ q.gid = g /\ q.pc = "final")
  PROVE  Books'
<1> DEFINE x == work[w]  y == work'[w]
<1>0. PostTurns(w, f, q)  BY GoesFacts, Zenon
<1>1. /\ Moves(w) /\ Has(y, WorkFields) /\ IsFunction(y.posts) /\ y.pc = x.pc
      /\ DOMAIN y.posts = DOMAIN x.posts /\ y.posts[f] = q
      /\ \A g \in DOMAIN x.posts \ {f} : y.posts[g] = x.posts[g]
  BY <1>0, Zenon DEF PostTurns
<1>2. /\ Structure /\ Tables /\ WorkerShape(x) /\ HeldIds(x, threads, forge)
      /\ x.pc = "posting"
  BY PostFacts, Zenon DEF Books, Structure
<1>3. WorkerShape(y)  BY <1>1, <1>2, Zenon DEF WorkerShape
<1>4. HeldIds(y, threads', forge')
  <2>1. ASSUME NEW g \in DOMAIN y.posts, y.posts[g].gid # 0
        PROVE  y.posts[g].gid \in DOMAIN forge' /\ forge'[y.posts[g].gid].finding = g
    <3>1. CASE g # f
      <4>1. y.posts[g] = x.posts[g] /\ g \in DOMAIN x.posts  BY <1>1, <3>1, Zenon
      <4>2. x.posts[g].gid \in DOMAIN forge /\ forge[x.posts[g].gid].finding = g
        BY <1>2, <2>1, <4>1, Zenon DEF HeldIds
      <4> QED BY <4>1, <4>2, Zenon DEF Grow
    <3> QED BY <1>1, <2>1, <3>1, Zenon
  <2> QED BY <1>1, <1>2, <2>1, Zenon DEF HeldIds, HeldThread, Resolving
<1>5. HandsOverBy(w)
  <2>1. ASSUME NEW g \in DOMAIN forge, Holds(x, g)
        PROVE  \/ forge[g].finding = 0 \/ Holds(y, g) \/ Known(threads', forge[g].finding)
    <3>1. PICK h \in DOMAIN x.posts : x.posts[h].gid = g /\ x.posts[h].pc \in Unsaved
      BY <2>1, Zenon DEF Holds
    <3>2. g # 0 /\ forge[g].finding = h  BY <1>2, <2>1, <3>1, Zenon DEF Holds, HeldIds
    <3>3. CASE h # f  BY <1>1, <3>1, <3>2, <3>3, Zenon DEF Holds
    <3>4. CASE h = f  BY <1>1, <3>1, <3>2, <3>4, Zenon DEF Holds
    <3> QED BY <3>3, <3>4, Zenon
  <2>2. \A g \in DOMAIN forge' \ DOMAIN forge : g \in cut' \/ Holds(y, g)
    BY <1>1, Zenon DEF Holds, Unsaved
  <2> QED BY <2>1, <2>2, Zenon DEF HandsOverBy
<1>6. ActsWell  BY QuietActions, Zenon
<1> QED BY <1>1, <1>3, <1>4, <1>5, <1>6, BooksByStep, Zenon

\* A worker gives up, and its goroutines with it.
LEMMA BooksByAbandon ==
  ASSUME Books, NEW w \in Workers, Abandon(w), UNCHANGED <<threads, forge, byCommand>>,
         QuietStatement
  PROVE  Books'
<1>1. Tables' /\ Grow  BY UnchangedTables, Zenon DEF Books, Structure
<1>2. \A g : Holds(work[w], g) => g \in Unrecorded(w)
  BY Zenon DEF Holds, Unrecorded, Unsaved
<1>3. DOMAIN forge' = DOMAIN forge  BY Zenon
<1> QED BY <1>1, <1>2, <1>3, LeavingStep, Zenon DEF Abandon

\* CheckPost.
LEMMA CheckPostBooks ==
  ASSUME Books, NEW w \in Workers, NEW f \in DOMAIN work[w].posts, CheckPost(w, f),
         UNCHANGED byCommand
  PROVE  Books'
<1> DEFINE p == work[w].posts[f]
<1>1. PostShape(f, p) /\ Tables  BY PostFacts, Zenon
<1>2. /\ p.pc = "check" /\ UNCHANGED <<threads, actions, forge, cut>>
      /\ \E l \in {"done", "ensure"} : Goes(w, f, [p EXCEPT !.pc = l])
  BY Zenon DEF CheckPost, storeVars, writerVars
<1>3. PICK l \in {"done", "ensure"} : Goes(w, f, [p EXCEPT !.pc = l])  BY <1>2, Zenon
<1> DEFINE q == [p EXCEPT !.pc = l]
<1>4. /\ Has(q, PostFields) /\ q.pc = l /\ q.kind = p.kind /\ q.gid = p.gid
  BY <1>1, Zenon DEF PostShape, Has, PostFields
<1>5. Goes(w, f, q)  BY <1>3, Zenon
<1>6. p.gid = 0  BY <1>1, <1>2, Zenon DEF PostShape, Unwritten
<1> HIDE DEF q
<1>7. PostShape(f, q)  BY <1>1, <1>4, <1>6, Zenon DEF PostShape
<1>8. Tables' /\ Grow /\ MarksWell /\ QuietStatement
  BY <1>1, <1>2, UnchangedTables, QuietMarks, Zenon DEF QuietStatement
<1>9. cut \subseteq cut' /\ DOMAIN forge' = DOMAIN forge  BY <1>2, Zenon
<1> QED BY <1>4, <1>5, <1>6, <1>7, <1>8, <1>9, BooksByPost, Zenon

\* ensureAction: the action is known to have succeeded, or is inserted.
LEMMA ensureActionBooks ==
  ASSUME Books, NEW w \in Workers, NEW f \in DOMAIN work[w].posts, ensureAction(w, f),
         UNCHANGED byCommand
  PROVE  Books'
<1> DEFINE p == work[w].posts[f]
           q1 == [p EXCEPT !.pc = "done"]
           q2 == [p EXCEPT !.pc = "call", !.tries = 0]
<1>1. PostShape(f, p) /\ Tables  BY PostFacts, Zenon
<1>2. /\ p.pc = "ensure" /\ UNCHANGED <<threads, forge, byCommand>>
      /\ \/ Goes(w, f, q1) /\ UNCHANGED cut
         \/ Goes(w, f, q2) /\ UNCHANGED cut
         \/ Abandon(w)
      /\ UNCHANGED actions \/ \E k : actions' = InsertCommentAction(actions, k)
  BY Zenon DEF ensureAction
<1>3. /\ Has(q1, PostFields) /\ q1.pc = "done" /\ q1.kind = p.kind /\ q1.gid = p.gid
      /\ Has(q2, PostFields) /\ q2.pc = "call" /\ q2.kind = p.kind /\ q2.gid = p.gid
  BY <1>1, Zenon DEF PostShape, Has, PostFields
<1>4. p.gid = 0  BY <1>1, <1>2, Zenon DEF PostShape, Unwritten
<1> HIDE DEF q1, q2
<1>5. PostShape(f, q1) /\ PostShape(f, q2)  BY <1>1, <1>3, <1>4, Zenon DEF PostShape
<1>6. QuietStatement  BY <1>2, Zenon DEF QuietStatement
<1>7. Tables' /\ Grow /\ MarksWell /\ DOMAIN forge' = DOMAIN forge
  BY <1>1, <1>2, UnchangedTables, QuietMarks, Zenon
<1>8. CASE (Goes(w, f, q1) \/ Goes(w, f, q2)) /\ UNCHANGED cut
  BY <1>3, <1>4, <1>5, <1>6, <1>7, <1>8, BooksByPost, Zenon
<1>9. CASE Abandon(w)  BY <1>2, <1>6, <1>9, BooksByAbandon, Zenon
<1> QED BY <1>2, <1>8, <1>9, Zenon

\* CallForge: a comment is made and known, or the attempt fails, and then a
\* comment that was made all the same is counted as cut off.
LEMMA CallForgeBooks ==
  ASSUME Books, NEW w \in Workers, NEW f \in DOMAIN work[w].posts, CallForge(w, f),
         UNCHANGED byCommand
  PROVE  Books'
<1> DEFINE p == work[w].posts[f]
           c == [run |-> work[w].run, finding |-> f, kind |-> p.kind,
                 resolved |-> FALSE]
           gid == Len(forge) + 1
           made == Append(forge, c)
           q == [p EXCEPT !.pc = "final", !.answer = "ok", !.gid = gid]
<1>1. PostShape(f, p) /\ Tables  BY PostFacts, Zenon
<1>2. /\ p.pc = "call" /\ UNCHANGED <<threads, actions, byCommand>>
      /\ \/ forge' = made /\ UNCHANGED cut /\ Goes(w, f, q)
         \/ \E e \in WriteErrors :
              /\ Goes(w, f, retryWrite(p, e))
              /\ \/ UNCHANGED <<forge, cut>>
                 \/ forge' = made /\ cut' = cut \cup {gid}
  BY Zenon DEF CallForge, storeVars
<1>3. p.gid = 0  BY <1>1, <1>2, Zenon DEF PostShape, Unwritten
<1>4. Has(c, CommentFields) /\ c.finding = f  BY Zenon DEF Has, CommentFields
<1>5. /\ Has(q, PostFields) /\ q.pc = "final" /\ q.answer = "ok"
      /\ q.kind = p.kind /\ q.gid = gid
  BY <1>1, Zenon DEF PostShape, Has, PostFields
<1> HIDE DEF c, q
<1>6. QuietStatement /\ MarksWell  BY <1>2, QuietMarks, Zenon DEF QuietStatement
<1>7. ASSUME forge' = made
      PROVE  /\ Tables' /\ Grow /\ gid # 0 /\ forge'[gid] = c
             /\ DOMAIN forge' = DOMAIN forge \cup {gid}
  <2>1. Tables' /\ Grow /\ Adds(forge, forge', c)
    BY <1>1, <1>2, <1>4, <1>7, CommentMade, Zenon
  <2> QED BY <2>1, Zenon DEF Adds
<1> HIDE DEF made, gid
<1>8. CASE forge' = made /\ UNCHANGED cut /\ Goes(w, f, q)
  <2>1. PostShape(f, q)  BY <1>1, <1>5, <1>7, <1>8, Zenon DEF PostShape, Unwritten
  <2> QED BY <1>3, <1>4, <1>5, <1>6, <1>7, <1>8, <2>1, BooksByPost, Zenon
<1>9. ASSUME NEW e \in WriteErrors, Goes(w, f, retryWrite(p, e)),
             \/ UNCHANGED <<forge, cut>>
             \/ forge' = made /\ cut' = cut \cup {gid}
      PROVE  Books'
  <2> DEFINE r == retryWrite(p, e)
  <2>1. /\ Has(r, PostFields) /\ r.kind = p.kind /\ r.gid = p.gid
        /\ \/ r.pc = p.pc
           \/ /\ r.pc = "final" /\ r.answer \in {"position", "refused"}
              /\ r.answer = "position" => p.kind \in {"diff", "file"}
    <3>1. DOMAIN Fallback = {"diff", "file"}  BY Zenon DEF Fallback
    <3>2. Has(p, PostFields)  BY <1>1, Zenon DEF PostShape
    <3> HIDE DEF p
    <3>3. CASE r = [p EXCEPT !.tries = @ + 1]
      BY <3>2, <3>3, Zenon DEF Has, PostFields
    <3>4. ASSUME NEW a \in {"position", "refused"},
                 a = "position" => p.kind \in {"diff", "file"},
                 r = [p EXCEPT !.pc = "final", !.answer = a]
          PROVE  /\ Has(r, PostFields) /\ r.kind = p.kind /\ r.gid = p.gid
                 /\ r.pc = "final" /\ r.answer = a
      BY <3>2, <3>4, Zenon DEF Has, PostFields
    <3> QED BY <3>1, <3>3, <3>4, Zenon DEF retryWrite
  <2>2. Goes(w, f, r)  BY <1>9, Zenon
  <2> HIDE DEF r
  <2>3. PostShape(f, r)
    BY <1>1, <1>2, <1>3, <2>1, Zenon DEF PostShape, Unwritten
  <2>4. CASE UNCHANGED <<forge, cut>>
    <3>1. Tables' /\ Grow /\ DOMAIN forge' = DOMAIN forge /\ cut' = cut
      BY <1>1, <1>2, <2>4, UnchangedTables, Zenon
    <3> QED BY <1>3, <1>6, <2>1, <2>2, <2>3, <3>1, BooksByPost, Zenon
  <2>5. CASE forge' = made /\ cut' = cut \cup {gid}
    BY <1>3, <1>6, <1>7, <2>1, <2>2, <2>3, <2>5, BooksByPost, Zenon
  <2> QED BY <1>9, <2>4, <2>5, Zenon
<1> QED BY <1>2, <1>8, <1>9, Zenon

\* No goroutine resolves a thread.
LEMMA PostKeys ==
  ASSUME NEW f, NEW p, PostShape(f, p), NEW r
  PROVE  \A s, g : Key(r, f, p.kind) # Key(s, g, "resolve")
<1> DEFINE k == p.kind
<1>1. k \in PostKinds  BY Zenon DEF PostShape
<1>2. k # "resolve"  BY <1>1 DEF PostKinds
<1> HIDE DEF k
<1>3. \A s, g : <<r, f, k>> # <<s, g, "resolve">>  BY <1>2
<1> QED BY <1>3, Zenon DEF Key, k

\* finalizeAction: the comment is kept, the next form of it is tried, or the
\* worker gives up.
LEMMA finalizeActionBooks ==
  ASSUME Books, NEW w \in Workers, NEW f \in DOMAIN work[w].posts, finalizeAction(w, f),
         UNCHANGED byCommand
  PROVE  Books'
<1> DEFINE p == work[w].posts[f]
           l == IF f = 0 THEN "done" ELSE "row"
           q1 == [p EXCEPT !.pc = l]
           kd == Fallback[p.kind]
           q2 == [p EXCEPT !.pc = "ensure", !.kind = kd, !.answer = ""]
<1>1. /\ PostShape(f, p) /\ Tables
      /\ p.gid # 0 => p.gid \in DOMAIN forge /\ forge[p.gid].finding = f
  BY PostFacts, Zenon
<1>2. /\ p.pc = "final" /\ UNCHANGED <<threads, forge, byCommand>>
      /\ \/ p.answer = "ok" /\ Goes(w, f, q1) /\ UNCHANGED cut
         \/ p.answer = "position" /\ Goes(w, f, q2) /\ UNCHANGED cut
         \/ Abandon(w)
      /\ \E st : actions' = UpdateCommentActionStatus(actions,
                              Key(work[w].run, f, p.kind), st)
  BY Zenon DEF finalizeAction
<1>3. /\ Has(q1, PostFields) /\ q1.pc = l /\ q1.kind = p.kind /\ q1.gid = p.gid
      /\ Has(q2, PostFields) /\ q2.pc = "ensure" /\ q2.kind = kd /\ q2.gid = p.gid
  BY <1>1, Zenon DEF PostShape, Has, PostFields
<1>4. /\ (f = 0 /\ l = "done") \/ (f # 0 /\ l = "row")
      /\ p.kind \in {"diff", "file"} => kd \in {"file", "note"}
  <2>1. Fallback["diff"] = "file" /\ Fallback["file"] = "note"  BY Zenon DEF Fallback
  <2> QED BY <2>1, Zenon
<1> HIDE DEF q1, q2, kd, l
<1>5. QuietStatement
  <2>1. \A s, g : Key(work[w].run, f, p.kind) # Key(s, g, "resolve")
    BY <1>1, PostKeys, Zenon
  <2> QED BY <1>2, <2>1, Zenon DEF QuietStatement
<1>6. Tables' /\ Grow /\ MarksWell /\ forge' = forge
  BY <1>1, <1>2, UnchangedTables, QuietMarks, Zenon
<1>7. CASE p.answer = "ok" /\ Goes(w, f, q1) /\ UNCHANGED cut
  <2>1. PostShape(f, q1) /\ (f = 0 \/ q1.pc \in Unsaved)
    BY <1>1, <1>2, <1>3, <1>4, <1>7, Zenon DEF PostShape, Unwritten, Unsaved
  <2> QED BY <1>1, <1>3, <1>5, <1>6, <1>7, <2>1, BooksByPost, Zenon
<1>8. CASE p.answer = "position" /\ Goes(w, f, q2) /\ UNCHANGED cut
  <2>1. p.gid = 0 /\ p.kind \in {"diff", "file"}
    BY <1>1, <1>2, <1>8, Zenon DEF PostShape
  <2>2. f # 0  BY <1>1, <2>1, Zenon DEF PostShape
  <2>3. PostShape(f, q2)
    BY <1>3, <1>4, <2>1, <2>2, Zenon DEF PostShape, PostKinds
  <2> QED BY <1>3, <1>5, <1>6, <1>8, <2>1, <2>3, BooksByPost, Zenon
<1>9. CASE Abandon(w)  BY <1>2, <1>5, <1>9, BooksByAbandon, Zenon
<1> QED BY <1>2, <1>7, <1>8, <1>9, Zenon

\* persistDiscussion: the finding has a discussion, or gets one.
LEMMA persistDiscussionBooks ==
  ASSUME Books, NEW w \in Workers, NEW f \in DOMAIN work[w].posts,
         persistDiscussion(w, f), UNCHANGED byCommand
  PROVE  Books'
<1> DEFINE p == work[w].posts[f]
           t == [finding |-> f, gid |-> p.gid, type |-> p.kind, resolved |-> FALSE,
                 superseded_by |-> 0]
           q1 == [p EXCEPT !.pc = "done"]
           q2 == [p EXCEPT !.pc = "link"]
<1>1. /\ PostShape(f, p) /\ Tables
      /\ p.gid # 0 => p.gid \in DOMAIN forge /\ forge[p.gid].finding = f
  BY PostFacts, Zenon
<1>2. GetGitlabDiscussionByFinding(threads, f) # {} <=> Known(threads, f)
  BY <1>1, ThreadOf, Zenon DEF Tables
<1>3. /\ p.pc = "row" /\ UNCHANGED <<actions, forge, cut, byCommand>>
      /\ \/ Known(threads, f) /\ threads' = threads /\ Goes(w, f, q1)
         \/ ~Known(threads, f) /\ threads' = Append(threads, t) /\ Goes(w, f, q2)
  BY <1>2, Zenon DEF persistDiscussion, writerVars, InsertGitlabDiscussion,
                     GetGitlabDiscussionByMergeRequestAndFinding
<1>4. /\ Has(q1, PostFields) /\ q1.pc = "done" /\ q1.kind = p.kind /\ q1.gid = p.gid
      /\ Has(q2, PostFields) /\ q2.pc = "link" /\ q2.kind = p.kind /\ q2.gid = p.gid
  BY <1>1, Zenon DEF PostShape, Has, PostFields
<1>5. /\ Has(t, ThreadFields) /\ t.finding = f /\ t.gid = p.gid /\ ~t.resolved
  BY Zenon DEF Has, ThreadFields
<1> HIDE DEF q1, q2, t
<1>6. p.gid # 0 /\ f # 0  BY <1>1, <1>3, Zenon DEF PostShape
<1>7. PostShape(f, q1) /\ PostShape(f, q2)
  BY <1>1, <1>4, <1>6, Zenon DEF PostShape, Unwritten
<1>8. QuietStatement /\ forge' = forge  BY <1>3, Zenon DEF QuietStatement
<1>9. CASE Known(threads, f) /\ threads' = threads /\ Goes(w, f, q1)
  <2>1. Tables' /\ Grow /\ MarksWell
    BY <1>1, <1>3, <1>9, UnchangedTables, QuietMarks, Zenon
  <2> QED BY <1>1, <1>3, <1>4, <1>7, <1>8, <1>9, <2>1, BooksByPost, Zenon
<1>10. CASE ~Known(threads, f) /\ threads' = Append(threads, t) /\ Goes(w, f, q2)
  <2>1. Adds(threads, threads', t)  BY <1>1, <1>10, AppendFacts, Zenon DEF Tables
  <2>2. Grow  BY <1>8, <2>1, Zenon DEF Adds, Grow
  <2>3. Tables'
    <3>1. \A d, e \in DOMAIN threads' : threads'[d].finding = threads'[e].finding => d = e
      <4>1. \A d \in DOMAIN threads : threads[d].finding # f  BY <1>10, Zenon DEF Known
      <4> QED BY <1>1, <1>5, <2>1, <4>1, Zenon DEF Adds, Tables
    <3>2. \A d \in DOMAIN threads' : /\ Has(threads'[d], ThreadFields)
                                     /\ threads'[d].gid \in DOMAIN forge
      BY <1>1, <1>5, <1>6, <2>1, Zenon DEF Adds, Tables
    <3> QED BY <1>1, <1>8, <2>1, <3>1, <3>2, Zenon DEF Adds, Tables
  <2>4. MarksWell  BY <1>3, <1>5, <2>1, Zenon DEF Adds, MarksWell
  <2>5. Known(threads', f)  BY <1>5, <2>1, Zenon DEF Adds, Known
  <2> QED BY <1>1, <1>3, <1>4, <1>7, <1>8, <1>10, <2>2, <2>3, <2>4, <2>5, BooksByPost,
             Zenon
<1> QED BY <1>3, <1>9, <1>10, Zenon

\* persistFindingDiscussionLink.
LEMMA persistFindingDiscussionLinkBooks ==
  ASSUME Books, NEW w \in Workers, NEW f \in DOMAIN work[w].posts,
         persistFindingDiscussionLink(w, f), UNCHANGED byCommand
  PROVE  Books'
<1> DEFINE p == work[w].posts[f]
           q == [p EXCEPT !.pc = "done"]
<1>1. /\ PostShape(f, p) /\ Tables
      /\ p.gid # 0 => p.gid \in DOMAIN forge /\ forge[p.gid].finding = f
  BY PostFacts, Zenon
<1>2. /\ p.pc = "link" /\ UNCHANGED <<threads, actions, forge, cut, byCommand>>
      /\ Goes(w, f, q)
  BY Zenon DEF persistFindingDiscussionLink, writerVars
<1>3. /\ Has(q, PostFields) /\ q.pc = "done" /\ q.kind = p.kind /\ q.gid = p.gid
  BY <1>1, Zenon DEF PostShape, Has, PostFields
<1> HIDE DEF q
<1>4. PostShape(f, q)  BY <1>1, <1>3, Zenon DEF PostShape, Unwritten
<1>5. QuietStatement /\ forge' = forge /\ cut' = cut  BY <1>2, Zenon DEF QuietStatement
<1>6. Tables' /\ Grow /\ MarksWell
  BY <1>1, <1>2, UnchangedTables, QuietMarks, Zenon
<1>7. p.pc \notin Unsaved  BY <1>2, Zenon DEF Unsaved
<1> QED BY <1>1, <1>2, <1>3, <1>4, <1>5, <1>6, <1>7, BooksByPost, Zenon

-----------------------------------------------------------------------------
(* Before and after the goroutines                                         *)

\* A worker that has nothing to put on record.
LEMMA QuietHands ==
  ASSUME NEW w, \A g : ~Holds(work[w], g), cut \subseteq cut',
         \A g \in DOMAIN forge' \ DOMAIN forge : forge'[g].kind = "github" \/ g \in cut'
  PROVE  HandsOverBy(w)
BY Zenon DEF HandsOverBy

Starts(w, D, kd) ==
  work' = [work EXCEPT ![w].pc = "posting", ![w].posts = [f \in D |-> Post(kd)]]

\* One kind of goroutine for findings, two for notes.
KindFits(D, kd) ==
  /\ kd \in PostKinds
  /\ 0 \in D => D = {0}
  /\ \A f \in D : f = 0 <=> kd \in {"parser", "summary"}

\* The goroutines of a worker start with nothing.
LEMMA BooksByStart ==
  ASSUME Books, NEW w \in Workers, \A g : ~Holds(work[w], g), NEW D, NEW kd,
         KindFits(D, kd), Starts(w, D, kd),
         UNCHANGED <<threads, forge, actions, cut, byCommand>>
  PROVE  Books'
<1> DEFINE x == work[w]  y == work'[w]  posts == [f \in D |-> Post(kd)]
<1>1. work = [v \in Workers |-> work[v]] /\ Has(x, WorkFields) /\ Tables
  BY Zenon DEF Books, Structure, WorkerShape
<1>2. Moves(w) /\ y = [x EXCEPT !.pc = "posting", !.posts = posts]
  BY <1>1, Zenon DEF Moves, Starts
<1>3. /\ Has(Post(kd), PostFields) /\ Post(kd).pc = "check" /\ Post(kd).kind = kd
      /\ Post(kd).gid = 0
  BY Zenon DEF Post, Has, PostFields
<1>4. IsFunction(posts) /\ DOMAIN posts = D /\ \A f \in D : posts[f] = Post(kd)
  BY Zenon DEF IsFunction
<1> HIDE DEF posts
<1>5. Has(y, WorkFields) /\ y.posts = posts /\ y.pc = "posting"
  BY <1>1, <1>2, Zenon DEF Has, WorkFields
<1>6. ASSUME NEW f \in D PROVE PostShape(f, Post(kd))
  <2>1. kd \in PostKinds /\ (f = 0 <=> kd \in {"parser", "summary"})
    BY Zenon DEF KindFits
  <2> QED BY <1>3, <2>1, Zenon DEF PostShape
<1>7. WorkerShape(y)  BY <1>4, <1>5, <1>6, Zenon DEF WorkerShape, KindFits
<1>8. HeldIds(y, threads', forge')
  BY <1>3, <1>4, <1>5, Zenon DEF HeldIds, HeldThread, Resolving
<1>9. HandsOverBy(w)
  <2>1. DOMAIN forge' = DOMAIN forge /\ cut' = cut  BY Zenon
  <2> QED BY <2>1, QuietHands, Zenon
<1>10. Tables' /\ Grow /\ MarksWell  BY <1>1, UnchangedTables, QuietMarks, Zenon
<1>11. ActsWell  BY QuietActions, Zenon DEF QuietStatement
<1> QED BY <1>2, <1>7, <1>8, <1>9, <1>10, <1>11, BooksByStep, Zenon

\* The goroutines of a worker are done.
LEMMA BooksByEnd ==
  ASSUME Books, NEW w \in Workers, \A g : ~Holds(work[w], g), Moves(w),
         Has(work'[w], WorkFields), work'[w].posts = NoCopy,
         work'[w].pc \notin Resolving \cup {"posting"},
         UNCHANGED <<threads, forge, actions, cut, byCommand>>
  PROVE  Books'
<1>1. IsFunction(NoCopy) /\ DOMAIN NoCopy = {}  BY Zenon DEF NoCopy, IsFunction
<1>2. WorkerShape(work'[w])  BY <1>1, Zenon DEF WorkerShape
<1>3. HeldIds(work'[w], threads', forge')  BY <1>1, Zenon DEF HeldIds, HeldThread, Resolving
<1>4. HandsOverBy(w)
  <2>1. DOMAIN forge' = DOMAIN forge /\ cut' = cut  BY Zenon
  <2> QED BY <2>1, QuietHands, Zenon
<1>5. Tables' /\ Grow /\ MarksWell
  BY UnchangedTables, QuietMarks, Zenon DEF Books, Structure
<1>6. ActsWell  BY QuietActions, Zenon DEF QuietStatement
<1> QED BY <1>2, <1>3, <1>4, <1>5, <1>6, BooksByStep, Zenon

\* StartWriteback: the ids of findings start at 1.
LEMMA StartWritebackBooks ==
  ASSUME Books, NEW w \in Workers, StartWriteback(w), 0 \notin DOMAIN findings,
         UNCHANGED byCommand
  PROVE  Books'
<1> DEFINE x == work[w]  y == work'[w]  D == DOMAIN ListFindingsByRun(findings, x.run)
<1>1. work = [v \in Workers |-> work[v]] /\ WorkerShape(x) /\ Has(x, WorkFields)
  BY Zenon DEF Books, Structure, WorkerShape
<1>2. /\ x.pc = "writeback" /\ UNCHANGED <<threads, forge, actions, cut, byCommand>>
      /\ \/ work' = [work EXCEPT ![w].pc = "publish", ![w].todo = Candidates(x.report)]
         \/ work' = [work EXCEPT ![w].pc = "gate"]
         \/ Starts(w, {0}, "parser") \/ Starts(w, D, "diff")
  BY Zenon DEF StartWriteback, At, storeVars, writerVars, Starts
<1>3. \A g : ~Holds(x, g)  BY <1>1, <1>2, NothingHeld, Zenon
<1>4. 0 \notin D  BY Zenon DEF ListFindingsByRun
<1> HIDE DEF D
<1>5. KindFits({0}, "parser") /\ KindFits(D, "diff")
  BY <1>4, Zenon DEF KindFits, PostKinds
<1>6. CASE Starts(w, {0}, "parser") \/ Starts(w, D, "diff")
  BY <1>2, <1>3, <1>5, <1>6, BooksByStart, Zenon
<1>7. ASSUME \/ work' = [work EXCEPT ![w].pc = "publish", ![w].todo = Candidates(x.report)]
             \/ work' = [work EXCEPT ![w].pc = "gate"]
      PROVE  Books'
  <2>1. /\ Moves(w)
        /\ \/ y = [x EXCEPT !.pc = "publish", !.todo = Candidates(x.report)]
           \/ y = [x EXCEPT !.pc = "gate"]
    BY <1>1, <1>7, Zenon DEF Moves
  <2>2. Has(y, WorkFields) /\ y.posts = x.posts /\ y.pc \in {"publish", "gate"}
    BY <1>1, <2>1, Zenon DEF Has, WorkFields
  <2>3. QuietStatement  BY <1>2, Zenon DEF QuietStatement
  <2> QED BY <1>2, <2>1, <2>2, <2>3, QuietStep, Zenon DEF Resolving
<1> QED BY <1>2, <1>6, <1>7, Zenon

\* StartSummary, ListSettled and FinishWriteback.
LEMMA PhaseBooks ==
  ASSUME Books, NEW w \in Workers,
         StartSummary(w) \/ ListSettled(w) \/ FinishWriteback(w), UNCHANGED byCommand
  PROVE  Books'
<1> DEFINE x == work[w]  y == work'[w]
<1>1. work = [v \in Workers |-> work[v]] /\ WorkerShape(x) /\ Has(x, WorkFields)
  BY Zenon DEF Books, Structure, WorkerShape
<1>2. UNCHANGED <<threads, forge, actions, cut, byCommand>>
  BY Zenon DEF StartSummary, ListSettled, FinishWriteback, storeVars, writerVars
<1>3. CASE StartSummary(w)
  <2>1. x.pc = "settle" /\ Starts(w, {0}, "summary") /\ KindFits({0}, "summary")
    BY <1>3, Zenon DEF StartSummary, At, Starts, KindFits, PostKinds
  <2>2. \A g : ~Holds(x, g)  BY <1>1, <2>1, NothingHeld, Zenon
  <2> QED BY <1>2, <2>1, <2>2, BooksByStart, Zenon
<1>4. CASE ListSettled(w)
  <2>1. /\ Moves(w) /\ \A f \in DOMAIN x.posts : x.posts[f].pc = "done"
        /\ \E a : \E l \in {"settle", "gate"} :
             y = [x EXCEPT !.pc = l, !.posts = NoCopy, !.settle = a]
    BY <1>1, <1>4, Zenon DEF ListSettled, Moves
  <2>2. Has(y, WorkFields) /\ y.posts = NoCopy /\ y.pc \in {"settle", "gate"}
    BY <1>1, <2>1, Zenon DEF Has, WorkFields
  <2>3. \A g : ~Holds(x, g)  BY <2>1, Zenon DEF Holds, Unsaved
  <2> QED BY <1>2, <2>1, <2>2, <2>3, BooksByEnd, Zenon DEF Resolving
<1>5. CASE FinishWriteback(w)
  <2>1. /\ Moves(w) /\ 0 \in DOMAIN x.posts /\ x.posts[0].pc = "done"
        /\ y = [x EXCEPT !.pc = "gate", !.posts = NoCopy]
    BY <1>1, <1>5, Zenon DEF FinishWriteback, Moves
  <2>2. Has(y, WorkFields) /\ y.posts = NoCopy /\ y.pc = "gate"
    BY <1>1, <2>1, Zenon DEF Has, WorkFields
  <2>3. \A g : ~Holds(x, g)  BY <1>1, <2>1, Zenon DEF WorkerShape, Holds, Unsaved
  <2> QED BY <1>2, <2>1, <2>2, <2>3, BooksByEnd, Zenon DEF Resolving
<1> QED BY <1>3, <1>4, <1>5, Zenon

-----------------------------------------------------------------------------
(* Settled discussions                                                     *)

\* Statements on gitlab_discussions that keep the finding and the comment.
LEMMA ThreadsUpdated ==
  ASSUME Tables, UNCHANGED forge, threads' = [d \in DOMAIN threads |-> threads'[d]],
         \A d \in DOMAIN threads : /\ Has(threads'[d], ThreadFields)
                                   /\ threads'[d].finding = threads[d].finding
                                   /\ threads'[d].gid = threads[d].gid
  PROVE  Tables' /\ Grow
<1>1. forge' = forge /\ DOMAIN threads' = DOMAIN threads  BY Zenon
<1>2. IsTable(threads')  BY UpdateFacts, Zenon DEF Tables
<1>3. Tables'
  <2>1. \A d \in DOMAIN threads' : /\ Has(threads'[d], ThreadFields)
                                   /\ threads'[d].gid \in DOMAIN forge'
    BY <1>1, Zenon DEF Tables
  <2>2. \A d, e \in DOMAIN threads' : threads'[d].finding = threads'[e].finding => d = e
    BY <1>1, Zenon DEF Tables
  <2> QED BY <1>1, <1>2, <2>1, <2>2, Zenon DEF Tables
<1>4. Grow  BY <1>1, Zenon DEF Grow
<1> QED BY <1>3, <1>4, Zenon

\* A thread is resolved on the forge.
LEMMA ResolvedOnForge ==
  ASSUME Tables, NEW g \in DOMAIN forge, forge' = [forge EXCEPT ![g].resolved = TRUE],
         UNCHANGED threads
  PROVE  Tables' /\ Grow /\ DOMAIN forge' = DOMAIN forge /\ forge'[g].resolved
<1> DEFINE c == forge[g]  u == [forge EXCEPT ![g].resolved = TRUE]
<1>1. Has(c, CommentFields) /\ IsTable(forge)  BY Zenon DEF Tables
<1>2. /\ u = [h \in DOMAIN forge |-> u[h]] /\ DOMAIN u = DOMAIN forge
      /\ u[g] = [c EXCEPT !.resolved = TRUE]
      /\ \A h \in DOMAIN forge \ {g} : u[h] = forge[h]
  BY Zenon
<1>3. forge' = u /\ threads' = threads  OBVIOUS
<1> HIDE DEF u
<1>4. /\ Has(u[g], CommentFields) /\ u[g].resolved = TRUE
      /\ u[g].run = c.run /\ u[g].finding = c.finding /\ u[g].kind = c.kind
  BY <1>1, <1>2, Zenon DEF Has, CommentFields
<1>5. IsTable(u)  BY <1>1, <1>2, UpdateFacts, Zenon
<1>6. \A h \in DOMAIN forge : /\ Has(u[h], CommentFields)
                              /\ u[h].run = forge[h].run
                              /\ u[h].finding = forge[h].finding
                              /\ u[h].kind = forge[h].kind
                              /\ forge[h].resolved => u[h].resolved
  BY <1>2, <1>4, Zenon DEF Tables
<1>7. Tables'
  <2>1. \A h \in DOMAIN u : Has(u[h], CommentFields)  BY <1>2, <1>6, Zenon
  <2>2. \A d \in DOMAIN threads : threads[d].gid \in DOMAIN u  BY <1>2, Zenon DEF Tables
  <2> QED BY <1>3, <1>5, <2>1, <2>2, Zenon DEF Tables
<1>8. Grow  BY <1>2, <1>3, <1>6, Zenon DEF Grow
<1> QED BY <1>2, <1>3, <1>4, <1>7, <1>8, Zenon

\* What a worker knows that resolves a thread.
LEMMA SettlerFacts ==
  ASSUME Books, NEW w \in Workers, work[w].pc \in Resolving
  PROVE  /\ work[w].thread \in DOMAIN threads
         /\ threads[work[w].thread].finding = Min(DOMAIN work[w].settle)
         /\ threads[work[w].thread].gid \in DOMAIN forge
BY Zenon DEF Books, Structure, HeldIds, HeldThread, Tables

\* A worker goes on with the settled discussions.
LEMMA BooksBySettler ==
  ASSUME Books, NEW w \in Workers, Moves(w), work[w].pc \in Resolving \cup {"settle"},
         Has(work'[w], WorkFields), work'[w].posts = work[w].posts,
         work'[w].pc \in Resolving \cup {"settle"},
         HeldThread(work'[w], threads', forge'),
         Tables', Grow, UNCHANGED cut, DOMAIN forge' = DOMAIN forge, MarksWell, ActsWell
  PROVE  Books'
<1>1. WorkerShape(work[w])  BY Zenon DEF Books, Structure
<1>2. work[w].pc # "posting" /\ work'[w].pc # "posting"  BY Zenon DEF Resolving
<1>3. WorkerShape(work'[w]) /\ DOMAIN work'[w].posts = {}
  BY <1>1, <1>2, Zenon DEF WorkerShape
<1>4. HeldIds(work'[w], threads', forge')  BY <1>3, Zenon DEF HeldIds
<1>5. HandsOverBy(w)
  <2>1. \A g : ~Holds(work[w], g)  BY <1>1, <1>2, NothingHeld, Zenon
  <2> QED BY <2>1, QuietHands, Zenon
<1> QED BY <1>3, <1>4, <1>5, BooksByStep, Zenon

\* SettleFinding: a finding whose action has succeeded before is marked only.
LEMMA SettleFindingBooks ==
  ASSUME Books, NEW w \in Workers, SettleFinding(w), UNCHANGED byCommand
  PROVE  Books'
<1> DEFINE x == work[w]  y == work'[w]
           f == Min(DOMAIN x.settle)
           d == activeDiscussion(findings[f], f)
           l == IF Succeeded(actions, x.run, f) THEN "mark" ELSE "resolve"
<1>1. work = [v \in Workers |-> work[v]] /\ Has(x, WorkFields) /\ Tables
  BY Zenon DEF Books, Structure, WorkerShape
<1>2. /\ x.pc = "settle" /\ UNCHANGED <<threads, forge, cut, byCommand>>
      /\ UNCHANGED actions \/ \E k : actions' = InsertCommentAction(actions, k)
      /\ \/ work' = [work EXCEPT ![w].settle = Drop(f, @)]
         \/ d # 0 /\ work' = [work EXCEPT ![w].thread = d, ![w].pc = l]
  BY Zenon DEF SettleFinding, At, writerVars, Succeeded
<1>3. QuietStatement  BY <1>2, Zenon DEF QuietStatement
<1>4. Tables' /\ Grow /\ MarksWell /\ DOMAIN forge' = DOMAIN forge
  BY <1>1, <1>2, UnchangedTables, QuietMarks, Zenon
<1>5. ActsWell  BY <1>3, QuietActions, Zenon
<1>6. d # 0 => d \in DOMAIN threads /\ threads[d].finding = f
  <2>1. GetGitlabDiscussionByFinding(threads, f)
          = {e \in DOMAIN threads : threads[e].finding = f}
    BY <1>1, ThreadOf, Zenon DEF Tables
  <2> QED BY <2>1, Zenon DEF activeDiscussion
<1>7. l \in {"mark", "resolve"} /\ (l = "mark" => Succeeded(actions, x.run, f))
  BY Zenon
<1> HIDE DEF d, l
<1>8. CASE work' = [work EXCEPT ![w].settle = Drop(f, @)]
  <2>1. Moves(w) /\ y = [x EXCEPT !.settle = Drop(f, @)]  BY <1>1, <1>8, Zenon DEF Moves
  <2>2. Has(y, WorkFields) /\ y.posts = x.posts /\ y.pc = "settle"
    BY <1>1, <1>2, <2>1, Zenon DEF Has, WorkFields
  <2> QED BY <1>2, <1>3, <2>1, <2>2, QuietStep, Zenon DEF Resolving
<1>9. CASE d # 0 /\ work' = [work EXCEPT ![w].thread = d, ![w].pc = l]
  <2>1. Moves(w) /\ y = [x EXCEPT !.thread = d, !.pc = l]  BY <1>1, <1>9, Zenon DEF Moves
  <2>2. /\ Has(y, WorkFields) /\ y.posts = x.posts /\ y.pc = l /\ y.thread = d
        /\ y.settle = x.settle
    BY <1>1, <2>1, Zenon DEF Has, WorkFields
  <2>3. l = "mark" => forge[threads[d].gid].resolved
    <3>1. l = "mark" => ThreadIsResolved(f, threads, forge)
      BY <1>7, Zenon DEF Books, ResolveActionsAreTrue
    <3> QED BY <1>1, <1>6, <1>9, <3>1, Zenon DEF ThreadIsResolved, Tables
  <2>4. HeldThread(y, threads', forge')
    BY <1>2, <1>6, <1>7, <1>9, <2>2, <2>3, Zenon DEF HeldThread
  <2> QED BY <1>2, <1>4, <1>5, <1>7, <2>1, <2>2, <2>4, BooksBySettler,
             Zenon DEF Resolving
<1> QED BY <1>2, <1>8, <1>9, Zenon

\* ResolveDiscussion: whatever the answer is, only a success is believed.
LEMMA ResolveDiscussionBooks ==
  ASSUME Books, NEW w \in Workers, ResolveDiscussion(w), UNCHANGED byCommand
  PROVE  Books'
<1> DEFINE x == work[w]  y == work'[w]
           g == threads[x.thread].gid
           settled == [forge EXCEPT ![g].resolved = TRUE]
<1>1. work = [v \in Workers |-> work[v]] /\ Has(x, WorkFields) /\ Tables
  BY Zenon DEF Books, Structure, WorkerShape
<1>2. /\ x.pc = "resolve" /\ UNCHANGED <<threads, actions, cut, byCommand>>
      /\ \/ /\ forge' = settled
            /\ work' = [work EXCEPT ![w].pc = "resolved", ![w].answer = "ok"]
         \/ /\ work' = [work EXCEPT ![w].pc = "resolved", ![w].answer = "refused"]
            /\ forge' = forge \/ forge' = settled
  BY Zenon DEF ResolveDiscussion, At, storeVars
<1>3. /\ x.thread \in DOMAIN threads /\ g \in DOMAIN forge
      /\ threads[x.thread].finding = Min(DOMAIN x.settle)
  BY <1>2, SettlerFacts, Zenon DEF Resolving
<1>4. /\ Tables' /\ Grow /\ DOMAIN forge' = DOMAIN forge
      /\ forge' = settled => forge'[g].resolved
  <2>1. CASE forge' = settled  BY <1>1, <1>2, <1>3, <2>1, ResolvedOnForge, Zenon
  <2>2. CASE forge' = forge /\ forge' # settled
    BY <1>1, <1>2, <2>2, UnchangedTables, Zenon
  <2> QED BY <1>2, <2>1, <2>2, Zenon
<1> HIDE DEF settled, g
<1>5. /\ Moves(w)
      /\ \/ forge' = settled /\ y = [x EXCEPT !.pc = "resolved", !.answer = "ok"]
         \/ y = [x EXCEPT !.pc = "resolved", !.answer = "refused"]
  BY <1>1, <1>2, Zenon DEF Moves
<1>6. /\ Has(y, WorkFields) /\ y.posts = x.posts /\ y.pc = "resolved"
      /\ y.thread = x.thread /\ y.settle = x.settle
      /\ (forge' = settled /\ y.answer = "ok") \/ y.answer = "refused"
  BY <1>1, <1>5, Zenon DEF Has, WorkFields
<1>7. HeldThread(y, threads', forge')
  BY <1>2, <1>3, <1>4, <1>6, Zenon DEF HeldThread, g
<1>8. MarksWell /\ ActsWell
  <2>1. QuietStatement  BY <1>2, Zenon DEF QuietStatement
  <2> QED BY <1>2, <2>1, QuietMarks, QuietActions, Zenon
<1> QED BY <1>2, <1>4, <1>5, <1>6, <1>7, <1>8, BooksBySettler, Zenon DEF Resolving

\* FinalizeResolve: the action succeeds when the thread is resolved.
LEMMA FinalizeResolveBooks ==
  ASSUME Books, NEW w \in Workers, FinalizeResolve(w), UNCHANGED byCommand
  PROVE  Books'
<1> DEFINE x == work[w]  y == work'[w]  f == Min(DOMAIN x.settle)
           k == Key(x.run, f, "resolve")
<1>1. work = [v \in Workers |-> work[v]] /\ WorkerShape(x) /\ Has(x, WorkFields) /\ Tables
  BY Zenon DEF Books, Structure, WorkerShape
<1>2. /\ x.pc = "resolved" /\ UNCHANGED <<threads, forge, cut, byCommand>>
      /\ \/ /\ x.answer = "ok" /\ work' = [work EXCEPT ![w].pc = "mark"]
            /\ actions' = UpdateCommentActionStatus(actions, k, "succeeded")
         \/ /\ work' = [work EXCEPT ![w] = Idle]
            /\ actions' = UpdateCommentActionStatus(actions, k, "failed")
  BY Zenon DEF FinalizeResolve, At, writerVars
<1>3. /\ x.thread \in DOMAIN threads /\ threads[x.thread].finding = f
      /\ x.answer = "ok" => forge[threads[x.thread].gid].resolved
  BY <1>2, SettlerFacts, Zenon DEF Resolving, Books, Structure, HeldIds, HeldThread
<1>4. Tables' /\ Grow /\ MarksWell /\ DOMAIN forge' = DOMAIN forge
  BY <1>1, <1>2, UnchangedTables, QuietMarks, Zenon
<1>5. CASE /\ x.answer = "ok" /\ work' = [work EXCEPT ![w].pc = "mark"]
           /\ actions' = UpdateCommentActionStatus(actions, k, "succeeded")
  <2>1. Moves(w) /\ y = [x EXCEPT !.pc = "mark"]  BY <1>1, <1>5, Zenon DEF Moves
  <2>2. /\ Has(y, WorkFields) /\ y.posts = x.posts /\ y.pc = "mark"
        /\ y.thread = x.thread /\ y.settle = x.settle
    BY <1>1, <2>1, Zenon DEF Has, WorkFields
  <2>3. HeldThread(y, threads', forge')
    BY <1>2, <1>3, <1>5, <2>2, Zenon DEF HeldThread
  <2>4. ActsWell
    <3> SUFFICES ASSUME NEW r, NEW h, Succeeded(actions', r, h), ~Succeeded(actions, r, h)
                 PROVE  ThreadIsResolved(h, threads, forge)
      BY Zenon DEF ActsWell
    <3>1. Key(r, h, "resolve") = k
      BY <1>5, Zenon DEF Succeeded, GetCommentActionByIdempotencyKey,
                         UpdateCommentActionStatus
    <3>2. h = f  BY <3>1 DEF Key
    <3> QED BY <1>3, <1>5, <3>2, Zenon DEF ThreadIsResolved
  <2> QED BY <1>2, <1>4, <2>1, <2>2, <2>3, <2>4, BooksBySettler, Zenon DEF Resolving
<1>6. CASE /\ work' = [work EXCEPT ![w] = Idle]
           /\ actions' = UpdateCommentActionStatus(actions, k, "failed")
  <2>1. QuietStatement
    <3>1. "failed" # "succeeded"  OBVIOUS
    <3> HIDE DEF k
    <3>2. \E j, st : /\ actions' = UpdateCommentActionStatus(actions, j, st)
                     /\ st # "succeeded"
      BY <1>6, <3>1
    <3> QED BY <3>2 DEF QuietStatement
  <2>2. \A g : ~Holds(x, g)  BY <1>1, <1>2, NothingHeld, Zenon
  <2> QED BY <1>2, <1>4, <1>6, <2>1, <2>2, LeavingStep, Zenon
<1> QED BY <1>2, <1>5, <1>6, Zenon

\* MarkResolved: the thread is resolved on the forge.
LEMMA MarkResolvedBooks ==
  ASSUME Books, NEW w \in Workers, MarkResolved(w), UNCHANGED byCommand
  PROVE  Books'
<1> DEFINE x == work[w]  y == work'[w]  f == Min(DOMAIN x.settle)  d == x.thread
           s == Drop(f, x.settle)
<1>1. work = [v \in Workers |-> work[v]] /\ Has(x, WorkFields) /\ Tables
  BY Zenon DEF Books, Structure, WorkerShape
<1>2. /\ x.pc = "mark" /\ UNCHANGED <<actions, forge, cut, byCommand>>
      /\ threads' = [threads EXCEPT ![d].resolved = TRUE]
      /\ \/ work' = [work EXCEPT ![w].pc = "supersedes"]
         \/ work' = [work EXCEPT ![w].pc = "settle", ![w].settle = s]
  BY Zenon DEF MarkResolved, At, writerVars, UpdateGitlabDiscussionResolved
<1>3. /\ d \in DOMAIN threads /\ threads[d].finding = f
      /\ forge[threads[d].gid].resolved
  BY <1>2, SettlerFacts, Zenon DEF Resolving, Books, Structure, HeldIds, HeldThread
<1>4. /\ threads' = [e \in DOMAIN threads |-> threads'[e]]
      /\ DOMAIN threads' = DOMAIN threads
      /\ threads'[d] = [threads[d] EXCEPT !.resolved = TRUE]
      /\ \A e \in DOMAIN threads \ {d} : threads'[e] = threads[e]
  BY <1>2, <1>3, Zenon
<1>5. /\ Has(threads'[d], ThreadFields) /\ threads'[d].finding = threads[d].finding
      /\ threads'[d].gid = threads[d].gid
  <2>1. Has(threads[d], ThreadFields)  BY <1>1, <1>3, Zenon DEF Tables
  <2> HIDE DEF d
  <2> QED BY <1>4, <2>1, Zenon DEF Has, ThreadFields
<1>6. \A e \in DOMAIN threads : /\ Has(threads'[e], ThreadFields)
                                /\ threads'[e].finding = threads[e].finding
                                /\ threads'[e].gid = threads[e].gid
  BY <1>1, <1>4, <1>5, Zenon DEF Tables
<1>7. Tables' /\ Grow  BY <1>1, <1>2, <1>4, <1>6, ThreadsUpdated, Zenon
<1>8. MarksWell
  <2>1. \A e \in DOMAIN threads' : threads'[e].resolved =>
          e = d \/ (e \in DOMAIN threads /\ threads[e].resolved)
    BY <1>4, Zenon
  <2> QED BY <1>2, <1>3, <1>5, <2>1, Zenon DEF MarksWell
<1>9. ActsWell
  <2>1. QuietStatement  BY <1>2, Zenon DEF QuietStatement
  <2> QED BY <2>1, QuietActions, Zenon
<1> HIDE DEF s
<1>10. /\ Moves(w)
       /\ \/ y = [x EXCEPT !.pc = "supersedes"]
          \/ y = [x EXCEPT !.pc = "settle", !.settle = s]
  BY <1>1, <1>2, Zenon DEF Moves
<1>11. /\ Has(y, WorkFields) /\ y.posts = x.posts /\ y.thread = x.thread
       /\ y.pc = "settle" \/ (y.pc = "supersedes" /\ y.settle = x.settle)
  BY <1>1, <1>10, Zenon DEF Has, WorkFields
<1>12. HeldThread(y, threads', forge')
  BY <1>3, <1>4, <1>5, <1>11, Zenon DEF HeldThread, Resolving
<1>13. DOMAIN forge' = DOMAIN forge  BY <1>2, Zenon
<1> QED BY <1>2, <1>7, <1>8, <1>9, <1>10, <1>11, <1>12, <1>13, BooksBySettler,
           Zenon DEF Resolving

\* linkSupersededDiscussion.
LEMMA linkSupersededDiscussionBooks ==
  ASSUME Books, NEW w \in Workers, linkSupersededDiscussion(w), UNCHANGED byCommand
  PROVE  Books'
<1> DEFINE x == work[w]  y == work'[w]  f == Min(DOMAIN x.settle)  d == x.thread
           s == Drop(f, x.settle)  e0 == x.settle[f]
<1>1. work = [v \in Workers |-> work[v]] /\ Has(x, WorkFields) /\ Tables
  BY Zenon DEF Books, Structure, WorkerShape
<1>2. /\ x.pc = "supersedes" /\ UNCHANGED <<actions, forge, cut, byCommand>>
      /\ threads' = [threads EXCEPT ![d].superseded_by = e0]
      /\ work' = [work EXCEPT ![w].pc = "settle", ![w].settle = s]
  BY Zenon DEF linkSupersededDiscussion, At, writerVars,
               UpdateGitlabDiscussionSupersededBy
<1>3. d \in DOMAIN threads  BY <1>2, SettlerFacts, Zenon DEF Resolving
<1> HIDE DEF s, e0
<1>4. /\ threads' = [e \in DOMAIN threads |-> threads'[e]]
      /\ DOMAIN threads' = DOMAIN threads
      /\ threads'[d] = [threads[d] EXCEPT !.superseded_by = e0]
      /\ \A e \in DOMAIN threads \ {d} : threads'[e] = threads[e]
  BY <1>2, <1>3, Zenon
<1>5. /\ Has(threads'[d], ThreadFields) /\ threads'[d].finding = threads[d].finding
      /\ threads'[d].gid = threads[d].gid /\ threads'[d].resolved = threads[d].resolved
  BY <1>1, <1>3, <1>4, Zenon DEF Tables, Has, ThreadFields
<1>6. \A e \in DOMAIN threads : /\ Has(threads'[e], ThreadFields)
                                /\ threads'[e].finding = threads[e].finding
                                /\ threads'[e].gid = threads[e].gid
                                /\ threads'[e].resolved = threads[e].resolved
  BY <1>1, <1>4, <1>5, Zenon DEF Tables
<1>7. Tables' /\ Grow  BY <1>1, <1>2, <1>4, <1>6, ThreadsUpdated, Zenon
<1>8. MarksWell  BY <1>2, <1>4, <1>6, Zenon DEF MarksWell
<1>9. ActsWell
  <2>1. QuietStatement  BY <1>2, Zenon DEF QuietStatement
  <2> QED BY <2>1, QuietActions, Zenon
<1>10. Moves(w) /\ y = [x EXCEPT !.pc = "settle", !.settle = s]
  BY <1>1, <1>2, Zenon DEF Moves
<1>11. Has(y, WorkFields) /\ y.posts = x.posts /\ y.pc = "settle"
  BY <1>1, <1>10, Zenon DEF Has, WorkFields
<1>12. HeldThread(y, threads', forge')  BY <1>11, Zenon DEF HeldThread, Resolving
<1>13. DOMAIN forge' = DOMAIN forge  BY <1>2, Zenon
<1> QED BY <1>2, <1>7, <1>8, <1>9, <1>10, <1>11, <1>12, <1>13, BooksBySettler,
           Zenon DEF Resolving

-----------------------------------------------------------------------------
(* GitHub, the gate, and what comes from outside                           *)

\* Publish: comments on GitHub are not put on record.
LEMMA PublishBooks ==
  ASSUME Books, NEW w \in Workers, Publish(w), UNCHANGED byCommand
  PROVE  Books'
<1> DEFINE x == work[w]  y == work'[w]
           c == [run |-> x.run, finding |-> Min(x.todo), kind |-> "github",
                 resolved |-> FALSE]
           made == Append(forge, c)
<1>1. work = [v \in Workers |-> work[v]] /\ WorkerShape(x) /\ Has(x, WorkFields) /\ Tables
  BY Zenon DEF Books, Structure, WorkerShape
<1>2. /\ x.pc = "publish" /\ UNCHANGED <<threads, actions, byCommand>>
      /\ \/ forge' = forge /\ cut' = cut /\ work' = [work EXCEPT ![w].pc = "gate"]
         \/ /\ forge' = made /\ cut' = cut
            /\ work' = [work EXCEPT ![w].todo = @ \ {Min(@)}]
         \/ /\ forge' = forge \/ forge' = made
            /\ cut' = cut \cup (DOMAIN forge' \ DOMAIN forge)
            /\ work' = [work EXCEPT ![w] = Idle]
  BY Zenon DEF Publish, At, storeVars
<1>3. Has(c, CommentFields) /\ c.kind = "github"  BY Zenon DEF Has, CommentFields
<1> HIDE DEF c
<1>4. ASSUME forge' = made
      PROVE  /\ Tables' /\ Grow
             /\ \A g \in DOMAIN forge' \ DOMAIN forge : forge'[g].kind = "github"
  <2>1. Tables' /\ Grow /\ Adds(forge, forge', c)
    BY <1>1, <1>2, <1>3, <1>4, CommentMade, Zenon
  <2> QED BY <1>3, <2>1, Zenon DEF Adds
<1>5. ASSUME forge' = forge
      PROVE  /\ Tables' /\ Grow
             /\ \A g \in DOMAIN forge' \ DOMAIN forge : forge'[g].kind = "github"
  BY <1>1, <1>2, <1>5, UnchangedTables, Zenon
<1> HIDE DEF made
<1>6. \A g : ~Holds(x, g)  BY <1>1, <1>2, NothingHeld, Zenon
<1>7. QuietStatement  BY <1>2, Zenon DEF QuietStatement
<1>8. CASE \/ work' = [work EXCEPT ![w].pc = "gate"]
           \/ work' = [work EXCEPT ![w].todo = @ \ {Min(@)}]
  <2>1. Moves(w) /\ (y = [x EXCEPT !.pc = "gate"] \/ y = [x EXCEPT !.todo = @ \ {Min(@)}])
    BY <1>1, <1>8, Zenon DEF Moves
  <2>2. Has(y, WorkFields) /\ y.posts = x.posts /\ y.pc \in {"publish", "gate"}
    BY <1>1, <1>2, <2>1, Zenon DEF Has, WorkFields
  <2>3. WorkerShape(y) /\ DOMAIN y.posts = {}
    BY <1>1, <1>2, <2>2, Zenon DEF WorkerShape
  <2>4. HeldIds(y, threads', forge')
    BY <2>2, <2>3, Zenon DEF HeldIds, HeldThread, Resolving
  <2>5. HandsOverBy(w)  BY <1>2, <1>4, <1>5, <1>6, QuietHands, Zenon
  <2>6. MarksWell /\ ActsWell  BY <1>2, <1>7, QuietMarks, QuietActions, Zenon
  <2> QED BY <1>2, <1>4, <1>5, <2>1, <2>3, <2>4, <2>5, <2>6, BooksByStep, Zenon
<1>9. CASE work' = [work EXCEPT ![w] = Idle] /\ cut' = cut \cup (DOMAIN forge' \ DOMAIN forge)
  BY <1>2, <1>4, <1>5, <1>6, <1>7, <1>9, LeavingStep, Zenon
<1> QED BY <1>2, <1>8, <1>9, Zenon

\* publishGateResult ends the run; Stop is a crash or a failed statement.
LEMMA EndingBooks ==
  ASSUME Books, NEW w \in Workers, publishGateResult(w) \/ Stop(w)
  PROVE  Books'
<1>1. /\ UNCHANGED <<threads, forge, byCommand>> /\ QuietStatement
  <2>1. UNCHANGED <<threads, actions, forge, byCommand>>
    BY Zenon DEF publishGateResult, Stop, storeVars, writerVars, publicationVars
  <2> QED BY <2>1, Zenon DEF QuietStatement
<1>2. CASE publishGateResult(w)
  <2>1. /\ work[w].pc = "gate" /\ work' = [work EXCEPT ![w] = Idle] /\ cut' = cut
    BY <1>2, Zenon DEF publishGateResult, At, writerVars
  <2>2. WorkerShape(work[w]) /\ Tables  BY Zenon DEF Books, Structure
  <2>3. \A g : ~Holds(work[w], g)  BY <2>1, <2>2, NothingHeld, Zenon
  <2>4. Tables' /\ Grow /\ DOMAIN forge' = DOMAIN forge
    BY <1>1, <2>2, UnchangedTables, Zenon
  <2> QED BY <1>1, <2>1, <2>3, <2>4, LeavingStep, Zenon
<1>3. CASE Stop(w)
  <2>1. Abandon(w)  BY <1>3, Zenon DEF Stop
  <2> QED BY <1>1, <2>1, BooksByAbandon, Zenon
<1> QED BY <1>2, <1>3, Zenon

\* Begin: a worker takes a run.
LEMMA BeginBooks ==
  ASSUME Books, NEW w \in Workers, NEW r, NEW report, Begin(w, r, report)
  PROVE  Books'
<1> DEFINE x == work[w]  y == work'[w]
<1>1. work = [v \in Workers |-> work[v]] /\ WorkerShape(x)
  BY Zenon DEF Books, Structure
<1>2. /\ x.pc = "idle" /\ UNCHANGED <<threads, actions, forge, cut, byCommand>>
      /\ work' = [work EXCEPT ![w] = [Idle EXCEPT !.pc = "list", !.run = r,
                                                  !.report = report]]
  BY Zenon DEF Begin, At, storeVars
<1>3. Moves(w) /\ y = [Idle EXCEPT !.pc = "list", !.run = r, !.report = report]
  BY <1>1, <1>2, Zenon DEF Moves
<1>4. Has(Idle, WorkFields) /\ Idle.posts = NoCopy  BY Zenon DEF Idle, Has, WorkFields
<1>5. Has(y, WorkFields) /\ y.posts = NoCopy /\ y.pc = "list"
  BY <1>3, <1>4, Zenon DEF Has, WorkFields
<1>6. \A g : ~Holds(x, g)  BY <1>1, <1>2, NothingHeld, Zenon
<1> QED BY <1>2, <1>3, <1>5, <1>6, BooksByEnd, Zenon DEF Resolving

\* Commands mark the threads of a finding.
LEMMA CommandBooks ==
  ASSUME Books, NEW gid, executeIgnore(gid) \/ executeResolve(gid)
  PROVE  Books'
<1>1. /\ UNCHANGED <<actions, work, forge, cut>>
      /\ \E D : /\ threads' = [j \in DOMAIN threads |->
                     IF j \in D THEN [threads[j] EXCEPT !.resolved = TRUE]
                     ELSE threads[j]]
                /\ byCommand' = byCommand \cup D
  BY Zenon DEF executeIgnore, executeResolve, dedupVars
<1>2. PICK D : /\ threads' = [j \in DOMAIN threads |->
                     IF j \in D THEN [threads[j] EXCEPT !.resolved = TRUE]
                     ELSE threads[j]]
               /\ byCommand' = byCommand \cup D
  BY <1>1, Zenon
<1>3. Structure /\ Tables  BY Zenon DEF Books, Structure
<1>4. threads' = [j \in DOMAIN threads |-> threads'[j]] /\ DOMAIN threads' = DOMAIN threads
  BY <1>2, Zenon
<1>5. ASSUME NEW j \in DOMAIN threads
      PROVE  /\ Has(threads'[j], ThreadFields)
             /\ threads'[j].finding = threads[j].finding
             /\ threads'[j].gid = threads[j].gid
             /\ threads'[j].resolved => threads[j].resolved \/ j \in byCommand'
  <2>1. Has(threads[j], ThreadFields)  BY <1>3, Zenon DEF Tables
  <2>2. CASE j \in D
    <3>1. threads'[j] = [threads[j] EXCEPT !.resolved = TRUE] /\ j \in byCommand'
      BY <1>2, <2>2, Zenon
    <3> QED BY <2>1, <3>1, Zenon DEF Has, ThreadFields
  <2>3. CASE j \notin D
    <3>1. threads'[j] = threads[j]  BY <1>2, <2>3, Zenon
    <3> QED BY <2>1, <3>1, Zenon
  <2> QED BY <2>2, <2>3, Zenon
<1>6. Tables' /\ Grow  BY <1>1, <1>3, <1>4, <1>5, ThreadsUpdated, Zenon
<1>7. MarksWell /\ ActsWell
  <2>1. QuietStatement  BY <1>1, Zenon DEF QuietStatement
  <2>2. MarksWell  BY <1>2, <1>4, <1>5, Zenon DEF MarksWell
  <2> QED BY <2>1, <2>2, QuietActions, Zenon
<1>8. work' = work /\ forge' = forge /\ cut' = cut  BY <1>1, Zenon
<1> QED BY <1>3, <1>6, <1>7, <1>8, BooksAside, Zenon

-----------------------------------------------------------------------------
(* The theorems                                                            *)

\* The ids of findings are places in a sequence.
LEMMA FindingIds ==
  ASSUME IsTable(findings), [PublicationNext]_vars
  PROVE  IsTable(findings')
<1> DEFINE updated == findings' = [i \in DOMAIN findings |-> findings'[i]]
           inserted == \E e : findings' = Append(findings, e)
<1>1. findings = [i \in DOMAIN findings |-> findings[i]]
  <2>1. PICK S : findings \in Seq(S)  BY DEF IsTable
  <2> QED BY <2>1
<1>2. UNCHANGED findings => updated  BY <1>1, Zenon
<1>3. ASSUME NEW w \in Workers, DedupStep(w) PROVE updated \/ inserted
  <2>1. CASE ListExisting(w) \/ LoadOutcome(w) \/ PersistStatus(w)
    BY <1>2, <2>1, Zenon DEF ListExisting, LoadOutcome, PersistStatus, storeVars
  <2>2. CASE MatchFinding(w)
    BY <1>1, <1>2, <2>2, Zenon DEF MatchFinding, Decide, InsertReviewFinding,
                          UpdateFindingLastSeen, UpdateFindingRelocation
  <2>3. CASE SupersedeFinding(w)
    BY <2>3, Zenon DEF SupersedeFinding, UpdateFindingState
  <2>4. CASE MissingFinding(w)
    BY <1>2, <2>4, Zenon DEF MissingFinding, UpdateFindingState
  <2> QED BY <1>3, <2>1, <2>2, <2>3, <2>4, Zenon DEF DedupStep
<1>4. ASSUME NEW w \in Workers, WriterStep(w) PROVE updated
  <2>1. CASE writeFindings(w)
    <3>1. PICK f : PostStep(w, f)  BY <2>1, Zenon DEF writeFindings
    <3>2. CASE persistFindingDiscussionLink(w, f)
      BY <3>2, Zenon DEF persistFindingDiscussionLink, UpdateFindingDiscussionID
    <3> QED BY <1>2, <3>1, <3>2, Zenon DEF PostStep, CheckPost, ensureAction, CallForge,
                 finalizeAction, persistDiscussion, storeVars
  <2> QED BY <1>2, <1>4, <2>1, Zenon DEF WriterStep, StartWriteback, ListSettled,
               SettleFinding, ResolveDiscussion, FinalizeResolve, MarkResolved,
               linkSupersededDiscussion, StartSummary, FinishWriteback, Publish, storeVars
<1>5. ASSUME NEW gid, executeIgnore(gid) \/ executeResolve(gid) PROVE updated
  BY <1>2, <1>5, Zenon DEF executeIgnore, executeResolve, UpdateFindingState
<1>6. updated \/ inserted
  BY <1>2, <1>3, <1>4, <1>5, Zenon DEF PublicationNext, PersistStep, WritebackStep, Begin,
     publishGateResult, Stop, Cancel, storeVars, vars
<1>7. CASE updated  BY <1>7, UpdateFacts, Zenon
<1>8. CASE inserted  BY <1>8, AppendFacts, Zenon DEF Adds
<1> QED BY <1>6, <1>7, <1>8, Zenon

\* Every step keeps the books.
LEMMA BooksNext ==
  ASSUME Books, IsTable(findings), [PublicationNext]_vars
  PROVE  Books'
<1>1. 0 \notin DOMAIN findings
  <2>1. PICK S : findings \in Seq(S)  BY DEF IsTable
  <2> QED BY <2>1
<1>2. ASSUME NEW w \in Workers, WriterStep(w), UNCHANGED byCommand PROVE Books'
  <2>1. CASE writeFindings(w)
    <3>1. PICK f \in DOMAIN work[w].posts : PostStep(w, f)
      BY <2>1, Zenon DEF writeFindings
    <3> QED BY <1>2, <3>1, CheckPostBooks, ensureActionBooks, CallForgeBooks,
               finalizeActionBooks, persistDiscussionBooks,
               persistFindingDiscussionLinkBooks, Zenon DEF PostStep
  <2>2. CASE StartWriteback(w)  BY <1>1, <1>2, <2>2, StartWritebackBooks, Zenon
  <2>3. CASE StartSummary(w) \/ ListSettled(w) \/ FinishWriteback(w)
    BY <1>2, <2>3, PhaseBooks, Zenon
  <2> QED BY <1>2, <2>1, <2>2, <2>3, SettleFindingBooks, ResolveDiscussionBooks,
             FinalizeResolveBooks, MarkResolvedBooks, linkSupersededDiscussionBooks,
             PublishBooks, Zenon DEF WriterStep
<1>3. ASSUME NEW w \in Workers, PersistStep(w) PROVE Books'
  BY <1>3, DedupBooks, Zenon DEF PersistStep
<1>4. ASSUME UNCHANGED <<threads, actions, work, forge, cut, byCommand>> PROVE Books'
  <2>1. Tables' /\ Grow /\ MarksWell /\ DOMAIN forge' = DOMAIN forge
    BY <1>4, UnchangedTables, QuietMarks, Zenon DEF Books, Structure
  <2>2. ActsWell  BY <1>4, QuietActions, Zenon DEF QuietStatement
  <2> QED BY <1>4, <2>1, <2>2, BooksAside, Zenon
<1>5. ASSUME NEW r, Cancel(r) PROVE Books'
  BY <1>4, <1>5, Zenon DEF Cancel, storeVars, publicationVars
<1>6. CASE UNCHANGED vars
  BY <1>4, <1>6, Zenon DEF vars, storeVars, dedupVars, writerVars, publicationVars
<1> QED BY <1>2, <1>3, <1>5, <1>6, BeginBooks, EndingBooks, CommandBooks,
           Zenon DEF PublicationNext, WritebackStep, publicationVars

\* No comment is made before the first run.
LEMMA BooksInit ==
  ASSUME PublicationInit
  PROVE  Books /\ IsTable(findings)
<1>1. findings = <<>> /\ threads = <<>> /\ forge = <<>> /\ DOMAIN actions = {}
      /\ work = [w \in Workers |-> Idle]
  BY Zenon DEF PublicationInit, NoCopy
<1>2. <<>> \in Seq({}) /\ DOMAIN <<>> = {}  OBVIOUS
<1>3. IsTable(<<>>)  BY <1>2, Zenon DEF IsTable
<1>4. Tables  BY <1>1, <1>2, <1>3, Zenon DEF Tables
<1>5. /\ Has(Idle, WorkFields) /\ Idle.pc = "idle"
      /\ Idle.posts = NoCopy /\ IsFunction(NoCopy) /\ DOMAIN NoCopy = {}
  BY Zenon DEF Idle, Has, WorkFields, NoCopy, IsFunction
<1>6. WorkerShape(Idle) /\ HeldIds(Idle, threads, forge)
  BY <1>5, Zenon DEF WorkerShape, HeldIds, HeldThread, Resolving
<1>7. Structure  BY <1>1, <1>4, <1>6, Zenon DEF Structure
<1>8. ResolveActionsAreTrue
  <2>1. "none" # "succeeded"  OBVIOUS
  <2> QED BY <1>1, <2>1, Zenon DEF ResolveActionsAreTrue, Succeeded,
                                   GetCommentActionByIdempotencyKey
<1>9. ResolvedRowsAreTrue /\ ThreadsAreKnown
  BY <1>1, <1>2, Zenon DEF ResolvedRowsAreTrue, ThreadsAreKnown
<1> QED BY <1>1, <1>3, <1>7, <1>8, <1>9, Zenon DEF Books

\* The books are in order in every reachable state.
LEMMA BooksAreKept == PublicationSpec => [](Books /\ IsTable(findings))
<1> DEFINE Inv == Books /\ IsTable(findings)
<1>1. PublicationInit => Inv  BY BooksInit, Zenon
<1>2. Inv /\ [PublicationNext]_vars => Inv'  BY BooksNext, FindingIds, Zenon
<1> QED BY <1>1, <1>2, PTL DEF PublicationSpec

\* writer.go: a comment that was made on a finding is on record in
\* gitlab_discussions, about to be, or was cut off by a fault, whatever the
\* goroutines, other workers and commands do meanwhile.
THEOREM ThreadsKnown == PublicationSpec => []ThreadsAreKnown
<1>1. Books /\ IsTable(findings) => ThreadsAreKnown  BY Zenon DEF Books
<1> QED BY <1>1, BooksAreKept, PTL

\* writer.go: a discussion marked as resolved is resolved on the forge, or
\* marked by a command, also when answers are lost and runs are repeated.
THEOREM ResolvedRowsTrue == PublicationSpec => []ResolvedRowsAreTrue
<1>1. Books /\ IsTable(findings) => ResolvedRowsAreTrue  BY Zenon DEF Books
<1> QED BY <1>1, BooksAreKept, PTL

-----------------------------------------------------------------------------
(* One comment per finding and run                                         *)

Open == {"pending", "running"}

\* The labels before the status of the run is written.
Early == {"list", "match", "supersede", "status"}

\* The labels of resolveCompletedFindings.
Settling == {"settle", "resolve", "resolved", "mark", "supersedes"}

\* There is no comment of the run r.
Silent(comments, r) == \A g \in DOMAIN comments : comments[g].run # r

\* The goroutine p may still make a comment.
MayComment(p) == p.pc \in Unwritten \/ (p.pc = "final" /\ p.answer # "ok")

\* What the worker x, which has its run for itself, has not written yet.
NotWritten(x, comments, lost) ==
  /\ x.pc \in Early \cup {"writeback"} => Silent(comments, x.run)
  /\ (x.pc \in Settling \/ (x.pc = "posting" /\ 0 \notin DOMAIN x.posts)) =>
       \A g \in DOMAIN comments : comments[g].run = x.run => comments[g].finding # 0
  /\ \A f \in DOMAIN x.posts : MayComment(x.posts[f]) =>
       \A g \in DOMAIN comments \ lost :
         comments[g].run # x.run \/ comments[g].finding # f

\* A run that was never shared has one worker; until its status is written
\* it may be begun again, and then there is no comment of it yet.
RunsInTurn ==
  /\ DOMAIN status = Runs
  /\ \A w \in Workers : work[w].pc = "idle" \/ work[w].run \in Runs
  /\ \A v, w \in Workers :
       (work[v].run = work[w].run /\ work[v].run \in Runs \ shared) => v = w
  /\ \A r \in Runs \ shared : status[r] \in Open =>
       /\ Silent(forge, r)
       /\ \A w \in Workers : work[w].run = r => work[w].pc \in Early
  /\ \A w \in Workers :
       work[w].run \in Runs \ shared => NotWritten(work[w], forge, cut)

\* The comment a is explained beside b.
Explained(a, b, comments, lost, sh) ==
  \/ a = b \/ {a, b} \cap lost # {}
  \/ comments[a].run # comments[b].run \/ comments[a].run \in sh
  \/ comments[a].finding # comments[b].finding
  \/ "github" \in {comments[a].kind, comments[b].kind}
  \/ /\ {comments[a].kind, comments[b].kind} \cap {"summary", "parser"} # {}
     /\ comments[a].kind # comments[b].kind

Comments == RunsInTurn /\ CommentsAreExplained

\* What the run checks says the same.
LEMMA ExplainedPairs ==
  /\ CommentsAreExplained <=> \A a, b \in DOMAIN forge : Explained(a, b, forge, cut, shared)
  /\ CommentsAreExplained' <=>
       \A a, b \in DOMAIN forge' : Explained(a, b, forge', cut', shared')
BY Zenon DEF CommentsAreExplained, Explained

\* Comments stay as they are, but for being resolved.
CommentsStay ==
  /\ DOMAIN forge \subseteq DOMAIN forge' /\ cut \subseteq cut'
  /\ \A g \in DOMAIN forge :
       /\ forge'[g].run = forge[g].run /\ forge'[g].finding = forge[g].finding
       /\ forge'[g].kind = forge[g].kind

\* No run is opened.
NothingOpens ==
  /\ DOMAIN status' = DOMAIN status
  /\ \A r \in Runs : status'[r] \in Open => status[r] \in Open

\* The comments a worker makes are of its run, and not before the writeback.
OwnComments(w) ==
  \A g \in DOMAIN forge' \ DOMAIN forge :
    /\ forge'[g].run = work[w].run
    /\ work[w].pc \notin Early \cup {"writeback"}

\* A comment is explained when there is no other of its run and its finding.
NewComments(w) ==
  work[w].run \in Runs \ shared =>
    \A a \in DOMAIN forge' \ DOMAIN forge :
      \/ a \in cut' \/ forge'[a].kind = "github"
      \/ \A b \in DOMAIN forge' : b # a =>
           \/ b \in cut' \/ forge'[b].run # forge'[a].run
           \/ forge'[b].finding # forge'[a].finding

\* The other workers' runs are not affected.
LEMMA Bystanders ==
  ASSUME NEW w \in Workers, CommentsStay, OwnComments(w), NEW x, x.run # work[w].run,
         NotWritten(x, forge, cut)
  PROVE  NotWritten(x, forge', cut')
<1>1. \A g \in DOMAIN forge' : forge'[g].run = x.run =>
        /\ g \in DOMAIN forge /\ forge[g].run = x.run
        /\ forge'[g].finding = forge[g].finding
        /\ g \notin cut' => g \notin cut
  BY Zenon DEF CommentsStay, OwnComments
<1>2. Silent(forge, x.run) => Silent(forge', x.run)  BY <1>1, Zenon DEF Silent
<1> QED BY <1>1, <1>2, Zenon DEF NotWritten

\* Such a step of one worker keeps the runs in turn and the comments explained.
LEMMA CommentsByStep ==
  ASSUME Comments, NEW w \in Workers, Moves(w), CommentsStay, NothingOpens,
         OwnComments(w), NewComments(w), UNCHANGED shared,
         work[w].pc # "idle", work'[w] = Idle \/ work'[w].run = work[w].run,
         work'[w].run \in Runs \ shared =>
           /\ NotWritten(work'[w], forge', cut')
           /\ status'[work'[w].run] \in Open => work'[w].pc \in Early
  PROVE  Comments'
<1> DEFINE x == work[w]  y == work'[w]
<1>0. 0 \notin Runs /\ shared' = shared  BY ReportsAssumption
<1>i. Idle.run = 0 /\ Idle.pc = "idle"  BY Zenon DEF Idle
<1>x. x.run \in Runs  BY Zenon DEF Comments, RunsInTurn
<1>1. \A v \in Workers : v # w => work'[v] = work[v]  BY Zenon DEF Moves
<1>2. RunsInTurn'
  <2>1. DOMAIN status' = Runs  BY Zenon DEF Comments, RunsInTurn, NothingOpens
  <2>0. \A v \in Workers : work'[v].pc = "idle" \/ work'[v].run \in Runs
    BY <1>1, <1>i, <1>x, Zenon DEF Comments, RunsInTurn
  <2>2. ASSUME NEW v \in Workers, NEW u \in Workers, work'[v].run = work'[u].run,
               work'[v].run \in Runs \ shared
        PROVE  v = u
    <3>1. work[v].run = work'[v].run /\ work[u].run = work'[u].run
      BY <1>0, <1>1, <1>i, <2>2, Zenon
    <3> QED BY <2>2, <3>1, Zenon DEF Comments, RunsInTurn
  <2>3. ASSUME NEW r \in Runs \ shared, status'[r] \in Open
        PROVE  /\ Silent(forge', r)
               /\ \A v \in Workers : work'[v].run = r => work'[v].pc \in Early
    <3>1. /\ Silent(forge, r)
          /\ \A v \in Workers : work[v].run = r => work[v].pc \in Early
      BY <2>3, Zenon DEF NothingOpens, Comments, RunsInTurn
    <3>2. Silent(forge', r)  BY <3>1, Zenon DEF Silent, CommentsStay, OwnComments
    <3> QED BY <1>1, <2>3, <3>1, <3>2, Zenon
  <2>4. ASSUME NEW v \in Workers, work'[v].run \in Runs \ shared
        PROVE  NotWritten(work'[v], forge', cut')
    <3>1. CASE v # w
      <4>1. work'[v] = work[v] /\ NotWritten(work[v], forge, cut)
        BY <1>1, <2>4, <3>1, Zenon DEF Comments, RunsInTurn
      <4>2. work[v].run # work[w].run  BY <2>4, <3>1, <4>1, Zenon DEF Comments, RunsInTurn
      <4> QED BY <4>1, <4>2, Bystanders, Zenon
    <3> QED BY <2>4, <3>1, Zenon
  <2> QED BY <1>0, <2>0, <2>1, <2>2, <2>3, <2>4, Zenon DEF RunsInTurn
<1>3. CommentsAreExplained'
  <2>1. ASSUME NEW a \in DOMAIN forge, NEW b \in DOMAIN forge
        PROVE  Explained(a, b, forge', cut', shared)
    <3>1. Explained(a, b, forge, cut, shared)
      BY ExplainedPairs, Zenon DEF Comments
    <3> QED BY <3>1, Zenon DEF Explained, CommentsStay
  <2>2. ASSUME NEW a \in DOMAIN forge' \ DOMAIN forge, NEW b \in DOMAIN forge'
        PROVE  /\ Explained(a, b, forge', cut', shared)
               /\ Explained(b, a, forge', cut', shared)
    <3>1. CASE x.run \in Runs \ shared
      BY <3>1, Zenon DEF NewComments, Explained
    <3>2. CASE x.run \in shared
      BY <3>2, Zenon DEF OwnComments, Explained
    <3> QED BY <1>x, <3>1, <3>2, Zenon
  <2> QED BY <1>0, <2>1, <2>2, ExplainedPairs, Zenon
<1> QED BY <1>2, <1>3, Zenon DEF Comments

\* Such a step of no worker.
LEMMA CommentsAside ==
  ASSUME Comments, UNCHANGED <<work, forge, cut, shared>>, NothingOpens
  PROVE  Comments'
<1>1. work' = work /\ forge' = forge /\ cut' = cut /\ shared' = shared  OBVIOUS
<1>2. RunsInTurn'  BY <1>1, Zenon DEF Comments, RunsInTurn, NothingOpens
<1>3. CommentsAreExplained'  BY <1>1, ExplainedPairs, Zenon DEF Comments
<1> QED BY <1>2, <1>3, Zenon DEF Comments

\* Nothing is written to the forge.
LEMMA ForgeLeftAlone ==
  ASSUME NEW w, UNCHANGED forge, cut \subseteq cut'
  PROVE  CommentsStay /\ OwnComments(w) /\ NewComments(w)
<1>1. forge' = forge  OBVIOUS
<1> QED BY <1>1, Zenon DEF CommentsStay, OwnComments, NewComments

\* No statement on review_runs, or one that does not open a run.
ClosingStatement ==
  \/ UNCHANGED status
  \/ \E r, s : /\ status' = [status EXCEPT ![r] = s]
               /\ s \in Open => s = status[r]

\* Such a statement.
LEMMA StatusStays ==
  ASSUME Comments, ClosingStatement
  PROVE  NothingOpens
<1>0. DOMAIN status = Runs  BY Zenon DEF Comments, RunsInTurn
<1>1. CASE UNCHANGED status  BY <1>1, Zenon DEF NothingOpens
<1>2. ASSUME NEW r, NEW s, status' = [status EXCEPT ![r] = s], s \in Open => s = status[r]
      PROVE  NothingOpens
  <2>1. \A q \in Runs : status'[q] = IF q = r THEN s ELSE status[q]
    BY <1>0, <1>2, Zenon
  <2> QED BY <1>2, <2>1, Zenon DEF NothingOpens
<1> QED BY <1>1, <1>2, Zenon DEF ClosingStatement

\* A worker leaves.
LEMMA CommentsByLeaving ==
  ASSUME Comments, Books, NEW w \in Workers, work[w].pc # "idle",
         work' = [work EXCEPT ![w] = Idle], CommentsStay, NothingOpens,
         OwnComments(w), NewComments(w), UNCHANGED shared
  PROVE  Comments'
<1>1. Moves(w) /\ work'[w] = Idle  BY Zenon DEF Books, Structure, Moves
<1>2. Idle.run \notin Runs  BY ReportsAssumption DEF Idle
<1> QED BY <1>1, <1>2, CommentsByStep, Zenon

\* What is known of a worker that has its run for itself.
LEMMA AloneFacts ==
  ASSUME Comments, NEW w \in Workers, work[w].run \in Runs \ shared
  PROVE  /\ NotWritten(work[w], forge, cut)
         /\ work[w].pc \notin Early => status[work[w].run] \notin Open
BY Zenon DEF Comments, RunsInTurn

\* A worker moves on and writes nothing to the forge; y.pc is further on, and
\* it has no goroutines.
LEMMA CommentsByQuiet ==
  ASSUME Comments, NEW w \in Workers, Moves(w), UNCHANGED <<forge, cut, shared>>,
         NothingOpens, work[w].pc # "idle", work'[w].run = work[w].run,
         DOMAIN work'[w].posts = {}, work'[w].pc # "posting",
         work'[w].pc \in Early \cup {"writeback"} => work[w].pc \in Early \cup {"writeback"},
         work'[w].pc \in Early => work[w].pc \in Early,
         work'[w].pc \notin Early => \/ work[w].pc \notin Early
                                     \/ status'[work[w].run] \notin Open
                                     \/ work[w].run \notin Runs,
         work'[w].pc \in Settling => \/ work[w].pc \in Settling
                                     \/ work[w].pc = "posting" /\ 0 \notin DOMAIN work[w].posts
  PROVE  Comments'
<1>1. CommentsStay /\ OwnComments(w) /\ NewComments(w)
  BY ForgeLeftAlone, Zenon
<1>2. forge' = forge /\ cut' = cut  OBVIOUS
<1>3. ASSUME work'[w].run \in Runs \ shared
      PROVE  /\ NotWritten(work'[w], forge', cut')
             /\ status'[work'[w].run] \in Open => work'[w].pc \in Early
  <2>1. /\ NotWritten(work[w], forge, cut)
        /\ work[w].pc \notin Early => status[work[w].run] \notin Open
    BY <1>3, AloneFacts, Zenon
  <2>2. work[w].pc \notin Early => status'[work[w].run] \notin Open
    BY <1>3, <2>1, Zenon DEF NothingOpens
  <2>3. status'[work'[w].run] \in Open => work'[w].pc \in Early
    BY <1>3, <2>2, Zenon
  <2>4. NotWritten(work'[w], forge', cut')
    BY <1>2, <2>1, Zenon DEF NotWritten
  <2> QED BY <2>3, <2>4, Zenon
<1> QED BY <1>1, <1>3, CommentsByStep, Zenon

-----------------------------------------------------------------------------
(* Before the writeback                                                    *)

\* The statements of the deduplication.
LEMMA DedupComments ==
  ASSUME Comments, Books, NEW w \in Workers, PersistStep(w)
  PROVE  Comments'
<1> DEFINE x == work[w]  y == work'[w]
           quiet == /\ Moves(w) /\ y.run = x.run /\ y.posts = x.posts /\ x.pc \in Early
                    /\ y.pc \in Early /\ UNCHANGED status
<1>1. work = [v \in Workers |-> work[v]] /\ Has(x, WorkFields) /\ WorkerShape(x)
  BY Zenon DEF Books, Structure, WorkerShape
<1>2. ASSUME ListExisting(w) PROVE quiet
  <2>1. /\ x.pc = "list" /\ Moves(w) /\ UNCHANGED status
        /\ y = [x EXCEPT !.pc = "match", !.existing = ListActiveFindingsByMR(findings),
                         !.todo = persisted(x.report)]
    BY <1>1, <1>2, Zenon DEF ListExisting, At, Moves
  <2> QED BY <1>1, <2>1, Zenon DEF Has, WorkFields, Early
<1>3. ASSUME MatchFinding(w) PROVE quiet
  <2>1. x.pc = "match" /\ UNCHANGED status  BY <1>3, Zenon DEF MatchFinding, At
  <2>2. \/ work' = [work EXCEPT ![w].todo = @ \ {Min(@)}]
        \/ \E n, d : Decide(w, n, d)
    BY <1>3, Zenon DEF MatchFinding
  <2>3. ASSUME work' = [work EXCEPT ![w].todo = @ \ {Min(@)}] PROVE quiet
    <3>1. Moves(w) /\ y = [x EXCEPT !.todo = @ \ {Min(@)}]
      BY <1>1, <2>3, Zenon DEF Moves
    <3> QED BY <1>1, <2>1, <3>1, Zenon DEF Has, WorkFields, Early
  <2>4. ASSUME NEW n, NEW d, Decide(w, n, d) PROVE quiet
    <3> DEFINE todo == x.todo \ {Min(x.todo)}
               matched == IF d.id = 0 THEN x.matched ELSE x.matched \cup {d.id}
               ids == IF d.id = 0 THEN <<>> ELSE <<d.id, Len(findings) + 1>>
    <3>1. /\ Moves(w)
          /\ \/ y = [x EXCEPT !.todo = todo, !.matched = matched]
             \/ y = [x EXCEPT !.todo = todo, !.matched = matched, !.replaced = ids,
                              !.pc = IF d.id = 0 THEN "match" ELSE "supersede"]
      BY <1>1, <2>4, Zenon DEF Decide, Moves
    <3> HIDE DEF todo, matched, ids
    <3> QED BY <1>1, <2>1, <3>1, Zenon DEF Has, WorkFields, Early
  <2> QED BY <2>2, <2>3, <2>4, Zenon
<1>4. ASSUME SupersedeFinding(w) PROVE quiet
  <2>1. /\ x.pc = "supersede" /\ Moves(w) /\ UNCHANGED status
        /\ y = [x EXCEPT !.pc = "match", !.replaced = <<>>]
    BY <1>1, <1>4, Zenon DEF SupersedeFinding, At, Moves
  <2> QED BY <1>1, <2>1, Zenon DEF Has, WorkFields, Early
<1>5. ASSUME MissingFinding(w) PROVE quiet
  <2>1. /\ x.pc = "match" /\ Moves(w) /\ UNCHANGED status
        /\ \E a : y = [x EXCEPT !.matched = a]
    BY <1>1, <1>5, Zenon DEF MissingFinding, At, Moves
  <2> QED BY <1>1, <2>1, Zenon DEF Has, WorkFields, Early
<1>6. ASSUME LoadOutcome(w) PROVE quiet
  <2>1. /\ x.pc = "match" /\ Moves(w) /\ UNCHANGED status
        /\ \E a : y = [x EXCEPT !.pc = "status", !.outcome = a]
    BY <1>1, <1>6, Zenon DEF LoadOutcome, At, Moves
  <2> QED BY <1>1, <2>1, Zenon DEF Has, WorkFields, Early
<1>7. UNCHANGED <<forge, cut, shared>>  BY Zenon DEF PersistStep, writerVars
<1>8. ASSUME quiet PROVE Comments'
  <2>1. DOMAIN x.posts = {} /\ y.pc \notin Settling \cup {"posting", "writeback"}
        /\ x.pc # "idle"
    BY <1>1, <1>8, Zenon DEF WorkerShape, Early, Settling
  <2>2. NothingOpens  BY <1>8, StatusStays, Zenon DEF ClosingStatement
  <2> QED BY <1>7, <1>8, <2>1, <2>2, CommentsByQuiet, Zenon
<1>9. ASSUME PersistStatus(w) PROVE Comments'
  <2> DEFINE s == canonicalRunStatus(x.report.status, DOMAIN x.outcome)
  <2>1. /\ x.pc = "status" /\ Moves(w) /\ status' = [status EXCEPT ![x.run] = s]
        /\ y = [x EXCEPT !.pc = "writeback"]
    BY <1>1, <1>9, Zenon DEF PersistStatus, At, Moves
  <2>2. s \notin Open  BY DEF canonicalRunStatus, Open
  <2> HIDE DEF s
  <2>3. y.pc = "writeback" /\ y.run = x.run /\ y.posts = x.posts
    BY <1>1, <2>1, Zenon DEF Has, WorkFields
  <2>4. DOMAIN x.posts = {}  BY <1>1, <2>1, Zenon DEF WorkerShape
  <2>5. NothingOpens  BY <2>1, <2>2, StatusStays, Zenon DEF ClosingStatement
  <2>6. x.run \in Runs => status'[x.run] \notin Open
    <3>1. DOMAIN status = Runs  BY Zenon DEF Comments, RunsInTurn
    <3> QED BY <2>1, <2>2, <3>1, Zenon
  <2>7. /\ "writeback" \notin Settling /\ "writeback" # "posting" /\ "writeback" \notin Early
        /\ "status" \in Early /\ "status" # "idle"
    BY DEF Settling, Early
  <2> QED BY <1>7, <2>1, <2>3, <2>4, <2>5, <2>6, <2>7, CommentsByQuiet, Zenon
<1> QED BY <1>2, <1>3, <1>4, <1>5, <1>6, <1>8, <1>9, Zenon DEF PersistStep, DedupStep

\* Begin: an open run has no comments, and who has it already makes it shared.
LEMMA BeginComments ==
  ASSUME Comments, Books, NEW w \in Workers, NEW r \in Runs, NEW report,
         Begin(w, r, report)
  PROVE  Comments'
<1> DEFINE x == work[w]  y == work'[w]
<1>0. 0 \notin Runs  BY ReportsAssumption
<1>1. work = [v \in Workers |-> work[v]]  BY Zenon DEF Books, Structure
<1>2. /\ UNCHANGED <<forge, cut>> /\ status[r] \in Open
      /\ status' = [status EXCEPT ![r] = "running"]
      /\ shared' = shared \cup (({work[v].run : v \in Workers} \ {0}) \cap {r})
      /\ work' = [work EXCEPT ![w] = [Idle EXCEPT !.pc = "list", !.run = r,
                                                  !.report = report]]
  BY Zenon DEF Begin, Open
<1>3. Moves(w) /\ y = [Idle EXCEPT !.pc = "list", !.run = r, !.report = report]
  BY <1>1, <1>2, Zenon DEF Moves
<1>4. Has(Idle, WorkFields) /\ Idle.posts = NoCopy /\ DOMAIN NoCopy = {}
  BY Zenon DEF Idle, Has, WorkFields, NoCopy
<1>5. y.run = r /\ y.pc = "list" /\ DOMAIN y.posts = {}
  BY <1>3, <1>4, Zenon DEF Has, WorkFields
<1>6. \A v \in Workers : v # w => work'[v] = work[v]  BY <1>3, Zenon DEF Moves
<1>7. forge' = forge /\ cut' = cut /\ shared \subseteq shared'  BY <1>2, Zenon
<1>8. r \notin shared' => r \notin shared /\ \A v \in Workers : work[v].run # r
  BY <1>0, <1>2, Zenon
<1>9. r \notin shared' => Silent(forge, r)
  BY <1>2, <1>8, Zenon DEF Comments, RunsInTurn
<1>10. RunsInTurn'
  <2>1. /\ DOMAIN status = Runs /\ DOMAIN status' = Runs
        /\ \A q \in Runs : status'[q] = IF q = r THEN "running" ELSE status[q]
    BY <1>2, Zenon DEF Comments, RunsInTurn
  <2>2. \A v \in Workers : work'[v].pc = "idle" \/ work'[v].run \in Runs
    BY <1>5, <1>6, Zenon DEF Comments, RunsInTurn
  <2>3. ASSUME NEW v \in Workers, NEW u \in Workers, work'[v].run = work'[u].run,
               work'[v].run \in Runs \ shared'
        PROVE  v = u
    BY <1>5, <1>6, <1>7, <1>8, <2>3, Zenon DEF Comments, RunsInTurn
  <2>4. ASSUME NEW q \in Runs \ shared', status'[q] \in Open
        PROVE  /\ Silent(forge, q)
               /\ \A v \in Workers : work'[v].run = q => work'[v].pc \in Early
    <3>1. CASE q = r  BY <1>5, <1>6, <1>8, <1>9, <3>1, Zenon DEF Early
    <3>2. CASE q # r
      BY <1>5, <1>6, <1>7, <2>1, <2>4, <3>2, Zenon DEF Comments, RunsInTurn
    <3> QED BY <3>1, <3>2, Zenon
  <2>5. ASSUME NEW v \in Workers, work'[v].run \in Runs \ shared'
        PROVE  NotWritten(work'[v], forge, cut)
    <3>1. CASE v = w
      BY <1>5, <1>9, <2>5, <3>1, Zenon DEF NotWritten, Settling
    <3>2. CASE v # w
      BY <1>6, <1>7, <2>5, <3>2, Zenon DEF Comments, RunsInTurn
    <3> QED BY <3>1, <3>2, Zenon
  <2> QED BY <1>7, <2>1, <2>2, <2>3, <2>4, <2>5, Zenon DEF RunsInTurn
<1>11. CommentsAreExplained'
  <2>1. \A a, b \in DOMAIN forge : Explained(a, b, forge, cut, shared)
    BY ExplainedPairs, Zenon DEF Comments
  <2>2. \A a, b \in DOMAIN forge : Explained(a, b, forge, cut, shared')
    BY <1>7, <2>1, Zenon DEF Explained
  <2> QED BY <1>7, <2>2, ExplainedPairs, Zenon
<1> QED BY <1>10, <1>11, Zenon DEF Comments

-----------------------------------------------------------------------------
(* The goroutines                                                          *)

\* A goroutine goes on: it may comment only if it might before, and a comment
\* it makes is the last one or is counted as cut off.
LEMMA CommentsByPost ==
  ASSUME Comments, Books, NEW w \in Workers, NEW f \in DOMAIN work[w].posts, NEW q,
         Goes(w, f, q), UNCHANGED <<shared, status>>, CommentsStay,
         MayComment(q) => MayComment(work[w].posts[f]),
         \A g \in DOMAIN forge' \ DOMAIN forge :
           /\ forge'[g].run = work[w].run /\ forge'[g].finding = f
           /\ g \in cut' \/ (MayComment(work[w].posts[f]) /\ ~MayComment(q)),
         \A g, h \in DOMAIN forge' \ DOMAIN forge : g = h
  PROVE  Comments'
<1> DEFINE x == work[w]  y == work'[w]
<1>0. PostTurns(w, f, q)  BY GoesFacts, Zenon
<1>1. /\ Moves(w) /\ y.pc = x.pc /\ y.run = x.run
      /\ DOMAIN y.posts = DOMAIN x.posts /\ y.posts[f] = q
      /\ \A g \in DOMAIN x.posts \ {f} : y.posts[g] = x.posts[g]
  BY <1>0, Zenon DEF PostTurns
<1>2. x.pc = "posting" /\ x.pc \notin Early \cup {"writeback", "idle"} \cup Settling
  BY PostFacts, Zenon DEF Early, Settling
<1>3. NothingOpens  BY StatusStays, Zenon DEF ClosingStatement
<1>4. OwnComments(w)  BY <1>2, Zenon DEF OwnComments
<1>5. ASSUME x.run \in Runs \ shared
      PROVE  NotWritten(x, forge, cut) /\ status[x.run] \notin Open
  BY <1>2, <1>5, AloneFacts, Zenon
<1>6. NewComments(w)
  <2> SUFFICES ASSUME x.run \in Runs \ shared, NEW a \in DOMAIN forge' \ DOMAIN forge,
                      a \notin cut', NEW b \in DOMAIN forge', b # a, b \notin cut',
                      forge'[b].run = forge'[a].run
               PROVE  forge'[b].finding # forge'[a].finding
    BY Zenon DEF NewComments
  <2>1. b \in DOMAIN forge /\ b \notin cut  BY Zenon DEF CommentsStay
  <2>2. forge[b].run = x.run /\ MayComment(x.posts[f]) /\ forge'[a].finding = f
    BY <2>1, Zenon DEF CommentsStay
  <2>3. forge[b].finding # f  BY <1>5, <2>1, <2>2, Zenon DEF NotWritten
  <2> QED BY <2>1, <2>2, <2>3, Zenon DEF CommentsStay
<1>7. ASSUME x.run \in Runs \ shared PROVE NotWritten(y, forge', cut')
  <2>1. 0 \notin DOMAIN x.posts =>
          \A g \in DOMAIN forge' : forge'[g].run = x.run => forge'[g].finding # 0
    BY <1>2, <1>5, <1>7, Zenon DEF NotWritten, CommentsStay
  <2>2. ASSUME NEW h \in DOMAIN x.posts, MayComment(y.posts[h]),
               NEW g \in DOMAIN forge' \ cut', forge'[g].run = x.run
        PROVE  forge'[g].finding # h
    <3>1. MayComment(x.posts[h])  BY <1>1, <2>2, Zenon
    <3>2. CASE g \in DOMAIN forge
      <4>1. /\ g \notin cut /\ forge[g].run = x.run
            /\ forge'[g].finding = forge[g].finding
        BY <2>2, <3>2, Zenon DEF CommentsStay
      <4> QED BY <1>5, <1>7, <3>1, <3>2, <4>1, Zenon DEF NotWritten
    <3>3. CASE g \notin DOMAIN forge  BY <1>1, <2>2, <3>3, Zenon
    <3> QED BY <3>2, <3>3, Zenon
  <2> QED BY <1>1, <1>2, <2>1, <2>2, Zenon DEF NotWritten
<1>8. status' = status  OBVIOUS
<1> QED BY <1>1, <1>2, <1>3, <1>4, <1>5, <1>6, <1>7, <1>8, CommentsByStep, Zenon

\* The same when nothing is written to the forge.
LEMMA CommentsByTurn ==
  ASSUME Comments, Books, NEW w \in Workers, NEW f \in DOMAIN work[w].posts, NEW q,
         Goes(w, f, q), UNCHANGED <<shared, status, forge, cut>>,
         MayComment(q) => MayComment(work[w].posts[f])
  PROVE  Comments'
<1>1. forge' = forge /\ cut' = cut  OBVIOUS
<1>2. CommentsStay  BY <1>1, Zenon DEF CommentsStay
<1> QED BY <1>1, <1>2, CommentsByPost, Zenon

\* A worker gives up.
LEMMA CommentsByAbandon ==
  ASSUME Comments, Books, NEW w \in Workers, Abandon(w), work[w].pc # "idle",
         UNCHANGED <<forge, shared>>, ClosingStatement
  PROVE  Comments'
<1>1. work' = [work EXCEPT ![w] = Idle] /\ cut \subseteq cut'  BY Zenon DEF Abandon
<1>2. CommentsStay /\ OwnComments(w) /\ NewComments(w)  BY <1>1, ForgeLeftAlone, Zenon
<1> QED BY <1>1, <1>2, StatusStays, CommentsByLeaving, Zenon

\* CheckPost, ensureAction and the two statements that record a comment.
LEMMA RecordComments ==
  ASSUME Comments, Books, NEW w \in Workers, NEW f \in DOMAIN work[w].posts,
         \/ CheckPost(w, f) \/ ensureAction(w, f) \/ persistDiscussion(w, f)
         \/ persistFindingDiscussionLink(w, f),
         UNCHANGED shared
  PROVE  Comments'
<1> DEFINE p == work[w].posts[f]
           moves(l) == Goes(w, f, [p EXCEPT !.pc = l]) /\ UNCHANGED cut
           calls == Goes(w, f, [p EXCEPT !.pc = "call", !.tries = 0]) /\ UNCHANGED cut
<1>1. Has(p, PostFields) /\ work[w].pc # "idle"  BY PostFacts, Zenon DEF PostShape
<1>2. /\ UNCHANGED <<status, forge>>
      /\ \/ p.pc = "check" /\ \E l \in {"done", "ensure"} : moves(l)
         \/ p.pc = "ensure" /\ (moves("done") \/ calls \/ Abandon(w))
         \/ p.pc = "row" /\ \E l \in {"done", "link"} : moves(l)
         \/ p.pc = "link" /\ moves("done")
  <2>1. UNCHANGED <<status, forge>>
    BY Zenon DEF CheckPost, ensureAction, persistDiscussion, persistFindingDiscussionLink,
                 writerVars
  <2>2. CASE CheckPost(w, f)  BY <2>1, <2>2, Zenon DEF CheckPost, writerVars
  <2>3. CASE ensureAction(w, f)  BY <2>1, <2>3, Zenon DEF ensureAction
  <2>4. CASE persistDiscussion(w, f)
    BY <2>1, <2>4, Zenon DEF persistDiscussion, writerVars
  <2>5. CASE persistFindingDiscussionLink(w, f)
    BY <2>1, <2>5, Zenon DEF persistFindingDiscussionLink, writerVars
  <2> QED BY <2>2, <2>3, <2>4, <2>5, Zenon
<1>3. CASE Abandon(w)
  BY <1>1, <1>2, <1>3, CommentsByAbandon, Zenon DEF ClosingStatement
<1>4. ASSUME NEW l, moves(l), l \in {"done", "link"} \/ (l = "ensure" /\ p.pc = "check")
      PROVE  Comments'
  <2> DEFINE q == [p EXCEPT !.pc = l]
  <2>1. q.pc = l /\ Goes(w, f, q)  BY <1>1, <1>4, Zenon DEF Has, PostFields
  <2> HIDE DEF q
  <2>2. MayComment(q) => MayComment(p)
    BY <1>4, <2>1, Zenon DEF MayComment, Unwritten
  <2> QED BY <1>2, <1>4, <2>1, <2>2, CommentsByTurn, Zenon
<1>5. ASSUME calls, p.pc = "ensure" PROVE Comments'
  <2> DEFINE q == [p EXCEPT !.pc = "call", !.tries = 0]
  <2>1. Goes(w, f, q)  BY <1>5, Zenon
  <2> HIDE DEF q
  <2>2. MayComment(p)  BY <1>5, Zenon DEF MayComment, Unwritten
  <2> QED BY <1>2, <1>5, <2>1, <2>2, CommentsByTurn, Zenon
<1> HIDE DEF moves, calls
<1> QED BY <1>2, <1>3, <1>4, <1>5, Zenon

\* CallForge: the goroutine may comment, and has then made its comment.
LEMMA CallForgeComments ==
  ASSUME Comments, Books, NEW w \in Workers, NEW f \in DOMAIN work[w].posts,
         CallForge(w, f), UNCHANGED shared
  PROVE  Comments'
<1> DEFINE p == work[w].posts[f]
           c == [run |-> work[w].run, finding |-> f, kind |-> p.kind,
                 resolved |-> FALSE]
           gid == Len(forge) + 1
           made == Append(forge, c)
           q == [p EXCEPT !.pc = "final", !.answer = "ok", !.gid = gid]
<1>1. Has(p, PostFields) /\ Tables  BY PostFacts, Zenon DEF PostShape
<1>2. /\ p.pc = "call" /\ UNCHANGED <<threads, status>>
      /\ \/ forge' = made /\ UNCHANGED cut /\ Goes(w, f, q)
         \/ \E e \in WriteErrors :
              /\ Goes(w, f, retryWrite(p, e))
              /\ \/ UNCHANGED <<forge, cut>>
                 \/ forge' = made /\ cut' = cut \cup {gid}
  BY Zenon DEF CallForge, storeVars
<1>3. Has(c, CommentFields) /\ c.run = work[w].run /\ c.finding = f
  BY Zenon DEF Has, CommentFields
<1>4. q.pc = "final" /\ q.answer = "ok"  BY <1>1, Zenon DEF Has, PostFields
<1> HIDE DEF c, q
<1>5. ASSUME forge' = made, cut \subseteq cut'
      PROVE  /\ CommentsStay /\ forge'[gid] = c
             /\ DOMAIN forge' = DOMAIN forge \cup {gid}
  <2>1. Grow /\ Adds(forge, forge', c)  BY <1>1, <1>2, <1>3, <1>5, CommentMade, Zenon
  <2> QED BY <1>5, <2>1, Zenon DEF Adds, Grow, CommentsStay
<1>6. MayComment(p) /\ ~MayComment(q)
  BY <1>2, <1>4, Zenon DEF MayComment, Unwritten
<1> HIDE DEF made, gid
<1>7. CASE forge' = made /\ UNCHANGED cut /\ Goes(w, f, q)
  BY <1>2, <1>3, <1>5, <1>6, <1>7, CommentsByPost, Zenon
<1>8. ASSUME NEW e \in WriteErrors, Goes(w, f, retryWrite(p, e)),
             \/ UNCHANGED <<forge, cut>>
             \/ forge' = made /\ cut' = cut \cup {gid}
      PROVE  Comments'
  <2> DEFINE r == retryWrite(p, e)
  <2>1. Goes(w, f, r)  BY <1>8, Zenon
  <2> HIDE DEF r
  <2>2. CASE UNCHANGED <<forge, cut>>  BY <1>2, <1>6, <2>1, <2>2, CommentsByTurn, Zenon
  <2>3. CASE forge' = made /\ cut' = cut \cup {gid}
    BY <1>2, <1>3, <1>5, <1>6, <2>1, <2>3, CommentsByPost, Zenon
  <2> QED BY <1>8, <2>2, <2>3, Zenon
<1> QED BY <1>2, <1>7, <1>8, Zenon

\* finalizeAction: the next form of a comment is tried when none was made.
LEMMA finalizeActionComments ==
  ASSUME Comments, Books, NEW w \in Workers, NEW f \in DOMAIN work[w].posts,
         finalizeAction(w, f), UNCHANGED shared
  PROVE  Comments'
<1> DEFINE p == work[w].posts[f]
           l == IF f = 0 THEN "done" ELSE "row"
           q1 == [p EXCEPT !.pc = l]
           q2 == [p EXCEPT !.pc = "ensure", !.kind = Fallback[p.kind], !.answer = ""]
           r == work[w].run
           s == IF status[r] = "running" THEN "failed" ELSE status[r]
<1>1. Has(p, PostFields) /\ work[w].pc # "idle"  BY PostFacts, Zenon DEF PostShape
<1>2. /\ p.pc = "final" /\ UNCHANGED forge
      /\ \/ p.answer = "ok" /\ Goes(w, f, q1) /\ UNCHANGED <<status, cut>>
         \/ p.answer = "position" /\ Goes(w, f, q2) /\ UNCHANGED <<status, cut>>
         \/ status' = [status EXCEPT ![r] = s] /\ Abandon(w)
  BY Zenon DEF finalizeAction
<1>3. q1.pc = l /\ l \in {"done", "row"}  BY <1>1, Zenon DEF Has, PostFields
<1> HIDE DEF q1, q2, l
<1>4. CASE p.answer = "ok" /\ Goes(w, f, q1) /\ UNCHANGED <<status, cut>>
  <2>1. ~MayComment(q1)  BY <1>3, Zenon DEF MayComment, Unwritten
  <2> QED BY <1>2, <1>4, <2>1, CommentsByTurn, Zenon
<1>5. CASE p.answer = "position" /\ Goes(w, f, q2) /\ UNCHANGED <<status, cut>>
  <2>1. MayComment(p)  BY <1>2, <1>5, Zenon DEF MayComment
  <2> QED BY <1>2, <1>5, <2>1, CommentsByTurn, Zenon
<1>6. CASE status' = [status EXCEPT ![r] = s] /\ Abandon(w)
  <2>1. s \in Open => s = status[r]  BY Zenon DEF Open
  <2> HIDE DEF s
  <2>2. ClosingStatement  BY <1>6, <2>1 DEF ClosingStatement
  <2> QED BY <1>1, <1>2, <1>6, <2>2, CommentsByAbandon, Zenon
<1> QED BY <1>2, <1>4, <1>5, <1>6, Zenon

-----------------------------------------------------------------------------
(* Before and after the goroutines                                         *)

\* The goroutines start where nothing of theirs is written.
LEMMA CommentsByStart ==
  ASSUME Comments, Books, NEW w \in Workers, NEW D, NEW kd, Starts(w, D, kd),
         work[w].pc \notin Early \cup {"idle"},
         work[w].pc = "writeback" \/ (work[w].pc \in Settling /\ D = {0}),
         UNCHANGED <<forge, cut, shared, status>>
  PROVE  Comments'
<1> DEFINE x == work[w]  y == work'[w]  posts == [f \in D |-> Post(kd)]
<1>1. work = [v \in Workers |-> work[v]] /\ Has(x, WorkFields)
  BY Zenon DEF Books, Structure, WorkerShape
<1>2. Moves(w) /\ y = [x EXCEPT !.pc = "posting", !.posts = posts]
  BY <1>1, Zenon DEF Moves, Starts
<1>3. DOMAIN posts = D  OBVIOUS
<1> HIDE DEF posts
<1>4. y.posts = posts /\ y.pc = "posting" /\ y.run = x.run
  BY <1>1, <1>2, Zenon DEF Has, WorkFields
<1>5. CommentsStay /\ OwnComments(w) /\ NewComments(w)  BY ForgeLeftAlone, Zenon
<1>6. NothingOpens  BY StatusStays, Zenon DEF ClosingStatement
<1>7. forge' = forge /\ cut' = cut /\ status' = status  OBVIOUS
<1>8. ASSUME x.run \in Runs \ shared
      PROVE  NotWritten(y, forge', cut') /\ status'[x.run] \notin Open
  <2>1. NotWritten(x, forge, cut) /\ status[x.run] \notin Open
    BY <1>8, AloneFacts, Zenon
  <2>2. \A g \in DOMAIN forge : forge[g].run = x.run =>
          D = {0} /\ x.pc \in Settling /\ forge[g].finding # 0
    BY <2>1, Zenon DEF NotWritten, Silent
  <2> QED BY <1>3, <1>4, <1>7, <2>1, <2>2, Zenon DEF NotWritten, Early, Settling
<1> QED BY <1>2, <1>4, <1>5, <1>6, <1>8, CommentsByStep, Zenon

\* StartWriteback, StartSummary, ListSettled and FinishWriteback.
LEMMA PhaseComments ==
  ASSUME Comments, Books, NEW w \in Workers,
         StartWriteback(w) \/ StartSummary(w) \/ ListSettled(w) \/ FinishWriteback(w),
         UNCHANGED shared
  PROVE  Comments'
<1> DEFINE x == work[w]  y == work'[w]  D == DOMAIN ListFindingsByRun(findings, x.run)
<1>1. work = [v \in Workers |-> work[v]] /\ WorkerShape(x) /\ Has(x, WorkFields)
  BY Zenon DEF Books, Structure, WorkerShape
<1>2. UNCHANGED <<forge, cut, status, shared>>
  BY Zenon DEF StartWriteback, StartSummary, ListSettled, FinishWriteback, writerVars
<1>3. NothingOpens  BY <1>2, StatusStays, Zenon DEF ClosingStatement
<1>4. /\ "writeback" \notin Early \cup {"idle"}
      /\ "settle" \notin Early \cup {"idle"} /\ "settle" \in Settling
      /\ "posting" \notin Early \cup {"idle", "writeback"} \cup Settling
      /\ \A l \in {"gate", "publish"} :
           l \notin Early \cup {"posting", "writeback"} \cup Settling
      /\ "settle" \notin {"posting", "writeback"}
  BY DEF Early, Settling
<1>5. CASE StartWriteback(w)
  <2>1. /\ x.pc = "writeback"
        /\ \/ work' = [work EXCEPT ![w].pc = "publish", ![w].todo = Candidates(x.report)]
           \/ work' = [work EXCEPT ![w].pc = "gate"]
           \/ Starts(w, {0}, "parser") \/ Starts(w, D, "diff")
    BY <1>5, Zenon DEF StartWriteback, At, Starts
  <2> HIDE DEF D
  <2>2. CASE Starts(w, {0}, "parser") \/ Starts(w, D, "diff")
    BY <1>2, <1>4, <2>1, <2>2, CommentsByStart, Zenon
  <2>3. ASSUME \/ work' = [work EXCEPT ![w].pc = "publish", ![w].todo = Candidates(x.report)]
               \/ work' = [work EXCEPT ![w].pc = "gate"]
        PROVE  Comments'
    <3>1. /\ Moves(w)
          /\ \/ y = [x EXCEPT !.pc = "publish", !.todo = Candidates(x.report)]
             \/ y = [x EXCEPT !.pc = "gate"]
      BY <1>1, <2>3, Zenon DEF Moves
    <3>2. y.posts = x.posts /\ y.pc \in {"publish", "gate"} /\ y.run = x.run
      BY <1>1, <3>1, Zenon DEF Has, WorkFields
    <3>3. DOMAIN y.posts = {}  BY <1>1, <2>1, <3>2, Zenon DEF WorkerShape
    <3> QED BY <1>2, <1>3, <1>4, <2>1, <3>1, <3>2, <3>3, CommentsByQuiet, Zenon
  <2> QED BY <2>1, <2>2, <2>3, Zenon
<1>6. CASE StartSummary(w)
  <2>1. x.pc = "settle" /\ Starts(w, {0}, "summary")
    BY <1>6, Zenon DEF StartSummary, At, Starts
  <2> QED BY <1>2, <1>4, <2>1, CommentsByStart, Zenon
<1>7. CASE ListSettled(w) \/ FinishWriteback(w)
  <2>1. x.pc = "posting" /\ Moves(w) /\ DOMAIN NoCopy = {}
        /\ \/ /\ 0 \notin DOMAIN x.posts
              /\ \E a : \E l \in {"settle", "gate"} :
                   y = [x EXCEPT !.pc = l, !.posts = NoCopy, !.settle = a]
           \/ y = [x EXCEPT !.pc = "gate", !.posts = NoCopy]
    BY <1>1, <1>7, Zenon DEF ListSettled, FinishWriteback, At, Moves, NoCopy
  <2>2. /\ y.posts = NoCopy /\ y.run = x.run
        /\ y.pc = "gate" \/ (y.pc = "settle" /\ 0 \notin DOMAIN x.posts)
    BY <1>1, <2>1, Zenon DEF Has, WorkFields
  <2> QED BY <1>2, <1>3, <1>4, <2>1, <2>2, CommentsByQuiet, Zenon
<1> QED BY <1>5, <1>6, <1>7, Zenon

-----------------------------------------------------------------------------
(* Settled discussions, GitHub, the gate and what comes from outside       *)

\* A worker settles discussions; comments may be resolved.
LEMMA CommentsBySettler ==
  ASSUME Comments, Books, NEW w \in Workers, Moves(w), UNCHANGED <<cut, shared, status>>,
         CommentsStay, DOMAIN forge' = DOMAIN forge, work[w].pc \in Settling,
         work'[w].run = work[w].run, work'[w].posts = work[w].posts,
         work'[w].pc \in Settling
  PROVE  Comments'
<1> DEFINE x == work[w]  y == work'[w]
<1>1. NothingOpens  BY StatusStays, Zenon DEF ClosingStatement
<1>2. OwnComments(w) /\ NewComments(w)  BY Zenon DEF OwnComments, NewComments
<1>3. /\ \A l \in Settling : l \notin Early \cup {"idle", "writeback", "posting"}
      /\ cut' = cut /\ status' = status
  BY DEF Early, Settling
<1>4. DOMAIN x.posts = {}  BY <1>3, Zenon DEF Books, Structure, WorkerShape
<1>5. ASSUME x.run \in Runs \ shared
      PROVE  NotWritten(y, forge', cut') /\ status'[x.run] \notin Open
  <2>1. NotWritten(x, forge, cut) /\ status[x.run] \notin Open
    BY <1>3, <1>5, AloneFacts, Zenon
  <2>2. \A g \in DOMAIN forge' : forge'[g].run = x.run => forge'[g].finding # 0
    BY <2>1, Zenon DEF NotWritten, CommentsStay
  <2> QED BY <1>3, <1>4, <2>1, <2>2, Zenon DEF NotWritten
<1> QED BY <1>1, <1>2, <1>3, <1>5, CommentsByStep, Zenon

\* The steps of resolveCompletedFindings.
LEMMA SettleComments ==
  ASSUME Comments, Books, NEW w \in Workers,
         \/ SettleFinding(w) \/ ResolveDiscussion(w) \/ FinalizeResolve(w)
         \/ MarkResolved(w) \/ linkSupersededDiscussion(w),
         UNCHANGED shared
  PROVE  Comments'
<1> DEFINE x == work[w]  y == work'[w]  g == threads[x.thread].gid
           settled == [forge EXCEPT ![g].resolved = TRUE]
           goes == /\ Moves(w) /\ x.pc \in Settling /\ y.pc \in Settling
                   /\ y.run = x.run /\ y.posts = x.posts
<1>1. work = [v \in Workers |-> work[v]] /\ Has(x, WorkFields) /\ Tables
  BY Zenon DEF Books, Structure, WorkerShape
<1>2. UNCHANGED <<status, cut>>
  BY Zenon DEF SettleFinding, ResolveDiscussion, FinalizeResolve, MarkResolved,
               linkSupersededDiscussion, writerVars
<1>3. CASE SettleFinding(w)
  <2>1. /\ x.pc = "settle" /\ Moves(w) /\ UNCHANGED forge
        /\ \/ \E a : y = [x EXCEPT !.settle = a]
           \/ \E a : \E l \in {"mark", "resolve"} : y = [x EXCEPT !.thread = a, !.pc = l]
    BY <1>1, <1>3, Zenon DEF SettleFinding, At, Moves, writerVars
  <2>2. goes  BY <1>1, <2>1, Zenon DEF Has, WorkFields, Settling
  <2>3. CommentsStay /\ DOMAIN forge' = DOMAIN forge
    BY <1>2, <2>1, Zenon DEF CommentsStay
  <2> QED BY <1>2, <2>2, <2>3, CommentsBySettler, Zenon
<1>4. CASE ResolveDiscussion(w)
  <2>1. /\ x.pc = "resolve" /\ Moves(w) /\ UNCHANGED threads
        /\ \E a : y = [x EXCEPT !.pc = "resolved", !.answer = a]
        /\ forge' = forge \/ forge' = settled
    BY <1>1, <1>4, Zenon DEF ResolveDiscussion, At, Moves, storeVars
  <2>2. goes  BY <1>1, <2>1, Zenon DEF Has, WorkFields, Settling
  <2>3. g \in DOMAIN forge  BY <2>1, SettlerFacts, Zenon DEF Resolving
  <2> HIDE DEF g
  <2>4. CommentsStay /\ DOMAIN forge' = DOMAIN forge
    <3>1. CASE forge' = settled
      <4>1. Grow /\ DOMAIN forge' = DOMAIN forge
        BY <1>1, <2>1, <2>3, <3>1, ResolvedOnForge, Zenon
      <4> QED BY <1>2, <4>1, Zenon DEF Grow, CommentsStay
    <3>2. CASE forge' = forge  BY <1>2, <3>2, Zenon DEF CommentsStay
    <3> QED BY <2>1, <3>1, <3>2, Zenon
  <2> QED BY <1>2, <2>2, <2>4, CommentsBySettler, Zenon
<1>5. CASE FinalizeResolve(w)
  <2>1. /\ x.pc = "resolved" /\ UNCHANGED forge
        /\ \/ work' = [work EXCEPT ![w].pc = "mark"]
           \/ work' = [work EXCEPT ![w] = Idle]
    BY <1>5, Zenon DEF FinalizeResolve, At, writerVars
  <2>2. /\ CommentsStay /\ DOMAIN forge' = DOMAIN forge
        /\ OwnComments(w) /\ NewComments(w) /\ NothingOpens
    BY <1>2, <2>1, ForgeLeftAlone, StatusStays, Zenon DEF ClosingStatement
  <2>3. CASE work' = [work EXCEPT ![w] = Idle]
    BY <1>2, <2>1, <2>2, <2>3, CommentsByLeaving, Zenon
  <2>4. CASE work' = [work EXCEPT ![w].pc = "mark"]
    <3>1. Moves(w) /\ y = [x EXCEPT !.pc = "mark"]  BY <1>1, <2>4, Zenon DEF Moves
    <3>2. goes  BY <1>1, <2>1, <3>1, Zenon DEF Has, WorkFields, Settling
    <3> QED BY <1>2, <2>2, <3>2, CommentsBySettler, Zenon
  <2> QED BY <2>1, <2>3, <2>4, Zenon
<1>6. CASE MarkResolved(w) \/ linkSupersededDiscussion(w)
  <2>1. /\ x.pc \in {"mark", "supersedes"} /\ Moves(w) /\ UNCHANGED forge
        /\ \/ y = [x EXCEPT !.pc = "supersedes"]
           \/ \E a : y = [x EXCEPT !.pc = "settle", !.settle = a]
    BY <1>1, <1>6, Zenon DEF MarkResolved, linkSupersededDiscussion, At, Moves, writerVars
  <2>2. goes  BY <1>1, <2>1, Zenon DEF Has, WorkFields, Settling
  <2>3. CommentsStay /\ DOMAIN forge' = DOMAIN forge
    BY <1>2, <2>1, Zenon DEF CommentsStay
  <2> QED BY <1>2, <2>2, <2>3, CommentsBySettler, Zenon
<1> QED BY <1>3, <1>4, <1>5, <1>6, Zenon

\* Publish: comments on GitHub are explained as such.
LEMMA PublishComments ==
  ASSUME Comments, Books, NEW w \in Workers, Publish(w), UNCHANGED shared
  PROVE  Comments'
<1> DEFINE x == work[w]  y == work'[w]
           c == [run |-> x.run, finding |-> Min(x.todo), kind |-> "github",
                 resolved |-> FALSE]
           made == Append(forge, c)
<1>1. work = [v \in Workers |-> work[v]] /\ WorkerShape(x) /\ Has(x, WorkFields) /\ Tables
  BY Zenon DEF Books, Structure, WorkerShape
<1>2. /\ x.pc = "publish" /\ UNCHANGED <<threads, status>> /\ cut \subseteq cut'
      /\ forge' = forge \/ forge' = made
      /\ \/ work' = [work EXCEPT ![w].pc = "gate"]
         \/ work' = [work EXCEPT ![w].todo = @ \ {Min(@)}]
         \/ work' = [work EXCEPT ![w] = Idle]
  BY Zenon DEF Publish, At, storeVars
<1>3. Has(c, CommentFields) /\ c.kind = "github" /\ c.run = x.run
  BY Zenon DEF Has, CommentFields
<1> HIDE DEF c
<1>4. \A l \in {"publish", "gate"} :
        l \notin Early \cup {"idle", "writeback", "posting"} \cup Settling
  BY DEF Early, Settling
<1>5. CommentsStay /\ OwnComments(w) /\ NewComments(w) /\ NothingOpens
  <2>1. NothingOpens  BY <1>2, StatusStays, Zenon DEF ClosingStatement
  <2>2. CASE forge' = forge  BY <1>2, <2>1, <2>2, ForgeLeftAlone, Zenon
  <2>3. CASE forge' = made
    <3>1. Grow /\ Adds(forge, forge', c)  BY <1>1, <1>2, <1>3, <2>3, CommentMade, Zenon
    <3>2. \A g \in DOMAIN forge' \ DOMAIN forge :
            forge'[g].kind = "github" /\ forge'[g].run = x.run
      BY <1>3, <3>1, Zenon DEF Adds
    <3> QED BY <1>2, <1>4, <2>1, <3>1, <3>2, Zenon
            DEF Grow, CommentsStay, OwnComments, NewComments
  <2> QED BY <1>2, <2>2, <2>3, Zenon
<1> HIDE DEF made
<1>6. CASE work' = [work EXCEPT ![w] = Idle]
  BY <1>2, <1>4, <1>5, <1>6, CommentsByLeaving, Zenon
<1>7. CASE \/ work' = [work EXCEPT ![w].pc = "gate"]
           \/ work' = [work EXCEPT ![w].todo = @ \ {Min(@)}]
  <2>1. Moves(w) /\ (y = [x EXCEPT !.pc = "gate"] \/ y = [x EXCEPT !.todo = @ \ {Min(@)}])
    BY <1>1, <1>7, Zenon DEF Moves
  <2>2. y.posts = x.posts /\ y.pc \in {"publish", "gate"} /\ y.run = x.run
    BY <1>1, <1>2, <2>1, Zenon DEF Has, WorkFields
  <2>3. NotWritten(y, forge', cut')
    BY <1>1, <1>2, <1>4, <2>2, Zenon DEF NotWritten, WorkerShape
  <2>4. x.run \in Runs \ shared => status'[x.run] \notin Open
    BY <1>2, <1>4, AloneFacts, Zenon
  <2> QED BY <1>2, <1>4, <1>5, <2>1, <2>2, <2>3, <2>4, CommentsByStep, Zenon
<1> QED BY <1>2, <1>6, <1>7, Zenon

\* Every step keeps the runs in turn and the comments explained.
LEMMA CommentsNext ==
  ASSUME Comments, Books, [PublicationNext]_vars
  PROVE  Comments'
<1>1. ASSUME NEW w \in Workers, WriterStep(w), UNCHANGED shared PROVE Comments'
  <2>1. CASE writeFindings(w)
    <3>1. PICK f \in DOMAIN work[w].posts : PostStep(w, f)
      BY <2>1, Zenon DEF writeFindings
    <3> QED BY <1>1, <3>1, RecordComments, CallForgeComments, finalizeActionComments,
               Zenon DEF PostStep
  <2> QED BY <1>1, <2>1, PhaseComments, SettleComments, PublishComments,
             Zenon DEF WriterStep
<1>2. ASSUME NEW w \in Workers, publishGateResult(w) \/ Stop(w) PROVE Comments'
  <2>1. /\ work[w].pc # "idle" /\ work' = [work EXCEPT ![w] = Idle] /\ cut \subseteq cut'
        /\ UNCHANGED <<status, forge, shared>>
    BY <1>2, Zenon DEF publishGateResult, Stop, Abandon, At, writerVars, publicationVars
  <2>2. CommentsStay /\ OwnComments(w) /\ NewComments(w) /\ NothingOpens
    BY <2>1, ForgeLeftAlone, StatusStays, Zenon DEF ClosingStatement
  <2> QED BY <2>1, <2>2, CommentsByLeaving, Zenon
<1>3. ASSUME NEW r, Cancel(r) PROVE Comments'
  <2>1. /\ status' = [status EXCEPT ![r] = "cancelled"]
        /\ UNCHANGED <<work, forge, cut, shared>>
    BY <1>3, Zenon DEF Cancel, publicationVars
  <2>2. "cancelled" \notin Open  BY DEF Open
  <2>3. ClosingStatement  BY <2>1, <2>2 DEF ClosingStatement
  <2> QED BY <2>1, <2>3, StatusStays, CommentsAside, Zenon
<1>4. ASSUME UNCHANGED <<work, forge, cut, shared, status>> PROVE Comments'
  BY <1>4, StatusStays, CommentsAside, Zenon DEF ClosingStatement
<1>5. ASSUME NEW gid, executeIgnore(gid) \/ executeResolve(gid) PROVE Comments'
  BY <1>4, <1>5, Zenon DEF executeIgnore, executeResolve, dedupVars
<1>6. CASE UNCHANGED vars
  BY <1>4, <1>6, Zenon DEF vars, dedupVars, writerVars, publicationVars
<1> QED BY <1>1, <1>2, <1>3, <1>5, <1>6, BeginComments, DedupComments,
           Zenon DEF PublicationNext, WritebackStep, publicationVars

\* There is no comment before the first run.
LEMMA CommentsInit ==
  ASSUME PublicationInit
  PROVE  Comments
<1>1. /\ forge = <<>> /\ status = [r \in Runs |-> "pending"]
      /\ work = [w \in Workers |-> Idle]
  BY Zenon DEF PublicationInit
<1>2. /\ DOMAIN <<>> = {} /\ 0 \notin Runs  BY ReportsAssumption
<1>3. Idle.run = 0 /\ Idle.pc = "idle"  BY Zenon DEF Idle
<1> QED BY <1>1, <1>2, <1>3, Zenon DEF Comments, RunsInTurn, Silent, CommentsAreExplained

\* writer.go: the idempotency keys and the order of the steps give a finding
\* one comment per run, for any number of workers, goroutines, runs and
\* faults, unless an answer was lost, the writer was cut off between the
\* comment and its record, or two workers had the run.
THEOREM CommentsExplained == PublicationSpec => []CommentsAreExplained
<1>1. PublicationInit => Comments  BY CommentsInit, Zenon
<1>2. Comments /\ (Books /\ IsTable(findings)) /\ [PublicationNext]_vars => Comments'
  BY CommentsNext, Zenon
<1>3. Comments => CommentsAreExplained  BY Zenon DEF Comments
<1> QED BY <1>1, <1>2, <1>3, BooksAreKept, PTL DEF PublicationSpec

-----------------------------------------------------------------------------
(* Rows of review_findings                                                 *)

FindingFields ==
  {"run", "path", "kind", "severity", "confidence", "anchor_fp", "semantic_fp",
   "state", "matched", "last_seen", "disc"}

Rows(t) == IsTable(t) /\ \A i \in DOMAIN t : Has(t[i], FindingFields)

\* u is t with another row i, whose columns but F are as before.
Updates(t, u, i, F) ==
  /\ Rows(u) /\ DOMAIN u = DOMAIN t
  /\ \A j \in DOMAIN t : j # i => u[j] = t[j]
  /\ i \in DOMAIN t => \A k \in FindingFields \ F : u[i][k] = t[i][k]

\* Any UPDATE of one row.
LEMMA UpdatesFacts ==
  ASSUME NEW t, Rows(t), NEW i, NEW e, NEW F,
         i \in DOMAIN t => /\ Has(e, FindingFields)
                           /\ \A k \in FindingFields \ F : e[k] = t[i][k]
  PROVE  /\ Updates(t, [t EXCEPT ![i] = e], i, F)
         /\ i \in DOMAIN t => [t EXCEPT ![i] = e][i] = e
<1> DEFINE u == [t EXCEPT ![i] = e]
<1>1. /\ u = [j \in DOMAIN t |-> u[j]] /\ DOMAIN u = DOMAIN t
      /\ \A j \in DOMAIN t : j # i => u[j] = t[j]
      /\ i \in DOMAIN t => u[i] = e
  BY Zenon
<1> HIDE DEF u
<1>2. IsTable(u)  BY <1>1, UpdateFacts, Zenon DEF Rows
<1>3. \A j \in DOMAIN u : Has(u[j], FindingFields)  BY <1>1, Zenon DEF Rows
<1>4. Updates(t, u, i, F)  BY <1>1, <1>2, <1>3, Zenon DEF Updates, Rows
<1> QED BY <1>1, <1>4, Zenon DEF u

\* The four UPDATEs of review_findings.
LEMMA StateUpdate ==
  ASSUME NEW t, Rows(t), NEW i, NEW st, NEW m, NEW u, u = UpdateFindingState(t, i, st, m)
  PROVE  /\ Updates(t, u, i, {"state", "matched"})
         /\ i \in DOMAIN t => u[i].state = st /\ u[i].matched = m
<1> DEFINE row == t[i]  e == [row EXCEPT !.state = st, !.matched = m]
<1>1. i \in DOMAIN t =>
        /\ Has(e, FindingFields) /\ e.state = st /\ e.matched = m
        /\ \A k \in FindingFields \ {"state", "matched"} : e[k] = row[k]
  <2> SUFFICES ASSUME i \in DOMAIN t
               PROVE  /\ Has(e, FindingFields) /\ e.state = st /\ e.matched = m
                      /\ \A k \in FindingFields \ {"state", "matched"} : e[k] = row[k]
    OBVIOUS
  <2>1. Has(row, FindingFields)  BY Zenon DEF Rows
  <2> HIDE DEF row
  <2> QED BY <2>1, Zenon DEF Has, FindingFields
<1>2. u = [t EXCEPT ![i] = e]  BY Zenon DEF UpdateFindingState
<1> HIDE DEF e
<1>3. /\ Updates(t, [t EXCEPT ![i] = e], i, {"state", "matched"})
      /\ i \in DOMAIN t => [t EXCEPT ![i] = e][i] = e
  BY <1>1, UpdatesFacts, Zenon
<1> QED BY <1>1, <1>2, <1>3, Zenon

\* UpdateFindingLastSeen changes the last run of one row and nothing else.
LEMMA SeenUpdate ==
  ASSUME NEW t, Rows(t), NEW i, NEW r, NEW u, u = UpdateFindingLastSeen(t, i, r)
  PROVE  /\ Updates(t, u, i, {"last_seen"})
         /\ i \in DOMAIN t => u[i].last_seen = r
<1> DEFINE row == t[i]  e == [row EXCEPT !.last_seen = r]
           kept == FindingFields \ {"last_seen"}
<1>1. i \in DOMAIN t => /\ Has(e, FindingFields) /\ e.last_seen = r
                        /\ \A k \in kept : e[k] = row[k]
  <2> SUFFICES ASSUME i \in DOMAIN t
               PROVE  /\ Has(e, FindingFields) /\ e.last_seen = r
                      /\ \A k \in kept : e[k] = row[k]
    OBVIOUS
  <2>1. Has(row, FindingFields)  BY Zenon DEF Rows
  <2> HIDE DEF row
  <2> QED BY <2>1, Zenon DEF Has, FindingFields
<1>2. u = [t EXCEPT ![i] = e]  BY Zenon DEF UpdateFindingLastSeen
<1> HIDE DEF e
<1>3. /\ Updates(t, [t EXCEPT ![i] = e], i, {"last_seen"})
      /\ i \in DOMAIN t => [t EXCEPT ![i] = e][i] = e
  BY <1>1, UpdatesFacts, Zenon
<1> QED BY <1>1, <1>2, <1>3, Zenon

\* UpdateFindingDiscussionID changes the thread of one row and nothing else.
LEMMA DiscussionUpdate ==
  ASSUME NEW t, Rows(t), NEW i, NEW d, NEW u, u = UpdateFindingDiscussionID(t, i, d)
  PROVE  /\ Updates(t, u, i, {"disc"})
         /\ i \in DOMAIN t => u[i].disc = d
<1> DEFINE row == t[i]  e == [row EXCEPT !.disc = d]
           kept == FindingFields \ {"disc"}
<1>1. i \in DOMAIN t => /\ Has(e, FindingFields) /\ e.disc = d
                        /\ \A k \in kept : e[k] = row[k]
  <2> SUFFICES ASSUME i \in DOMAIN t
               PROVE  /\ Has(e, FindingFields) /\ e.disc = d
                      /\ \A k \in kept : e[k] = row[k]
    OBVIOUS
  <2>1. Has(row, FindingFields)  BY Zenon DEF Rows
  <2> HIDE DEF row
  <2> QED BY <2>1, Zenon DEF Has, FindingFields
<1>2. u = [t EXCEPT ![i] = e]  BY Zenon DEF UpdateFindingDiscussionID
<1> HIDE DEF e
<1>3. /\ Updates(t, [t EXCEPT ![i] = e], i, {"disc"})
      /\ i \in DOMAIN t => [t EXCEPT ![i] = e][i] = e
  BY <1>1, UpdatesFacts, Zenon
<1> QED BY <1>1, <1>2, <1>3, Zenon

\* UpdateFindingRelocation writes where the finding is now; its fingerprints are
\* those of the normalized finding.
LEMMA RelocationUpdate ==
  ASSUME NEW t, Rows(t), NEW i, NEW n, NEW r, NEW u, u = UpdateFindingRelocation(t, i, n, r)
  PROVE  /\ Updates(t, u, i, {"path", "kind", "anchor_fp", "semantic_fp", "last_seen"})
         /\ i \in DOMAIN t => u[i].kind = n.kind /\ u[i].anchor_fp = n.anchor_fp
<1> DEFINE row == t[i]  e == [row EXCEPT !.path = n.path, !.kind = n.kind,
                           !.anchor_fp = n.anchor_fp, !.semantic_fp = n.semantic_fp,
                           !.last_seen = r]
           kept == FindingFields \ {"path", "kind", "anchor_fp", "semantic_fp", "last_seen"}
<1>1. i \in DOMAIN t => /\ Has(e, FindingFields)
                         /\ e.kind = n.kind /\ e.anchor_fp = n.anchor_fp
                        /\ \A k \in kept : e[k] = row[k]
  <2> SUFFICES ASSUME i \in DOMAIN t
               PROVE  /\ Has(e, FindingFields) /\ e.kind = n.kind /\ e.anchor_fp = n.anchor_fp
                      /\ \A k \in kept : e[k] = row[k]
    OBVIOUS
  <2>1. Has(row, FindingFields)  BY Zenon DEF Rows
  <2> HIDE DEF row
  <2> QED BY <2>1, Zenon DEF Has, FindingFields
<1>2. u = [t EXCEPT ![i] = e]  BY Zenon DEF UpdateFindingRelocation
<1> HIDE DEF e
<1>3. /\ Updates(t, [t EXCEPT ![i] = e], i,
                 {"path", "kind", "anchor_fp", "semantic_fp", "last_seen"})
      /\ i \in DOMAIN t => [t EXCEPT ![i] = e][i] = e
  BY <1>1, UpdatesFacts, Zenon
<1> QED BY <1>1, <1>2, <1>3, Zenon

\* An INSERT into review_findings.
LEMMA FindingInserted ==
  ASSUME NEW t, Rows(t), NEW r, NEW n, NEW st, NEW u, u = InsertReviewFinding(t, r, n, st)
  PROVE  Rows(u) /\ Adds(t, u, FindingRow(r, n, st))
<1>1. Has(FindingRow(r, n, st), FindingFields)  BY Zenon DEF FindingRow, Has, FindingFields
<1>2. Adds(t, u, FindingRow(r, n, st))
  BY AppendFacts, Zenon DEF InsertReviewFinding, Rows
<1> QED BY <1>1, <1>2, Zenon DEF Rows, Adds

-----------------------------------------------------------------------------
(* The statements of the writer                                            *)

WriterLabels == {"writeback", "posting", "publish"} \cup Settling

Continues(x, y) ==
  /\ Has(y, WorkFields) /\ y.run = x.run /\ y.report = x.report
  /\ y.existing = x.existing /\ y.outcome = x.outcome
  /\ y.pc \in WriterLabels \cup {"gate"}

\* The writer touches no finding but to link it to its discussion.
LinksOnly ==
  \/ findings' = findings
  \/ \E i, d : findings' = UpdateFindingDiscussionID(findings, i, d)

Writes(w, x, y) ==
  /\ Moves(w) /\ x.pc \in WriterLabels /\ LinksOnly
  /\ y = Idle \/ Continues(x, y)

\* A goroutine takes a step.
LEMMA GoesFrame ==
  ASSUME Books, NEW w \in Workers, work[w].pc = "posting", NEW f, NEW q, Goes(w, f, q),
         LinksOnly
  PROVE  Writes(w, work[w], work'[w])
<1> DEFINE x == work[w]  y == work'[w]  ps == [x.posts EXCEPT ![f] = q]
<1>1. work = [v \in Workers |-> work[v]] /\ Has(x, WorkFields)
  BY Zenon DEF Books, Structure, WorkerShape
<1>2. Moves(w) /\ y = [x EXCEPT !.posts = ps]
  BY <1>1, Zenon DEF Goes, Moves
<1>3. x.pc \in WriterLabels  BY Zenon DEF WriterLabels
<1> HIDE DEF x, y, ps
<1>4. Continues(x, y)
  BY <1>1, <1>2, <1>3, Zenon DEF Has, WorkFields, Continues
<1> QED BY <1>2, <1>3, <1>4, Zenon DEF Writes, x, y

\* The worker leaves.
LEMMA LeaveFrame ==
  ASSUME Books, NEW w \in Workers, work' = [work EXCEPT ![w] = Idle]
  PROVE  Moves(w) /\ work'[w] = Idle
BY Zenon DEF Books, Structure, Moves

\* The goroutines.
LEMMA PostFrame ==
  ASSUME Books, NEW w \in Workers, work[w].pc = "posting", NEW f, PostStep(w, f)
  PROVE  Writes(w, work[w], work'[w])
<1>1. LinksOnly
  BY Zenon DEF LinksOnly, PostStep, CheckPost, ensureAction, CallForge, finalizeAction,
               persistDiscussion, persistFindingDiscussionLink, storeVars
<1>2. Abandon(w) \/ \E q : Goes(w, f, q)
  BY Zenon DEF PostStep, CheckPost, ensureAction, CallForge, finalizeAction,
               persistDiscussion, persistFindingDiscussionLink
<1>3. CASE Abandon(w)
  <2>1. Moves(w) /\ work'[w] = Idle  BY <1>3, LeaveFrame, Zenon DEF Abandon
  <2> QED BY <1>1, <2>1, Zenon DEF Writes, WriterLabels
<1> QED BY <1>1, <1>2, <1>3, GoesFrame, Zenon

\* Everything else: the worker changes what Continues does not mention.
LEMMA WriterFrame ==
  ASSUME Books, NEW w \in Workers, WriterStep(w)
  PROVE  Writes(w, work[w], work'[w])
<1> DEFINE x == work[w]  y == work'[w]
<1>1. work = [v \in Workers |-> work[v]] /\ Has(x, WorkFields)
  BY Zenon DEF Books, Structure, WorkerShape
<1>2. CASE writeFindings(w)
  BY <1>2, PostFrame, Zenon DEF writeFindings, At
<1>3. SUFFICES ASSUME ~writeFindings(w)
               PROVE  /\ Moves(w) /\ x.pc \in WriterLabels /\ findings' = findings
                      /\ y = Idle \/ Continues(x, y)
  BY <1>2, Zenon DEF Writes, LinksOnly
<1>4. CASE StartWriteback(w)
  <2> DEFINE posts == IF status[x.run] = "parser_error" THEN [f \in {0} |-> Post("parser")]
               ELSE [f \in DOMAIN ListFindingsByRun(findings, x.run) |-> Post("diff")]
  <2>1. /\ Moves(w) /\ x.pc = "writeback" /\ findings' = findings
        /\ \/ y = [x EXCEPT !.pc = "publish", !.todo = Candidates(x.report)]
           \/ y = [x EXCEPT !.pc = "gate"]
           \/ y = [x EXCEPT !.pc = "posting", !.posts = posts]
    BY <1>1, <1>4, Zenon DEF StartWriteback, At, Moves, storeVars
  <2>2. {"posting", "publish"} \subseteq WriterLabels  BY Zenon DEF WriterLabels
  <2> HIDE DEF x, y, posts
  <2>3. Continues(x, y)
    BY <1>1, <2>1, <2>2, Zenon DEF Has, WorkFields, Continues
  <2> QED BY <2>1, <2>3, Zenon DEF WriterLabels
<1>5. CASE ListSettled(w)
  <2> DEFINE newDiscussion(m) == IF m # 0 /\ findings[m].run = x.run
                                 THEN activeDiscussion(findings[m], m) ELSE 0
             settled == {f \in DOMAIN ListFindingsByMergeRequest(findings) :
                           findings[f].state \in {"fixed", "stale", "superseded"}}
             s == [f \in settled |-> IF findings[f].state = "superseded"
                                     THEN newDiscussion(findings[f].matched) ELSE 0]
             p == IF isTerminalRun(status[x.run]) THEN "settle" ELSE "gate"
  <2>1. work' = [work EXCEPT ![w].pc = p, ![w].posts = NoCopy, ![w].settle = s]
    BY <1>5, Zenon DEF ListSettled
  <2>2. x.pc = "posting" /\ findings' = findings
    BY <1>5, Zenon DEF ListSettled, At, storeVars
  <2>3. p \in {"settle", "gate"} /\ {"settle", "posting"} \subseteq WriterLabels
    BY Zenon DEF WriterLabels, Settling
  <2> HIDE DEF s, p
  <2>4. Moves(w) /\ y = [x EXCEPT !.pc = p, !.posts = NoCopy, !.settle = s]
    BY <1>1, <2>1, Zenon DEF Moves
  <2> HIDE DEF x, y
  <2>5. Continues(x, y)
    BY <1>1, <2>3, <2>4, Zenon DEF Has, WorkFields, Continues
  <2> QED BY <2>2, <2>3, <2>4, <2>5, Zenon
<1>6. CASE SettleFinding(w)
  <2> DEFINE f == Min(DOMAIN x.settle)  s == Drop(f, x.settle)
             d == activeDiscussion(findings[f], f)
  <2>1. /\ Moves(w) /\ x.pc = "settle" /\ findings' = findings
        /\ \/ y = [x EXCEPT !.settle = s]
           \/ y = [x EXCEPT !.thread = d, !.pc = "mark"]
           \/ y = [x EXCEPT !.thread = d, !.pc = "resolve"]
    BY <1>1, <1>6, Zenon DEF SettleFinding, At, Moves
  <2>2. {"settle", "mark", "resolve"} \subseteq WriterLabels
    BY Zenon DEF WriterLabels, Settling
  <2> HIDE DEF x, y, s, d, f
  <2>3. Continues(x, y)
    BY <1>1, <2>1, <2>2, Zenon DEF Has, WorkFields, Continues
  <2> QED BY <2>1, <2>2, <2>3, Zenon
<1>7. CASE ResolveDiscussion(w)
  <2>1. /\ Moves(w) /\ x.pc = "resolve" /\ findings' = findings
        /\ \E a : y = [x EXCEPT !.pc = "resolved", !.answer = a]
    BY <1>1, <1>7, Zenon DEF ResolveDiscussion, At, Moves, storeVars
  <2>2. {"resolve", "resolved"} \subseteq WriterLabels
    BY Zenon DEF WriterLabels, Settling
  <2> HIDE DEF x, y
  <2>3. Continues(x, y)
    BY <1>1, <2>1, <2>2, Zenon DEF Has, WorkFields, Continues
  <2> QED BY <2>1, <2>2, <2>3, Zenon
<1>8. CASE FinalizeResolve(w)
  <2>1. /\ Moves(w) /\ x.pc = "resolved" /\ findings' = findings
        /\ y = Idle \/ y = [x EXCEPT !.pc = "mark"]
    BY <1>1, <1>8, Zenon DEF FinalizeResolve, At, Moves
  <2>2. {"mark", "resolved"} \subseteq WriterLabels
    BY Zenon DEF WriterLabels, Settling
  <2> HIDE DEF x, y
  <2>3. y = Idle \/ Continues(x, y)
    BY <1>1, <2>1, <2>2, Zenon DEF Has, WorkFields, Continues
  <2> QED BY <2>1, <2>2, <2>3, Zenon
<1>9. CASE MarkResolved(w) \/ linkSupersededDiscussion(w)
  <2> DEFINE f == Min(DOMAIN x.settle)  s == Drop(f, x.settle)
  <2>1. /\ Moves(w) /\ x.pc \in {"mark", "supersedes"} /\ findings' = findings
        /\ \/ y = [x EXCEPT !.pc = "supersedes"]
           \/ y = [x EXCEPT !.pc = "settle", !.settle = s]
    BY <1>1, <1>9, Zenon DEF MarkResolved, linkSupersededDiscussion, At, Moves
  <2>2. {"settle", "mark", "supersedes"} \subseteq WriterLabels
    BY Zenon DEF WriterLabels, Settling
  <2> HIDE DEF x, y, s, f
  <2>3. Continues(x, y)
    BY <1>1, <2>1, <2>2, Zenon DEF Has, WorkFields, Continues
  <2> QED BY <2>1, <2>2, <2>3, Zenon
<1>10. CASE StartSummary(w) \/ FinishWriteback(w)
  <2> DEFINE ps == [f \in {0} |-> Post("summary")]
  <2>1. /\ Moves(w) /\ x.pc \in {"settle", "posting"} /\ findings' = findings
        /\ \/ y = [x EXCEPT !.pc = "posting", !.posts = ps]
           \/ y = [x EXCEPT !.pc = "gate", !.posts = NoCopy]
    BY <1>1, <1>10, Zenon DEF StartSummary, FinishWriteback, At, Moves, storeVars
  <2>2. {"settle", "posting"} \subseteq WriterLabels
    BY Zenon DEF WriterLabels, Settling
  <2> HIDE DEF x, y, ps
  <2>3. Continues(x, y)
    BY <1>1, <2>1, <2>2, Zenon DEF Has, WorkFields, Continues
  <2> QED BY <2>1, <2>2, <2>3, Zenon
<1>11. CASE Publish(w)
  <2> DEFINE t == x.todo \ {Min(x.todo)}
  <2>1. /\ Moves(w) /\ x.pc = "publish" /\ findings' = findings
        /\ y = Idle \/ y = [x EXCEPT !.pc = "gate"] \/ y = [x EXCEPT !.todo = t]
    BY <1>1, <1>11, Zenon DEF Publish, At, Moves, storeVars
  <2>2. "publish" \in WriterLabels  BY Zenon DEF WriterLabels
  <2> HIDE DEF x, y, t
  <2>3. y = Idle \/ Continues(x, y)
    BY <1>1, <2>1, <2>2, Zenon DEF Has, WorkFields, Continues
  <2> QED BY <2>1, <2>2, <2>3, Zenon
<1> QED BY <1>3, <1>4, <1>5, <1>6, <1>7, <1>8, <1>9, <1>10, <1>11, Zenon DEF WriterStep

-----------------------------------------------------------------------------
(* The rows of gitlab_discussions                                          *)

\* Threads are only added or marked as resolved.
KeepThreads(t, u) ==
  /\ DOMAIN t \subseteq DOMAIN u
  /\ \A d \in DOMAIN t : /\ u[d].finding = t[d].finding
                         /\ u[d].superseded_by = t[d].superseded_by
                         /\ t[d].resolved => u[d].resolved

\* The threads that are added are of findings in F.
NewThreads(t, u, F) ==
  \A d \in DOMAIN u \ DOMAIN t : u[d].finding \in F /\ u[d].superseded_by = 0

\* The thread i is marked as replaced by s.
LinkThread(t, u, i, s) ==
  /\ DOMAIN u = DOMAIN t
  /\ \A d \in DOMAIN t : /\ u[d].finding = t[d].finding /\ u[d].resolved = t[d].resolved
                         /\ d # i => u[d].superseded_by = t[d].superseded_by
  /\ i \in DOMAIN t => u[i].superseded_by = s

\* UPDATE ... SET resolved.
LEMMA MarkedThread ==
  ASSUME NEW t, \A d \in DOMAIN t : Has(t[d], ThreadFields), NEW i, NEW u,
         u = UpdateGitlabDiscussionResolved(t, i)
  PROVE  KeepThreads(t, u) /\ DOMAIN u = DOMAIN t
<1> DEFINE row == t[i]  e == [row EXCEPT !.resolved = TRUE]
<1>1. /\ DOMAIN u = DOMAIN t /\ \A d \in DOMAIN t : d # i => u[d] = t[d]
      /\ i \in DOMAIN t => u[i] = e
  BY Zenon DEF UpdateGitlabDiscussionResolved
<1>2. i \in DOMAIN t => /\ e.finding = row.finding /\ e.resolved = TRUE
                        /\ e.superseded_by = row.superseded_by
  <2>1. i \in DOMAIN t => Has(row, ThreadFields)  BY Zenon
  <2> HIDE DEF row
  <2> QED BY <2>1, Zenon DEF Has, ThreadFields
<1> HIDE DEF e
<1>3. ASSUME NEW d \in DOMAIN t
      PROVE  /\ u[d].finding = t[d].finding /\ u[d].superseded_by = t[d].superseded_by
             /\ t[d].resolved => u[d].resolved
  BY <1>1, <1>2, Zenon
<1> QED BY <1>1, <1>3, Zenon DEF KeepThreads

\* The same for the threads a command resolves.
LEMMA CommandedThreads ==
  ASSUME NEW t, \A d \in DOMAIN t : Has(t[d], ThreadFields), NEW D, NEW u,
         u = [j \in DOMAIN t |-> IF j \in D THEN [t[j] EXCEPT !.resolved = TRUE] ELSE t[j]]
  PROVE  KeepThreads(t, u) /\ DOMAIN u = DOMAIN t
<1>1. DOMAIN u = DOMAIN t  BY Zenon
<1>2. ASSUME NEW d \in DOMAIN t
      PROVE  /\ u[d].finding = t[d].finding /\ u[d].superseded_by = t[d].superseded_by
             /\ t[d].resolved => u[d].resolved
  <2> DEFINE row == t[d]  e == [row EXCEPT !.resolved = TRUE]
  <2>1. Has(row, ThreadFields)  BY Zenon
  <2>2. u[d] = e \/ u[d] = row  BY Zenon
  <2> HIDE DEF row
  <2>3. /\ e.finding = row.finding /\ e.resolved = TRUE
        /\ e.superseded_by = row.superseded_by
    BY <2>1, Zenon DEF Has, ThreadFields
  <2> HIDE DEF e
  <2> QED BY <2>2, <2>3, Zenon DEF row
<1> QED BY <1>1, <1>2, Zenon DEF KeepThreads

\* UPDATE ... SET superseded_by.
LEMMA LinkedThread ==
  ASSUME NEW t, \A d \in DOMAIN t : Has(t[d], ThreadFields), NEW i, NEW s, NEW u,
         u = UpdateGitlabDiscussionSupersededBy(t, i, s)
  PROVE  LinkThread(t, u, i, s)
<1> DEFINE row == t[i]  e == [row EXCEPT !.superseded_by = s]
<1>1. /\ DOMAIN u = DOMAIN t /\ \A d \in DOMAIN t : d # i => u[d] = t[d]
      /\ i \in DOMAIN t => u[i] = e
  BY Zenon DEF UpdateGitlabDiscussionSupersededBy
<1>2. i \in DOMAIN t => /\ e.finding = row.finding /\ e.resolved = row.resolved
                        /\ e.superseded_by = s
  <2>1. i \in DOMAIN t => Has(row, ThreadFields)  BY Zenon
  <2> HIDE DEF row
  <2> QED BY <2>1, Zenon DEF Has, ThreadFields
<1> HIDE DEF e
<1>3. ASSUME NEW d \in DOMAIN t
      PROVE  /\ u[d].finding = t[d].finding /\ u[d].resolved = t[d].resolved
             /\ d # i => u[d].superseded_by = t[d].superseded_by
  BY <1>1, <1>2, Zenon
<1> QED BY <1>1, <1>2, <1>3, Zenon DEF LinkThread

\* The INSERT.
LEMMA InsertedThread ==
  ASSUME NEW t, IsTable(t), NEW f, NEW gid, NEW kd, NEW u,
         u = InsertGitlabDiscussion(t, f, gid, kd)
  PROVE  KeepThreads(t, u) /\ NewThreads(t, u, {f})
<1> DEFINE e == [finding |-> f, gid |-> gid, type |-> kd, resolved |-> FALSE,
                 superseded_by |-> 0]
<1>1. Adds(t, u, e)  BY AppendFacts, Zenon DEF InsertGitlabDiscussion
<1>2. e.finding = f /\ e.superseded_by = 0  BY SMT
<1> HIDE DEF e
<1> QED BY <1>1, <1>2, Zenon DEF Adds, KeepThreads, NewThreads

\* What a step of the writer does to them.
WriterThreads(x) ==
  \/ KeepThreads(threads, threads')
     /\ NewThreads(threads, threads', DOMAIN x.posts \ {0})
  \/ /\ x.pc = "supersedes"
     /\ LinkThread(threads, threads', x.thread, x.settle[Min(DOMAIN x.settle)])

\* What a step of the comment writer does to the rows of gitlab_discussions.
LEMMA WriterThreadsFrame ==
  ASSUME Books, NEW w \in Workers, WriterStep(w)
  PROVE  WriterThreads(work[w])
<1> DEFINE x == work[w]
<1>1. /\ IsTable(threads) /\ \A d \in DOMAIN threads : Has(threads[d], ThreadFields)
  BY Zenon DEF Books, Structure, Tables
<1>2. CASE threads' = threads
  BY <1>2, Zenon DEF WriterThreads, KeepThreads, NewThreads
<1>3. CASE \E f \in DOMAIN x.posts : persistDiscussion(w, f)
  <2>1. PICK f \in DOMAIN x.posts : persistDiscussion(w, f)  BY <1>3, Zenon
  <2>2. f # 0
    <3>1. x.posts[f].pc = "row" /\ PostShape(f, x.posts[f])
      BY <2>1, PostFacts, Zenon DEF persistDiscussion
    <3> QED BY <3>1, Zenon DEF PostShape
  <2>3. CASE threads' = InsertGitlabDiscussion(threads, f, x.posts[f].gid, x.posts[f].kind)
    <3>1. KeepThreads(threads, threads') /\ NewThreads(threads, threads', {f})
      BY <1>1, <2>3, InsertedThread, SMT
    <3> QED BY <2>2, <3>1, Zenon DEF WriterThreads, NewThreads
  <2> QED BY <1>2, <2>1, <2>3, Zenon DEF persistDiscussion
<1>4. CASE MarkResolved(w)
  <2>1. threads' = UpdateGitlabDiscussionResolved(threads, x.thread)
    BY <1>4, Zenon DEF MarkResolved
  <2>2. KeepThreads(threads, threads') /\ DOMAIN threads' = DOMAIN threads
    BY <1>1, <2>1, MarkedThread, SMT
  <2> QED BY <2>2, Zenon DEF WriterThreads, NewThreads
<1>5. CASE linkSupersededDiscussion(w)
  <2> DEFINE i == x.thread  s == x.settle[Min(DOMAIN x.settle)]
  <2>1. x.pc = "supersedes" /\ threads' = UpdateGitlabDiscussionSupersededBy(threads, i, s)
    BY <1>5, Zenon DEF linkSupersededDiscussion, At
  <2> HIDE DEF i, s
  <2>2. LinkThread(threads, threads', i, s)  BY <1>1, <2>1, LinkedThread, Zenon
  <2> QED BY <2>1, <2>2, Zenon DEF WriterThreads, i, s
<1>6. \/ threads' = threads \/ (\E f \in DOMAIN x.posts : persistDiscussion(w, f))
      \/ MarkResolved(w) \/ linkSupersededDiscussion(w)
  BY Zenon DEF WriterStep, StartWriteback, writeFindings, PostStep, CheckPost,
       ensureAction, CallForge, finalizeAction, persistFindingDiscussionLink, ListSettled,
       SettleFinding, ResolveDiscussion, FinalizeResolve, StartSummary, FinishWriteback,
       Publish, storeVars
<1> QED BY <1>2, <1>3, <1>4, <1>5, <1>6, Zenon

-----------------------------------------------------------------------------
(* What is left to settle                                                  *)

\* The finding was replaced by the one the thread d is about, or ignored since.
Follows(row, d, ts) ==
  /\ d \in DOMAIN ts
  /\ row.state = "ignored" \/ (row.state = "superseded" /\ row.matched = ts[d].finding)

\* What resolveCompletedFindings read is so.
SettlesTrue(s, t, ts) ==
  \A f \in DOMAIN s : f \in DOMAIN t /\ (s[f] # 0 => Follows(t[f], s[f], ts))

\* What a writer's step makes of its goroutines and of what it settles.
Proceeds(x, y) ==
  /\ DOMAIN y.posts \subseteq DOMAIN x.posts \cup {0} \cup DOMAIN findings
  /\ y.pc \in Settling =>
       \/ y.pc = "settle" /\ SettlesTrue(y.settle, findings, threads)
       \/ /\ x.pc \in Settling /\ DOMAIN y.settle \subseteq DOMAIN x.settle
          /\ \A f \in DOMAIN y.settle : y.settle[f] = x.settle[f]
  /\ y.pc \in Resolving => DOMAIN y.settle # {}

\* The list of settled findings.
LEMMA ListedSettled ==
  ASSUME NEW w \in Workers, work = [v \in Workers |-> work[v]],
         Has(work[w], WorkFields), ListSettled(w)
  PROVE  /\ DOMAIN work'[w].posts = {} /\ work'[w].pc \notin Settling \ {"settle"}
         /\ SettlesTrue(work'[w].settle, findings, threads)
<1> DEFINE x == work[w]  y == work'[w]
           newDiscussion(m) == IF m # 0 /\ findings[m].run = x.run
                               THEN activeDiscussion(findings[m], m) ELSE 0
           settled == {f \in DOMAIN ListFindingsByMergeRequest(findings) :
                         findings[f].state \in {"fixed", "stale", "superseded"}}
           s == [f \in settled |-> IF findings[f].state = "superseded"
                                   THEN newDiscussion(findings[f].matched) ELSE 0]
           p == IF isTerminalRun(status[x.run]) THEN "settle" ELSE "gate"
<1>1. work' = [work EXCEPT ![w].pc = p, ![w].posts = NoCopy, ![w].settle = s]
  BY Zenon DEF ListSettled
<1>2. p \notin Settling \ {"settle"}  BY Zenon DEF Settling
<1>3. SettlesTrue(s, findings, threads)
  <2>1. SUFFICES ASSUME NEW f \in settled
                 PROVE  /\ f \in DOMAIN findings
                        /\ s[f] # 0 => Follows(findings[f], s[f], threads)
    BY Zenon DEF SettlesTrue
  <2>2. f \in DOMAIN findings  BY <2>1, Zenon DEF ListFindingsByMergeRequest
  <2>3. SUFFICES ASSUME s[f] # 0 PROVE Follows(findings[f], s[f], threads)
    BY <2>2, Zenon
  <2> DEFINE m == findings[f].matched  D == GetGitlabDiscussionByFinding(threads, m)
  <2>4. findings[f].state = "superseded" /\ s[f] = activeDiscussion(findings[m], m)
    BY <2>1, <2>3, Zenon
  <2>5. D # {} /\ s[f] = CHOOSE i \in D : TRUE
    BY <2>3, <2>4, Zenon DEF activeDiscussion
  <2>6. s[f] \in D
    <3> HIDE DEF D, s
    <3> QED BY <2>5, Zenon
  <2>7. s[f] \in DOMAIN threads /\ threads[s[f]].finding = m
    <3> HIDE DEF s
    <3> QED BY <2>6, Zenon DEF GetGitlabDiscussionByFinding
  <2> HIDE DEF s
  <2> QED BY <2>4, <2>7, Zenon DEF Follows
<1> HIDE DEF s, p
<1>4. y = [x EXCEPT !.pc = p, !.posts = NoCopy, !.settle = s]
  BY <1>1, Zenon
<1> HIDE DEF x, y
<1>5. Has(x, WorkFields)  BY Zenon DEF x
<1>6. y.pc = p /\ y.posts = NoCopy /\ y.settle = s
  BY <1>4, <1>5, Zenon DEF Has, WorkFields
<1>7. DOMAIN NoCopy = {}  BY Zenon DEF NoCopy
<1> QED BY <1>2, <1>3, <1>6, <1>7, Zenon DEF y

\* Every step of the comment writer proceeds so with the findings to settle.
LEMMA ProceedsFrame ==
  ASSUME Books, NEW w \in Workers, WriterStep(w),
         work[w].pc \in Resolving => DOMAIN work[w].settle # {}
  PROVE  Proceeds(work[w], work'[w])
<1> DEFINE x == work[w]  y == work'[w]
<1> SUFFICES Proceeds(x, y)  OBVIOUS
<1>1. work = [v \in Workers |-> work[v]] /\ Has(x, WorkFields)
  BY Zenon DEF Books, Structure, WorkerShape
<1>2. ASSUME y.pc \notin Settling,
             DOMAIN y.posts \subseteq DOMAIN x.posts \cup {0} \cup DOMAIN findings
      PROVE  Proceeds(x, y)
  <2>1. Resolving \subseteq Settling  BY Zenon DEF Resolving, Settling
  <2> QED BY <1>2, <2>1, Zenon DEF Proceeds
<1>3. ASSUME x.pc \in Settling, y.posts = x.posts, y.settle = x.settle,
             y.pc \in Resolving => DOMAIN x.settle # {}
      PROVE  Proceeds(x, y)
  BY <1>3, Zenon DEF Proceeds
<1>4. ASSUME x.pc \in Settling, y.posts = x.posts, y.pc \notin Resolving,
             y.settle = Drop(Min(DOMAIN x.settle), x.settle)
      PROVE  Proceeds(x, y)
  <2>1. DOMAIN y.settle \subseteq DOMAIN x.settle
        /\ \A f \in DOMAIN y.settle : y.settle[f] = x.settle[f]
    <3> DEFINE m == Min(DOMAIN x.settle)  s == x.settle
    <3>1. y.settle = [f \in DOMAIN s \ {m} |-> s[f]]  BY <1>4, Zenon DEF Drop
    <3> HIDE DEF m, s, y
    <3>2. DOMAIN y.settle = DOMAIN s \ {m} /\ \A f \in DOMAIN s \ {m} : y.settle[f] = s[f]
      BY <3>1, Zenon
    <3> QED BY <3>2, Zenon DEF s
  <2> HIDE DEF x, y
  <2> QED BY <1>4, <2>1, Zenon DEF Proceeds
<1>5. ASSUME y = Idle PROVE Proceeds(x, y)
  <2>1. Idle.pc = "idle" /\ Idle.posts = NoCopy  BY Zenon DEF Idle
  <2>2. DOMAIN NoCopy = {} /\ "idle" \notin Settling  BY Zenon DEF NoCopy, Settling
  <2> HIDE DEF x, y
  <2> QED BY <1>2, <1>5, <2>1, <2>2, Zenon
<1>6. CASE writeFindings(w)
  <2>1. PICK f \in DOMAIN x.posts : PostStep(w, f)  BY <1>6, Zenon DEF writeFindings
  <2>2. x.pc = "posting"  BY <1>6, Zenon DEF writeFindings, At
  <2>3. Abandon(w) \/ \E q : Goes(w, f, q)
    BY <2>1, Zenon DEF PostStep, CheckPost, ensureAction, CallForge, finalizeAction,
                       persistDiscussion, persistFindingDiscussionLink
  <2>4. CASE Abandon(w)
    <3>1. y = Idle  BY <2>4, LeaveFrame, Zenon DEF Abandon
    <3> QED BY <1>5, <3>1, Zenon
  <2>5. ASSUME NEW q, Goes(w, f, q) PROVE Proceeds(x, y)
    <3>1. PostTurns(w, f, q)  BY <2>5, GoesFacts, Zenon
    <3>2. y.pc = "posting" /\ DOMAIN y.posts = DOMAIN x.posts
      BY <2>2, <3>1, Zenon DEF PostTurns
    <3>3. y.pc \notin Settling  BY <3>2, Zenon DEF Settling
    <3> QED BY <1>2, <3>2, <3>3, Zenon
  <2> QED BY <2>3, <2>4, <2>5, Zenon
<1>7. CASE StartWriteback(w)
  <2> DEFINE posts == IF status[x.run] = "parser_error" THEN [f \in {0} |-> Post("parser")]
               ELSE [f \in DOMAIN ListFindingsByRun(findings, x.run) |-> Post("diff")]
  <2>1. /\ x.pc = "writeback"
        /\ \/ y = [x EXCEPT !.pc = "publish", !.todo = Candidates(x.report)]
           \/ y = [x EXCEPT !.pc = "gate"]
           \/ y = [x EXCEPT !.pc = "posting", !.posts = posts]
    BY <1>1, <1>7, Zenon DEF StartWriteback, At
  <2>2. DOMAIN posts \subseteq {0} \cup DOMAIN findings
    <3>1. CASE status[x.run] = "parser_error"  BY <3>1, Zenon
    <3>2. CASE status[x.run] # "parser_error"
      <4>1. DOMAIN posts = DOMAIN ListFindingsByRun(findings, x.run)  BY <3>2, Zenon
      <4>2. DOMAIN ListFindingsByRun(findings, x.run) \subseteq DOMAIN findings
        BY Zenon DEF ListFindingsByRun
      <4> QED BY <4>1, <4>2, Zenon
    <3> QED BY <3>1, <3>2, Zenon
  <2> HIDE DEF x, y, posts
  <2>3. y.pc \in {"publish", "gate", "posting"} /\ (y.posts = x.posts \/ y.posts = posts)
    BY <1>1, <2>1, Zenon DEF Has, WorkFields
  <2>4. y.pc \notin Settling  BY <2>3, Zenon DEF Settling
  <2> QED BY <1>2, <2>2, <2>3, <2>4, Zenon
<1>8. CASE ListSettled(w)
  <2>1. /\ DOMAIN y.posts = {} /\ y.pc \notin Settling \ {"settle"}
        /\ SettlesTrue(y.settle, findings, threads)
    BY <1>1, <1>8, ListedSettled, Zenon
  <2>2. y.pc \notin Resolving
    BY <2>1, Zenon DEF Resolving, Settling
  <2> HIDE DEF x, y
  <2> QED BY <2>1, <2>2, Zenon DEF Proceeds
<1>9. CASE SettleFinding(w)
  <2> DEFINE f == Min(DOMAIN x.settle)  s == Drop(f, x.settle)
             d == activeDiscussion(findings[f], f)
  <2>1. /\ x.pc = "settle" /\ DOMAIN x.settle # {}
        /\ \/ y = [x EXCEPT !.settle = s]
           \/ y = [x EXCEPT !.thread = d, !.pc = "mark"]
           \/ y = [x EXCEPT !.thread = d, !.pc = "resolve"]
    BY <1>1, <1>9, Zenon DEF SettleFinding, At
  <2>2. x.pc \in Settling /\ x.pc \notin Resolving
    BY <2>1, Zenon DEF Settling, Resolving
  <2> HIDE DEF x, y, s, d, f
  <2>3. \/ y.posts = x.posts /\ y.pc = x.pc /\ y.settle = s
        \/ y.posts = x.posts /\ y.settle = x.settle
    BY <1>1, <2>1, Zenon DEF Has, WorkFields
  <2> QED BY <1>3, <1>4, <2>1, <2>2, <2>3, Zenon DEF s, f
<1>10. CASE ResolveDiscussion(w) \/ FinalizeResolve(w)
  <2>1. /\ x.pc \in {"resolve", "resolved"}
        /\ \/ \E a : y = [x EXCEPT !.pc = "resolved", !.answer = a]
           \/ y = [x EXCEPT !.pc = "mark"] \/ y = Idle
    BY <1>1, <1>10, Zenon DEF ResolveDiscussion, FinalizeResolve, At
  <2>2. x.pc \in Settling /\ DOMAIN x.settle # {}  BY <2>1, Zenon DEF Settling, Resolving
  <2> HIDE DEF x, y
  <2>3. y = Idle \/ (y.posts = x.posts /\ y.settle = x.settle)
    BY <1>1, <2>1, Zenon DEF Has, WorkFields
  <2> QED BY <1>3, <1>5, <2>2, <2>3, Zenon
<1>11. CASE MarkResolved(w) \/ linkSupersededDiscussion(w)
  <2> DEFINE f == Min(DOMAIN x.settle)  s == Drop(f, x.settle)
  <2>1. /\ x.pc \in {"mark", "supersedes"}
        /\ \/ y = [x EXCEPT !.pc = "supersedes"]
           \/ y = [x EXCEPT !.pc = "settle", !.settle = s]
    BY <1>1, <1>11, Zenon DEF MarkResolved, linkSupersededDiscussion, At
  <2>2. x.pc \in Settling /\ DOMAIN x.settle # {} /\ "settle" \notin Resolving
    BY <2>1, Zenon DEF Settling, Resolving
  <2> HIDE DEF x, y, s, f
  <2>3. \/ y.posts = x.posts /\ y.settle = x.settle
        \/ y.posts = x.posts /\ y.pc = "settle" /\ y.settle = s
    BY <1>1, <2>1, Zenon DEF Has, WorkFields
  <2> QED BY <1>3, <1>4, <2>2, <2>3, Zenon DEF s, f
<1>12. CASE StartSummary(w) \/ FinishWriteback(w)
  <2> DEFINE ps == [f \in {0} |-> Post("summary")]
  <2>1. \/ y = [x EXCEPT !.pc = "posting", !.posts = ps]
        \/ y = [x EXCEPT !.pc = "gate", !.posts = NoCopy]
    BY <1>1, <1>12, Zenon DEF StartSummary, FinishWriteback
  <2>2. DOMAIN ps = {0} /\ DOMAIN NoCopy = {}  BY Zenon DEF NoCopy
  <2> HIDE DEF x, y, ps
  <2>3. y.pc \in {"posting", "gate"} /\ (y.posts = ps \/ y.posts = NoCopy)
    BY <1>1, <2>1, Zenon DEF Has, WorkFields
  <2>4. y.pc \notin Settling  BY <2>3, Zenon DEF Settling
  <2> QED BY <1>2, <2>2, <2>3, <2>4, Zenon
<1>13. CASE Publish(w)
  <2> DEFINE t == x.todo \ {Min(x.todo)}
  <2>1. /\ x.pc = "publish"
        /\ y = Idle \/ y = [x EXCEPT !.pc = "gate"] \/ y = [x EXCEPT !.todo = t]
    BY <1>1, <1>13, Zenon DEF Publish, At
  <2> HIDE DEF x, y, t
  <2>2. y = Idle \/ (y.pc \in {"gate", "publish"} /\ y.posts = x.posts)
    BY <1>1, <2>1, Zenon DEF Has, WorkFields
  <2>3. CASE y.pc \in {"gate", "publish"} /\ y.posts = x.posts
    <3>1. y.pc \notin Settling  BY <2>3, Zenon DEF Settling
    <3> QED BY <1>2, <2>3, <3>1, Zenon
  <2> QED BY <1>5, <2>2, <2>3, Zenon
<1> QED BY <1>6, <1>7, <1>8, <1>9, <1>10, <1>11, <1>12, <1>13, Zenon DEF WriterStep
=============================================================================
