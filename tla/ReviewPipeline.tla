--------------------------- MODULE ReviewPipeline ---------------------------
(***************************************************************************)
(* One review from the snapshot of a merge request to its verdict, by one  *)
(* of three drivers:                                                       *)
(*   engine   internal/reviewrun, what the worker runs                     *)
(*   cli      cmd/mreviewer, which publishes the verdict itself            *)
(*   llm      internal/llm/processor.go, the older processor               *)
(* A scenario is what one behaviour is given: the change, the policies, the*)
(* files of the repository, the configuration, and what providers may say. *)
(***************************************************************************)
EXTENDS ForgeComments, ProviderChain, ForgeSnapshot, IdentityMappings, RunVerdict, TLC

CONSTANTS
  Scenarios,
  GateMode     \* policy.GateMode

VARIABLES
  sc,          \* the scenario
  review       \* the state of the review

vars == <<sc, review, forge, snap, limiterVars, call, identityVars>>

\* The run whose review this is; the others share the table of identities.
ThisRun == 1

NoRequest == [Nothing EXCEPT !.error = TRUE]

Unstarted ==
  [pc |-> "start", rules |-> <<>>, request |-> NoRequest, pack |-> 1,
   artifacts |-> <<>>, accepted |-> {}, bundle |-> <<>>, recorded |-> 0,
   status |-> "", gate |-> "", exit |-> 0, queue |-> {}, posted |-> {},
   verdicts |-> <<>>]

PipelineInit ==
  /\ sc \in Scenarios
  /\ review = Unstarted
  /\ forge = [versions |-> [i \in 1..sc.versions |-> Version(i, TRUE)],
              pushes |-> sc.pushes, faults |-> sc.faults]
  /\ snap = NoSnapshot
  /\ LimiterInit(sc.limits)
  /\ call = NoCall
  /\ mappings = <<>> /\ resolutions = <<>>
  /\ pending = [r \in DOMAIN sc.people |->
                  persistIdentityMappingsFromInput(r, sc.people[r])]

At(pc) == review.pc = pc
Goto(pc) == review' = [review EXCEPT !.pc = pc]

-----------------------------------------------------------------------------
(* Input                                                                   *)

\* The options of the command; a dry run publishes nothing, whatever is asked.
parseOptions(o) ==
  [ok |-> /\ o.targets > 0 /\ o.threshold \in 0..100
          /\ o.publish \in {"full-review-comments", "summary-only", "artifact-only"}
          /\ o.exit \in {"never", "requested_changes", "incomplete"},
   publish |-> IF o.dry THEN "artifact-only" ELSE o.publish,
   status |-> ~o.dry, exit |-> o.exit]

Options == parseOptions(sc)

Begin ==
  /\ At("start")
  /\ \/ /\ sc.driver # "cli" \/ Options.ok
        /\ Goto("snapshot")
        /\ StartSnapshot
     \/ /\ sc.driver = "cli" /\ ~Options.ok
        /\ review' = [review EXCEPT !.pc = "failed", !.exit = 2]
        /\ UNCHANGED <<forge, snap>>
  /\ UNCHANGED <<sc, limiterVars, call, identityVars>>

FetchSnapshot ==
  /\ At("snapshot")
  /\ SnapshotStep
  /\ UNCHANGED <<sc, review, limiterVars, call, identityVars>>

\* Without input the command ends, and the scheduler has the older processor
\* try again; the engine's failures are left to the scheduler.
NoInput(retry) ==
  review' = [review EXCEPT
    !.pc = IF sc.driver = "llm" /\ retry THEN "retry" ELSE "failed",
    !.exit = IF sc.driver = "cli" THEN 1 ELSE 0]

SnapshotEnds ==
  /\ At("snapshot")
  /\ \/ snap.pc = "done" /\ Goto(IF sc.driver = "llm" THEN "record" ELSE "build")
     \/ snap.pc = "failed" /\ NoInput(TRUE)
  /\ UNCHANGED <<sc, forge, snap, limiterVars, call, identityVars>>

\* The files on page p of a version; each page but the last holds one.
Page(v, p) ==
  IF p < MaxPages THEN SubSeq(sc.files[v], p, p)
  ELSE SubSeq(sc.files[v], p, Len(sc.files[v]))

Diffs ==
  IF snap.endpoint # "paginated" THEN sc.files[snap.diffs[1]]
  ELSE FoldLeft(LAMBDA s, p : s \o Page(snap.diffs[p], p), <<>>,
                [p \in DOMAIN snap.diffs |-> p])

\* The project's policy: the builder is given none, the older processor reads
\* it from the database.
Policy == IF sc.driver = "llm" THEN sc.project ELSE sc.nopolicy

\* defaultStatus: the command keeps a commit status on GitHub, and goes on if
\* it cannot be set.
mapGitHubStatusState(state) ==
  CASE state \in {"pending", "running"} -> "pending"
    [] state = "success" -> "success"
    [] OTHER -> "failure"

defaultStatus(state) ==
  {review.gate} \cup
    IF sc.driver = "cli" /\ sc.forge = "github" /\ Options.status
    THEN {mapGitHubStatusState(state)} ELSE {}

\* The first of the configured files that can be used.
FirstConfig(files) ==
  LET i == {i \in DOMAIN files : files[i].kind \in {"config", "error"}}
  IN IF i = {} THEN [kind |-> "none"] ELSE files[Min(i)]

Load(paths) ==
  LET merged == mergeEffectivePolicyFull(sc.platform, sc.nopolicy, Policy)
      file == FirstConfig(IF resolveConfigRef(sc.base) = 0 THEN sc.yaml.head
                          ELSE sc.yaml.base)
      cfg == stripHostOnlyAIReviewFields(validateAIReviewConfig(file.cfg))
  IN [ok |-> file.kind # "error" /\ sc.root # "error",
      effective |-> IF file.kind # "config" THEN merged
                    ELSE applyAIReviewConfig(merged, cfg),
      trusted |-> [root |-> sc.root,
                   directories |-> loadDirectoryScopedReviews(paths, sc.reviews)]]

\* A run may name the route it wants, which must then exist: the older
\* processor checks that.
routeOverride(effective) ==
  IF sc.scope = 0 THEN [ok |-> TRUE, route |-> effective["route"]]
  ELSE [ok |-> sc.driver # "llm" \/ Resolve(sc.scope) = sc.scope, route |-> sc.scope]

Build ==
  LET diffs == Diffs
      rules == Load({changePath(diffs[i]) : i \in DOMAIN diffs} \ {<<>>})
      request == Assemble(diffs, SettingsFromPolicy(Policy), Policy, rules.trusted)
      ready == rules.ok /\ routeOverride(rules.effective).ok
  IN /\ At("build")
     /\ \/ /\ ready /\ ~request.error
           /\ \E gate \in defaultStatus("running") :
              review' =
                [review EXCEPT
                   !.rules = rules, !.request = request, !.gate = gate,
                   !.pc = IF sc.driver = "cli" THEN "packs"
                          ELSE IF sc.driver = "engine" THEN "identify"
                          ELSE IF ModeOf(request) = "degradation" THEN "degraded"
                          ELSE "ask"]
        \/ (~ready \/ request.error) /\ NoInput(FALSE)
     /\ UNCHANGED <<sc, forge, snap, limiterVars, call, identityVars>>

Route == routeOverride(review.rules.effective).route

\* The production processor stores who made the commit before it reviews it;
\* other runs of the project and the operator use the same table.
Identify ==
  /\ At("identify")
  /\ \/ Observe(ThisRun) /\ UNCHANGED review
     \/ pending[ThisRun] # <<>> /\ Goto("failed") /\ UNCHANGED identityVars
     \/ pending[ThisRun] = <<>> /\ Goto("packs") /\ UNCHANGED identityVars
  /\ UNCHANGED <<sc, forge, snap, limiterVars, call>>

OthersIdentify ==
  /\ \/ \E r \in DOMAIN pending \ {ThisRun} : Observe(r)
     \/ \E k \in DOMAIN mappings, u \in sc.users :
          ResolveIdentityMapping(k, u, u, "admin")
  /\ UNCHANGED <<sc, review, forge, snap, limiterVars, call>>

-----------------------------------------------------------------------------
(* The engine                                                              *)

PackAt == Packs[review.pack]
MorePacks == At("packs") /\ review.pack <= Len(Packs)
Selected == isPackSelected(PackAt.id, sc.selected)

\* Without a bundle, or with one that could not be published.
ReviewFails ==
  \E gate \in defaultStatus("failed") :
    review' = [review EXCEPT !.pc = "failed", !.gate = gate, !.exit = 1]

SkipPack ==
  /\ MorePacks /\ ~Selected
  /\ review' = [review EXCEPT !.pack = @ + 1]
  /\ UNCHANGED <<sc, forge, snap, limiterVars, call, identityVars>>

StartPack ==
  /\ MorePacks /\ Selected
  /\ call.pc = "out"
  /\ StartCall(ResolveProvider(Route))
  /\ UNCHANGED <<sc, review, forge, snap, limiterVars, identityVars>>

FinishPack ==
  /\ MorePacks
  /\ \/ /\ call.pc = "answered"
        /\ LET a == ArtifactFromLegacyResult(PackAt.id, call.result)
           IN review' =
                [review EXCEPT
                   !.pack = @ + 1,
                   !.artifacts = Append(@,
                      [a EXCEPT !.findings = filterFindings(PackAt, @)]),
                   !.accepted = @ \cup {[pack |-> PackAt, doc |-> call.raw.doc]}]
     \/ call.pc = "failed" /\ ReviewFails
  /\ call' = NoCall
  /\ UNCHANGED <<sc, forge, snap, limiterVars, identityVars>>

Judge ==
  /\ At("packs") /\ review.pack > Len(Packs)
  /\ review' = [review EXCEPT
       !.bundle = Bundle(review.artifacts, review.request, sc.threshold),
       !.pc = IF sc.advisor # 0 THEN "advise"
              ELSE IF sc.driver = "cli" THEN "compare" ELSE "record"]
  /\ UNCHANGED <<sc, forge, snap, limiterVars, call, identityVars>>

StartAdvice ==
  /\ At("advise") /\ call.pc = "out"
  /\ StartCall(ResolveProvider(sc.advisor))
  /\ UNCHANGED <<sc, review, forge, snap, limiterVars, identityVars>>

\* Advice changes nothing in the bundle but the advisor's artifact.  Without
\* it the worker goes on and the command fails.
FinishAdvice ==
  /\ At("advise") /\ sc.driver = "engine"
  /\ call.pc \in {"answered", "failed"}
  /\ Goto("record")
  /\ call' = NoCall
  /\ UNCHANGED <<sc, forge, snap, limiterVars, identityVars>>

FinishCommandAdvice ==
  /\ At("advise") /\ sc.driver = "cli"
  /\ \/ call.pc = "answered" /\ Goto("compare")
     \/ call.pc = "failed" /\ ReviewFails
  /\ call' = NoCall
  /\ UNCHANGED <<sc, forge, snap, limiterVars, identityVars>>

-----------------------------------------------------------------------------
(* The older processor                                                     *)

StartAsk ==
  /\ At("ask") /\ call.pc = "out"
  /\ StartCall(ResolveWithFallbackRoutes(Route, DefaultFallbacks))
  /\ UNCHANGED <<sc, review, forge, snap, limiterVars, identityVars>>

\* A failure is retried by the scheduler if it was a timeout, and is a result
\* of its own if the answer could not be parsed.
FinishAsk ==
  /\ At("ask")
  /\ \/ /\ call.pc = "answered"
        /\ review' = [review EXCEPT !.pc = "asked", !.bundle =
             [status |-> call.result.status, findings |-> ToSet(call.result.findings)]]
     \/ /\ call.pc = "failed" /\ call.error = "parser"
        /\ review' = [review EXCEPT !.pc = "asked", !.bundle =
             [status |-> "parser_error", findings |-> {}]]
     \/ call.pc = "failed" /\ call.error = "timeout" /\ Goto("retry")
     \/ /\ call.pc = "failed" /\ call.error \notin {"parser", "timeout"}
        /\ Goto("failed")
  /\ call' = NoCall
  /\ UNCHANGED <<sc, forge, snap, limiterVars, identityVars>>

\* isRunCancelled, before anything is stored.
RunCancelled ==
  /\ review.pc \in {"degraded", "asked"}
  /\ review' = [review EXCEPT !.pc = "done", !.status = "cancelled"]
  /\ UNCHANGED <<sc, forge, snap, limiterVars, call, identityVars>>

\* The summary chain is asked if there is one; its failure is ignored, and its
\* walkthrough becomes the summary note of the result, of which nothing is
\* stored unless the status is parser_error.
Summarize ==
  /\ At("asked")
  /\ Goto("settle")
  /\ UNCHANGED <<sc, forge, snap, limiterVars, call, identityVars>>

\* No provider is asked; the status is written at once and there are no findings.
Degrade ==
  /\ At("degraded")
  /\ review' = [review EXCEPT !.pc = "done", !.status = "completed", !.gate = "passed"]
  /\ UNCHANGED <<sc, forge, snap, limiterVars, call, identityVars>>

-----------------------------------------------------------------------------
(* Results                                                                 *)

\* InsertMRVersion; the engine's comes after the review.
RecordVersion ==
  /\ At("record")
  /\ \/ review' = [review EXCEPT !.recorded = snap.version,
                                 !.pc = IF sc.driver = "llm" THEN "build" ELSE "settle"]
     \/ Goto("failed")
  /\ UNCHANGED <<sc, forge, snap, limiterVars, call, identityVars>>

SummaryCandidate ==
  [title |-> "", body |-> {"summary"}, severity |-> "", location |-> NoPlace,
   summary |-> TRUE, outOfDiff |-> FALSE]

\* What a worker writes.  The steps of it are the matter of CommentWriter; the
\* findings of the older processor are its own.
Comments ==
  LET Row(f, c) == [form |-> "discussion", of |-> c,
                    position |-> BuildPosition(normalizeFinding(f))]
  IN IF sc.driver = "llm" THEN {Row(f, f) : f \in review.bundle.findings}
     ELSE IF sc.forge = "gitlab"
     THEN {Row(legacyFinding(c), c) : c \in review.bundle.candidates}
     ELSE {q \in {PublishRequest(c) : c \in review.bundle.candidates
                                           \cup {SummaryCandidate}} : q.form # "none"}

\* All findings are new here, pass the thresholds and have no discussion yet.
Settle ==
  LET result == IF sc.driver = "llm" THEN review.bundle
                ELSE legacyResultFromBundle(review.bundle)
  IN /\ At("settle")
     /\ review' = [review EXCEPT
          !.pc = "write", !.bundle = [findings |-> result.findings] @@ @,
          !.status = canonicalRunStatus(result.status, result.findings)]
     /\ UNCHANGED <<sc, forge, snap, limiterVars, call, identityVars>>

\* By the platform of the run.  When it fails, nothing is said of the verdict.
WriteBack ==
  /\ At("write")
  /\ \/ review' = [review EXCEPT !.pc = "gate", !.posted = Comments]
     \/ Goto("failed")
  /\ UNCHANGED <<sc, forge, snap, limiterVars, call, identityVars>>

PublishGate ==
  LET blocking == {f \in review.bundle.findings : gateSeverityRank(f.severity) >= 1}
  IN /\ At("gate")
     /\ review' = [review EXCEPT
          !.pc = "done",
          !.gate = IF review.status = "parser_error" THEN ""
                   ELSE IF GateMode # "threads_resolved" /\ blocking # {}
                   THEN "failed" ELSE "passed"]
     /\ UNCHANGED <<sc, forge, snap, limiterVars, call, identityVars>>

finalStatusState(bundle) ==
  CASE bundle.verdict = "requested_changes" -> "failed"
    [] bundle.verdict = "incomplete" -> "pending"
    [] OTHER -> IF bundle.candidates # {} THEN "failed" ELSE "success"

exitCodeForResult(mode, verdict) ==
  CASE mode # "never" /\ verdict = "requested_changes" -> 3
    [] mode = "incomplete" /\ verdict = "incomplete" -> 2
    [] OTHER -> 0

-----------------------------------------------------------------------------
(* The command                                                             *)

\* defaultCompare.  If it fails the command ends, and a commit status that it
\* has set stays as it is.
Compare ==
  /\ At("compare")
  /\ \/ Goto("publish")
     \/ sc.compare /\ review' = [review EXCEPT !.pc = "failed", !.exit = 1]
  /\ UNCHANGED <<sc, forge, snap, limiterVars, call, identityVars>>

summaryOnlyBundle(candidates) == {c \in candidates : c.summary}

StartPublish ==
  LET all == {SummaryCandidate} \cup review.bundle.candidates IN
  /\ At("publish")
  /\ review' = [review EXCEPT !.pc = "posting", !.queue =
       CASE Options.publish = "full-review-comments" -> all
         [] Options.publish = "summary-only" -> summaryOnlyBundle(all)
         [] Options.publish = "artifact-only" -> {}]
  /\ UNCHANGED <<sc, forge, snap, limiterVars, call, identityVars>>

\* Candidates are in no order, but the summary comes first, and on GitLab the
\* notes before the discussions.
NextCandidates(queue) ==
  LET notes == {c \in queue : c.summary}
  IN IF SummaryCandidate \in queue THEN {SummaryCandidate}
     ELSE IF sc.forge = "gitlab" /\ notes # {} THEN notes ELSE queue

Posted(c, requests) ==
  review' = [review EXCEPT !.queue = @ \ {c}, !.posted = @ \cup requests]

\* Publisher.Publish of GitLab: a position that is refused becomes a note.
PublishToGitLab ==
  /\ At("posting") /\ sc.forge = "gitlab"
  /\ \E c \in NextCandidates(review.queue) :
       \/ Posted(c, {BuildRequest(c)})
       \/ ~c.summary /\ Posted(c, {Note(c)})
       \/ ReviewFails
  /\ UNCHANGED <<sc, forge, snap, limiterVars, call, identityVars>>

PublishToGitHub ==
  /\ At("posting") /\ sc.forge = "github"
  /\ \E c \in NextCandidates(review.queue) :
       LET request == PublishRequest(c) IN
       \/ request.form = "none" /\ Posted(c, {})
       \/ request.form # "none" /\ Posted(c, {request})
       \/ request.form # "none" /\ ReviewFails
  /\ UNCHANGED <<sc, forge, snap, limiterVars, call, identityVars>>

\* The exit code is that of the first target with one.
exitCode(verdicts) ==
  LET codes == [i \in DOMAIN verdicts |-> exitCodeForResult(Options.exit, verdicts[i])]
      bad == SelectSeq(codes, LAMBDA n : n # 0)
  IN IF bad = <<>> THEN 0 ELSE Head(bad)

\* Then the next target, another merge request of the same kind.
PublishVerdict ==
  LET verdicts == Append(review.verdicts, review.bundle.verdict) IN
  /\ At("posting") /\ review.queue = {}
  /\ \E gate \in defaultStatus(finalStatusState(review.bundle)) :
       review' = IF Len(verdicts) < sc.targets
                 THEN [Unstarted EXCEPT !.verdicts = verdicts]
                 ELSE [review EXCEPT !.pc = "done", !.gate = gate,
                         !.verdicts = verdicts, !.exit = exitCode(verdicts)]
  /\ UNCHANGED <<sc, forge, snap, limiterVars, call, identityVars>>

-----------------------------------------------------------------------------
ProviderStep ==
  /\ CallStep(sc.answers)
  /\ UNCHANGED <<sc, review, forge, snap, identityVars>>

\* Other reviews of the process, in scenarios that have them.
OthersStep ==
  /\ sc.contended
  /\ \E c \in Callers \ {Me} : OtherCaller(c)
  /\ UNCHANGED <<sc, review, forge, snap, identityVars>>

ClockStep ==
  /\ sc.contended
  /\ Tick
  /\ UNCHANGED <<sc, review, forge, snap, call, identityVars>>

PipelineNext ==
  \/ Begin \/ FetchSnapshot \/ SnapshotEnds \/ Build \/ Identify \/ OthersIdentify
  \/ SkipPack \/ StartPack \/ FinishPack \/ Judge \/ StartAdvice \/ FinishAdvice
  \/ StartAsk \/ FinishAsk \/ RunCancelled \/ Summarize \/ Degrade
  \/ RecordVersion \/ Settle \/ WriteBack \/ PublishGate
  \/ FinishCommandAdvice \/ Compare \/ StartPublish \/ PublishToGitLab \/ PublishToGitHub \/ PublishVerdict
  \/ ProviderStep \/ OthersStep \/ ClockStep

PipelineSpec == PipelineInit /\ [][PipelineNext]_vars

-----------------------------------------------------------------------------
(* Properties                                                              *)

Judged ==
  /\ sc.driver # "llm"
  /\ review.pc \in {"advise", "record", "settle", "write", "gate", "compare", "publish",
                    "posting", "done"}

\* ResolveWithFallbackRoutes and the chain: no route is asked twice for one
\* review, and it is given up for an error that another route could have mended
\* only after all that are configured: the one referred to, and the fallbacks of
\* its chain or else the default ones.
FallbacksAreExhausted ==
  LET ref == IF At("advise") THEN sc.advisor ELSE Route
      chained == ref \in DOMAIN Chains /\ ~At("ask")
      own == IF chained THEN ToSet(Chains[ref].fallbacks) \ {0, Chains[ref].primary}
             ELSE {}
      primary == IF chained THEN Chains[ref].primary ELSE ref
      configured == {primary} \cup IF own # {} THEN own ELSE ToSet(DefaultFallbacks)
      asked == SubSeq(call.chain, 1, call.pos)
  IN /\ IsInjective(asked)
     /\ (call.pc = "failed" /\ call.last) =>
          ToSet(asked) = {Resolve(r) : r \in configured}

\* The coverage report: every changed line of a file with a name is in the
\* prompt or listed as skipped, none is counted twice, and the budgets of
\* files and lines are kept.
CoverageAddsUp ==
  LET q == review.request
      settings == SettingsFromPolicy(Policy)
      Sum(s, Of(_)) == FoldLeft(LAMBDA n, e : n + Of(e), 0, s)
      InPrompt(c) == Sum(c.hunks, LAMBDA h : changedLines(h.lines))
      named == SelectSeq(Diffs, LAMBDA d : changePath(d) # <<>>)
  IN ~q.error =>
       /\ q.total = Sum(named, countChangedLines)
       /\ q.reviewed = Sum(q.changes, InPrompt)
       /\ q.total = q.reviewed + Sum(q.skipped, LAMBDA s : s.lines)
       /\ q.reviewed <= settings["lines"] /\ Len(q.changes) <= settings["files"]
       /\ Len(q.changes) + Len(q.excluded) <= Len(named)

\* The numbers of the lines a request names, by side.
SentLines(m) ==
  LET p == m.position
      ends == {p} \cup {[old_line |-> e.old, new_line |-> e.new] : e \in ToSet(p.range)}
  IN IF m.form = "review"
     THEN {<<m.side, m.line>>, <<m.side, IF m.start_line = 0 THEN m.line ELSE m.start_line>>}
     ELSE UNION {{<<"old", e.old_line>>, <<"new", e.new_line>>} : e \in ends}
          \ {<<"old", 0>>, <<"new", 0>>}

\* INV-1018 as the code implements it: a comment goes on a line only if the
\* change touched that line or removed the one next to it, or the hunk was cut
\* and it is not known; and a range does not leave its hunk.  The request that
\* is sent names no other lines, unless the finding itself has further line
\* numbers (GitLab is sent those unverified), or a worker moves it to the new
\* side.  Paths that name two changes are left out: the index knows only the
\* last of them.
InlineCommentsAreOnChangedLines ==
  LET Named(p) == {i \in DOMAIN review.request.changes :
                     p \in {review.request.changes[i].path,
                            review.request.changes[i].old}}
      Marks(h, m) == {k \in DOMAIN h.lines : h.lines[k] = m}
      Touches(h, side) ==
        IF side = "old" THEN {OldNo(h, k) : k \in Marks(h, "-")}
        ELSE {NewNo(h, k) : k \in Marks(h, "+")}
             \cup UNION {{NewNo(h, k) - 1, NewNo(h, k)} : k \in Marks(h, "-")}
      Lines(h, side) == IF side = "old" THEN {OldNo(h, k) : k \in DOMAIN h.lines}
                        ELSE {NewNo(h, k) : k \in DOMAIN h.lines}
      Place(loc) == {loc.side} \X (loc.start..loc.end)
      Further(loc) == SentLines([form |-> "discussion", position |-> loc.meta])
                        \ Place(loc)
  IN Judged =>
       /\ \A c \in review.bundle.candidates :
            LET loc == c.location IN
            (~c.summary /\ loc.start > 0 /\ Cardinality(Named(loc.path)) = 1) =>
              LET i == CHOOSE j \in Named(loc.path) : TRUE
                  hunks == ToSet(review.request.changes[i].hunks)
              IN /\ \E h \in hunks : \/ loc.start \in Touches(h, loc.side)
                                     \/ h.truncated /\ loc.start \in Lines(h, loc.side)
                 /\ \E h \in hunks : loc.start..loc.end \subseteq Lines(h, loc.side)
       /\ \A m \in review.posted :
            (m.form # "note" /\ ~m.of.summary /\ Further(m.of.location) = {}
               /\ (sc.driver = "cli" \/ sc.forge = "github" \/ m.of.location.side = "new"))
            => SentLines(m) \subseteq Place(m.of.location)

\* The worker's writer and the command's put a finding on the same lines of the
\* same files, if the finding has the line numbers its kind asks for and no
\* others.
WritersAgree ==
  LET Lined(kind) == CASE kind = "old" -> {"old"} [] kind = "new" -> {"new"}
                       [] kind = "context" -> {"old", "new"} [] OTHER -> {}
      Has(f, old, new) == {side \in {"old", "new"} :
                             f.lines[IF side = "old" THEN old ELSE new] # 0}
      Start(f) == Has(f, "range_start_old_line", "range_start_new_line")
      End(f) == Has(f, "range_end_old_line", "range_end_new_line")
      Exact(f) ==
        LET kind == normalizeAnchorKind(f.kind)
            start == legacyRangeLineType(f.kinds["range_start_kind"])
            end == legacyRangeLineType(f.kinds["range_end_kind"])
        IN IF kind = "range"
           THEN /\ Has(f, "old_line", "new_line") = {} /\ "" \notin {start, end}
                /\ Start(f) = Lined(start) /\ End(f) = Lined(end)
           ELSE /\ kind \in {"old_line", "new_line", "context_line"}
                /\ Has(f, "old_line", "new_line") = Lined(legacyRangeLineType(kind))
                /\ Start(f) = {} /\ End(f) = {}
      Where(p) == [p EXCEPT !.type = ""]
  IN call.pc = "answered" =>
       \A f \in ToSet(call.result.findings) :
         (f.path # <<>> /\ Exact(f)) =>
           Where(BuildPosition(normalizeFinding(f)))
             = Where(buildPosition(locationFromLegacyFinding(f)))

\* From an accepted answer to the forge: unless the contract of the pack
\* filters it, every finding that is an object of the list is published with
\* the model's words and at least its severity, whatever else was reported;
\* and the command posts all that is published, except on GitHub a finding
\* that names a file and no line.
NothingReportedIsLost ==
  Judged =>
    /\ \A a \in review.accepted : \A i \in DOMAIN a.doc.findings :
         LET item == a.doc.findings[i]
             words == {item[k] : k \in DOMAIN item \cap
                         {"title", "description", "body", "body_markdown"}}
             kept == /\ (words \cup {stringAlias(item, <<"category">>)})
                          \cap a.pack.exclusions = {}
                     /\ float64Alias(item, <<"confidence">>) \notin 1..(a.pack.gate - 1)
         IN (a.doc.list /\ isObject(item) /\ kept) =>
              \E c \in review.bundle.candidates :
                /\ (c.body \cup {c.title}) \cap words # {}
                /\ severityRank(c.severity)
                     >= severityRank(stringAlias(item, <<"severity">>))
    /\ (At("done") /\ Options.publish = "full-review-comments") =>
         \A c \in review.bundle.candidates :
           \/ \E m \in review.posted : m.of = c
           \/ sc.forge = "github" /\ ~c.summary /\ c.location.start <= 0

\* loadDirectoryScopedReviews and ReviewForPath together: a file is reviewed
\* under the nearest REVIEW.md above it that could be read, and under the one
\* of the root only if there is none.
NearestReviewGoverns ==
  \A i \in DOMAIN review.request.changes :
    LET c == review.request.changes[i]
        above == ParentDirs(c.path) \cap DOMAIN sc.reviews
    IN IF above = {} THEN c.review = sc.root
       ELSE \E d \in above : /\ \A e \in above : Len(e) <= Len(d)
                             /\ c.review = sc.reviews[d]

\* The repository's file changes only what the host left to it, and only by
\* what stands in it before the change under review.
ChangeDoesNotPickItsGate ==
  LET host == mergeEffectivePolicyFull(sc.platform, sc.nopolicy, Policy)
      base == {sc.yaml.base[i] : i \in {i \in DOMAIN sc.yaml.base :
                                          sc.yaml.base[i].kind = "config"}}
  IN (~review.request.error /\ sc.base # 0) =>
       \A f \in Fields :
         review.rules.effective[f] # host[f] =>
           /\ f \notin {"gate", "route", "severity", "confidence"}
           /\ \E y \in base : y.cfg[f] = review.rules.effective[f]

\* A bundle passes, and the command reports success, only if every selected
\* pack was answered, the reviewer saw the share of the change that the
\* threshold asks for, and nobody reported anything serious; and in its
\* strictest mode the command returns 0 only if that is so for every target.
CleanVerdictIsEarned ==
  /\ (Judged /\ (review.bundle.verdict = "pass" \/ review.gate = "success")) =>
       /\ review.bundle.verdict = "pass"
       /\ review.request.reviewed * 100 >= Threshold(sc.threshold) * review.request.total
       /\ \A p \in ToSet(Packs) :
            isPackSelected(p.id, sc.selected) =>
              \E a \in ToSet(review.artifacts) : a.reviewer = p.id
       /\ \A a \in ToSet(review.artifacts) : \A f \in ToSet(a.findings) :
            f.severity \notin {"high", "critical"}
  /\ (sc.driver = "cli" /\ review.pc \in {"done", "failed"} /\ review.exit = 0
        /\ sc.exit = "incomplete") =>
       review.verdicts = [i \in 1..sc.targets |-> "pass"]

\* INV-1019 as the documentation has it, at the gate of the worker: a review
\* that did not see enough of the change does not pass.
UnseenChangesDoNotPass ==
  (sc.driver = "engine" /\ review.gate = "passed") =>
    review.request.reviewed * 100 >= Threshold(sc.threshold) * review.request.total
=============================================================================
