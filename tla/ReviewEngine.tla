---------------------------- MODULE ReviewEngine ----------------------------
(***************************************************************************)
(* internal/reviewcore, internal/reviewpack and internal/judge: from the   *)
(* results of the reviewer packs to the bundle that is published.          *)
(***************************************************************************)
EXTENDS RulesLoader, OutputParser

CONSTANTS
  Packs,               \* the contracts of the packs, in order
  DefaultCoverageThreshold   \* per cent of changed lines a passing review has seen

severityRank(s) ==
  CASE s = "critical" -> 4 [] s = "high" -> 3 [] s = "medium" -> 2
    [] s = "low" -> 1 [] OTHER -> 0

-----------------------------------------------------------------------------
(* legacy_bridge.go: locations                                             *)

normalizeLocationKind(kind) ==
  CASE kind \in {"old", "old_line", "deleted"} -> "old_line"
    [] kind = "range" -> "range"
    [] OTHER -> "new_line"

resolveLegacyPaths(path) ==
  LET arrows == {i \in DOMAIN path : path[i] = "->"}
  IN IF arrows = {} THEN [old |-> path, new |-> path]
     ELSE [old |-> SubSeq(path, 1, Min(arrows) - 1),
           new |-> SubSeq(path, Min(arrows) + 1, Len(path))]

legacyRangeLineType(kind) ==
  CASE kind \in {"old", "old_line", "removed"} -> "old"
    [] kind \in {"new", "new_line", "added"} -> "new"
    [] kind \in {"context", "context_line", "unchanged"} -> "context"
    [] OTHER -> ""

legacyLineCode(paths, old, new) ==
  LET path == IF paths.new # <<>> THEN paths.new ELSE paths.old
  IN IF path = <<>> THEN <<>> ELSE <<path, old, new>>

NoLine == [code |-> <<>>, type |-> "", old |-> 0, new |-> 0]

legacyRangeLineMetadata(paths, kind, old, new) ==
  LET type == legacyRangeLineType(kind)
      code == legacyLineCode(paths, old, new)
  IN IF type = "" \/ code = <<>> THEN NoLine
     ELSE [code |-> code, type |-> type, old |-> old, new |-> new]

\* A range is its two ends, or <<>>.
legacyLineRangeMetadata(paths, f) ==
  LET End(kind, old, new) ==
        legacyRangeLineMetadata(paths, f.kinds[kind], f.lines[old], f.lines[new])
      range == <<End("range_start_kind", "range_start_old_line", "range_start_new_line"),
                 End("range_end_kind", "range_end_old_line", "range_end_new_line")>>
  IN IF NoLine \in ToSet(range) \/ \A i \in 1..2 : range[i].old + range[i].new = 0
     THEN <<>> ELSE range

\* What the forge's writer is told of the finding, beside the location.
PlatformMetadata(paths, f) ==
  [old_path |-> paths.old, new_path |-> paths.new,
   old_line |-> f.lines["old_line"], new_line |-> f.lines["new_line"],
   range |-> legacyLineRangeMetadata(paths, f)]

\* A line that is not positive is no line.
locationFromLegacyFinding(f) ==
  LET n == f.lines
      kind == normalizeLocationKind(f.kind)
      paths == resolveLegacyPaths(f.path)
      onNew == \/ kind = "new_line"
               \/ kind = "range" /\ n["range_start_new_line"] > 0
      start == CASE kind = "new_line" -> Max({n["new_line"], 0})
                 [] kind = "old_line" -> n["old_line"]
                 [] kind = "range" /\ onNew -> n["range_start_new_line"]
                 [] OTHER -> n["range_start_old_line"]
      end == IF kind # "range" THEN start
             ELSE Max({start, n[IF onNew THEN "range_end_new_line"
                                ELSE "range_end_old_line"]})
  IN [path |-> IF paths.new # <<>> THEN paths.new ELSE paths.old,
      side |-> IF onNew THEN "new" ELSE "old",
      start |-> start, end |-> end, meta |-> PlatformMetadata(paths, f)]

NoPlace == [path |-> <<>>, side |-> "new", start |-> 0, end |-> 0, meta |->
              [old_path |-> <<>>, new_path |-> <<>>, old_line |-> 0, new_line |-> 0,
               range |-> <<>>]]

normalizeClaim(title, body) == IF body # "" THEN body ELSE title

\* Canonical keys are left out.
evidenceFingerprint(f) ==
  IF f.evidence # <<>> THEN f.evidence ELSE <<normalizeClaim(f.title, f.body)>>

findingFromLegacy(f) ==
  [category |-> f.category, severity |-> f.severity, confidence |-> f.confidence,
   title |-> f.title, body |-> f.body, claim |-> normalizeClaim(f.title, f.body),
   evidence |-> evidenceFingerprint(f), location |-> locationFromLegacyFinding(f)]

ArtifactFromLegacyResult(id, r) ==
  [reviewer |-> id,
   findings |-> [i \in DOMAIN r.findings |-> findingFromLegacy(r.findings[i])]]

-----------------------------------------------------------------------------
(* pack.go                                                                 *)

isPackSelected(id, selected) == selected = {} \/ id \in selected

\* exclusions and bypass are the texts that contain one of the contract's
\* phrases.
shouldBypassExclusions(contract, f) ==
  {f.title, f.category, f.claim, f.body} \cap contract.bypass # {}

isExcludedFinding(contract, f) ==
  /\ ~shouldBypassExclusions(contract, f)
  /\ {f.title, f.category, f.claim, f.body} \cap contract.exclusions # {}

filterFindings(contract, findings) ==
  SelectSeq(findings, LAMBDA f :
    /\ ~(contract.gate > 0 /\ f.confidence > 0 /\ f.confidence < contract.gate)
    /\ ~isExcludedFinding(contract, f))

-----------------------------------------------------------------------------
(* judge/engine.go                                                         *)

identityKey(f) ==
  <<f.category, f.claim, f.evidence, f.location.path, f.location.side,
    f.location.start, f.location.end>>

Reported(artifacts) ==
  FoldLeft(LAMBDA s, a : s \o a.findings, <<>>, artifacts)

\* Of the findings with one identity the first of the highest severity.
MergedFindings(artifacts) ==
  LET all == Reported(artifacts)
      Beats(i, j) ==
        \/ severityRank(all[i].severity) > severityRank(all[j].severity)
        \/ /\ severityRank(all[i].severity) = severityRank(all[j].severity)
           /\ i < j
  IN {all[i] : i \in {i \in DOMAIN all :
        \A j \in DOMAIN all \ {i} :
          identityKey(all[i]) = identityKey(all[j]) => Beats(i, j)}}

\* Mutant: the first report of a finding decides, whatever comes later.
Decide_First(artifacts) ==
  LET all == Reported(artifacts)
      merged == {all[i] : i \in {i \in DOMAIN all :
                   \A j \in 1..(i - 1) : identityKey(all[i]) # identityKey(all[j])}}
  IN [merged |-> merged,
      verdict |-> IF \E f \in merged : f.severity \in {"high", "critical"}
                  THEN "requested_changes" ELSE "pass"]

Decide(artifacts) ==
  LET merged == MergedFindings(artifacts)
  IN [merged |-> merged,
      verdict |-> IF \E f \in merged : f.severity \in {"high", "critical"}
                  THEN "requested_changes" ELSE "pass"]

-----------------------------------------------------------------------------
(* diffindex.go                                                            *)

\* The number, on one side, of the line at index k of a hunk; k may be one
\* past the end.
LineNo(start, marks, lines, k) ==
  start + Len(SelectSeq(SubSeq(lines, 1, k - 1), LAMBDA l : l \in marks))

NewNo(h, k) == LineNo(h.newStart, {" ", "+"}, h.lines, k)
OldNo(h, k) == LineNo(h.oldStart, {" ", "-"}, h.lines, k)

\* What follows the line at index k, end markers apart; an index past the end
\* if nothing does.
NextLine(h, k) ==
  Min({m \in (k + 1)..(Len(h.lines) + 1) :
         m > Len(h.lines) \/ h.lines[m] # "\\"})

\* Deletions that no added line follows are anchored on their neighbours.
DeletionAnchors(h) ==
  UNION {LET m == NextLine(h, k)
         IN IF m <= Len(h.lines) /\ h.lines[m] # " " THEN {}
            ELSE {n \in {NewNo(h, m) - 1} : n >= h.newStart} \cup {NewNo(h, m)}
         :
         k \in {k \in DOMAIN h.lines : h.lines[k] = "-"}}

Span(start, n) == start..(start + Max({n, 1}) - 1)

indexHunk(h) ==
  [old |-> {OldNo(h, k) : k \in {k \in DOMAIN h.lines : h.lines[k] = "-"}},
   new |-> {NewNo(h, k) : k \in {k \in DOMAIN h.lines : h.lines[k] = "+"}}
           \cup DeletionAnchors(h),
   oldSpan |-> Span(h.oldStart, h.oldLines), newSpan |-> Span(h.newStart, h.newLines),
   partial |-> h.truncated]

\* A path names a change by its new or its old name; the last one wins.
buildChangedLineIndex(changes) ==
  LET Of(p) == {i \in DOMAIN changes : p \in {changes[i].path, changes[i].old}}
      paths == UNION {{changes[i].path, changes[i].old} : i \in DOMAIN changes}
  IN [p \in paths \ {<<>>} |->
        LET hunks == changes[Max(Of(p))].hunks
        IN {indexHunk(hunks[k]) : k \in DOMAIN hunks}]

\* Mutant: any line inside a hunk will do.
verify_Span(index, loc) ==
  IF loc.path = <<>> \/ loc.start <= 0 \/ loc.path \notin DOMAIN index
  THEN "unknown"
  ELSE LET Lines(h) == IF loc.side = "old" THEN h.oldSpan ELSE h.newSpan
           range == loc.start..Max({loc.start, loc.end})
       IN IF \E h \in index[loc.path] : range \subseteq Lines(h)
          THEN "in_diff" ELSE "out_of_diff"

\* The line and the span may belong to different hunks.
verify(index, loc) ==
  IF loc.path = <<>> \/ loc.start <= 0 \/ loc.path \notin DOMAIN index
  THEN "unknown"
  ELSE LET hunks == index[loc.path]
           onOld == loc.side = "old"
           range == loc.start..Max({loc.start, loc.end})
           Within(partial) ==
             \E h \in hunks : /\ h.partial = partial
                              /\ range \subseteq IF onOld THEN h.oldSpan ELSE h.newSpan
           touched == \E h \in hunks : /\ ~h.partial
                                       /\ loc.start \in IF onOld THEN h.old ELSE h.new
       IN IF (touched /\ Within(FALSE)) \/ Within(TRUE) THEN "in_diff"
          ELSE "out_of_diff"

-----------------------------------------------------------------------------
(* engine.go                                                               *)

\* A path without a line that ends in a slash, an empty last name, is a
\* directory.
locationSupportsInlineDiscussion(loc) ==
  /\ loc.path # <<>>
  /\ loc.start > 0 \/ loc.end > 0 \/ Last(loc.path) # ""

summaryBodyFromFinding(title, body) == {title, body} \ {""}

\* A body is the set of the model's texts in it.
publishCandidateForFinding(index, f) ==
  LET inline == locationSupportsInlineDiscussion(f.location)
      out == inline /\ verify(index, f.location) = "out_of_diff"
  IN [title |-> f.title, severity |-> f.severity, location |-> f.location,
      body |-> IF inline /\ ~out THEN {f.body} \ {""}
               ELSE summaryBodyFromFinding(f.title, f.body),
      summary |-> ~inline \/ out, outOfDiff |-> out]

Threshold(percent) ==
  IF percent \in 1..100 THEN percent ELSE DefaultCoverageThreshold

\* Mutant: hunks are counted, not lines.
coverageIncomplete_Hunks(report, percent) ==
  report.hunksInPrompt * 100 < Threshold(percent) * report.hunksTotal

\* coverageSummaryFromInput; there is no summary for a change without lines
\* and hunks.
coverageIncomplete(report, percent) ==
  report.reviewed * 100 < Threshold(percent) * report.total

\* The end of Run: judge, coverage, candidates.
Bundle(artifacts, request, percent) ==
  LET decision == Decide(artifacts)
      incomplete == coverageIncomplete(request, percent)
      index == buildChangedLineIndex(request.changes)
  IN [verdict |-> IF incomplete /\ decision.verdict = "pass" THEN "incomplete"
                  ELSE decision.verdict,
      incomplete |-> incomplete,
      candidates |-> {publishCandidateForFinding(index, f) : f \in decision.merged}]

-----------------------------------------------------------------------------
(* reviewrun/engine_processor.go                                           *)

\* Every candidate becomes a finding on a line of the new side, without the
\* reviewer's category and confidence.
legacyFinding(c) ==
  [path |-> c.location.path, title |-> c.title, body |-> c.body,
   severity |-> IF c.severity = "" THEN "medium" ELSE c.severity,
   kind |-> IF c.location.path = <<>> THEN "general" ELSE "new_line",
   lines |-> [k \in LineKeys |->
                IF k = "new_line" THEN Max({c.location.start, 0}) ELSE 0],
   kinds |-> [k \in KindKeys |-> ""], evidence |-> <<>>]

legacyResultFromBundle(bundle) ==
  [status |-> bundle.verdict,
   findings |-> {legacyFinding(c) : c \in bundle.candidates}]

\* A file of which only a part was reviewed counts as reviewed.
reviewedScopeFromRequest(changes) ==
  [reviewed |-> {changes[i].path : i \in DOMAIN changes},
   deleted |-> {changes[i].path : i \in {i \in DOMAIN changes :
                                          changes[i].status = "deleted"}}]
=============================================================================
