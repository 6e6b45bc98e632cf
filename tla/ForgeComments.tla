--------------------------- MODULE ForgeComments ---------------------------
(***************************************************************************)
(* Where a finding is put on the forge.  There are two ways:               *)
(*   the worker's, internal/writer: from the row of a finding              *)
(*   the command's, internal/platform: from a candidate of the bundle      *)
(* A position is what GitLab is sent: a type, paths, the numbers of a line *)
(* (0 for none) and the two ends of a range, or <<>>.                      *)
(***************************************************************************)
EXTENDS ReviewEngine

-----------------------------------------------------------------------------
(* internal/llm/dedup.go and internal/writer/writer.go: rows               *)

normalizeAnchorKind(kind) ==
  CASE kind \in {"new", "new_line", "added"} -> "new_line"
    [] kind \in {"old", "old_line", "deleted"} -> "old_line"
    [] kind \in {"context", "context_line", "unchanged"} -> "context_line"
    [] OTHER -> kind

canonicalRangeLineType(kind) == legacyRangeLineType(kind)

normalizeFinding(f) ==
  [path |-> f.path, kind |-> normalizeAnchorKind(f.kind), lines |-> f.lines,
   kinds |-> [k \in KindKeys |-> canonicalRangeLineType(f.kinds[k])],
   evidence |-> f.evidence]

canonicalAnchorKind(kind) ==
  CASE kind \in {"range", "line_range"} -> "range"
    [] kind \in {"old", "old_line", "deleted", "removed"} -> "old_line"
    [] kind \in {"context", "context_line", "unchanged"} -> "context_line"
    [] OTHER -> "new_line"

resolvePaths(row) == resolveLegacyPaths(row.path)

lineCode(paths, old, new) ==
  IF paths.old = <<>> /\ paths.new = <<>> THEN <<>>
  ELSE <<IF paths.new # <<>> THEN paths.new ELSE paths.old, old, new>>

\* An end of a range has the lines its kind asks for, or is no end.
rangeAnchorLineForKind(kind, old, new) ==
  CASE kind = "old" /\ old # 0 -> [kind |-> kind, old |-> old, new |-> 0]
    [] kind = "new" /\ new # 0 -> [kind |-> kind, old |-> 0, new |-> new]
    [] kind = "context" /\ old # 0 /\ new # 0 -> [kind |-> kind, old |-> old, new |-> new]
    [] OTHER -> [kind |-> "", old |-> 0, new |-> 0]

Anchored(ends) == \A i \in DOMAIN ends : ends[i].kind # ""

structuredRangeAnchor(row) ==
  LET n == row.lines
      ends == <<rangeAnchorLineForKind(row.kinds["range_start_kind"],
                  n["range_start_old_line"], n["range_start_new_line"]),
                rangeAnchorLineForKind(row.kinds["range_end_kind"],
                  n["range_end_old_line"], n["range_end_new_line"])>>
  IN IF Anchored(ends) THEN ends ELSE <<>>

assignRangeLines(kinds, old, new) ==
  LET ends == [i \in DOMAIN kinds |-> rangeAnchorLineForKind(kinds[i], old, new)]
  IN IF Anchored(ends) THEN ends ELSE <<>>

\* The kinds of both ends in the first line of the evidence.
parseRangeAnchor(row) ==
  LET kinds == [i \in DOMAIN row.evidence |-> canonicalRangeLineType(row.evidence[i])]
  IN IF Len(kinds) # 2 \/ "" \in ToSet(kinds) THEN <<>>
     ELSE assignRangeLines(kinds, row.lines["old_line"], row.lines["new_line"])

buildRangeLine(paths, end) ==
  LET code == lineCode(paths, end.old, end.new)
  IN IF code = <<>> THEN NoLine
     ELSE [code |-> code, type |-> end.kind, old |-> end.old, new |-> end.new]

buildLineRange(paths, row) ==
  LET given == structuredRangeAnchor(row)
      ends == IF given # <<>> THEN given ELSE parseRangeAnchor(row)
      range == [i \in DOMAIN ends |-> buildRangeLine(paths, ends[i])]
  IN IF NoLine \in ToSet(range) THEN <<>> ELSE range

BuildPosition(row) ==
  LET paths == resolvePaths(row)
      kind == canonicalAnchorKind(row.kind)
      range == IF kind = "range" THEN buildLineRange(paths, row) ELSE <<>>
  IN [type |-> "text", old_path |-> paths.old, new_path |-> paths.new,
      old_line |-> IF range # <<>> THEN range[2].old
                   ELSE IF kind \in {"old_line", "context_line"}
                   THEN row.lines["old_line"] ELSE 0,
      new_line |-> IF range # <<>> THEN range[2].new
                   ELSE IF kind \in {"new_line", "context_line"}
                   THEN row.lines["new_line"] ELSE 0,
      range |-> range]

-----------------------------------------------------------------------------
(* internal/platform/gitlab/writer.go                                      *)

\* Mutant: the comment goes where the range starts.
buildPosition_Start(loc) ==
  LET m == loc.meta
      n == IF m.range # <<>> THEN [old |-> m.range[1].old, new |-> m.range[1].new]
           ELSE [old |-> IF m.old_line # 0 \/ loc.side # "old" THEN m.old_line ELSE loc.start,
                 new |-> IF m.new_line # 0 \/ loc.side = "old" THEN m.new_line ELSE loc.start]
  IN [type |-> "text", old_path |-> m.old_path, new_path |-> m.new_path,
      old_line |-> n.old, new_line |-> n.new, range |-> m.range]

\* The lines of the metadata replace those of the location, and the range
\* replaces both.
buildPosition(loc) ==
  LET m == loc.meta
      lined == loc.start > 0 \/ loc.end > 0
      old == IF m.old_line # 0 THEN m.old_line
             ELSE IF lined /\ loc.side = "old" THEN loc.start ELSE 0
      new == IF m.new_line # 0 THEN m.new_line
             ELSE IF lined /\ loc.side # "old" THEN loc.start ELSE 0
  IN [type |-> IF lined \/ m.range # <<>> THEN "text" ELSE "file",
      old_path |-> IF m.old_path # <<>> THEN m.old_path ELSE loc.path,
      new_path |-> IF m.new_path # <<>> THEN m.new_path ELSE loc.path,
      old_line |-> IF m.range # <<>> THEN m.range[2].old ELSE old,
      new_line |-> IF m.range # <<>> THEN m.range[2].new ELSE new,
      range |-> m.range]

\* The body, or the title if there is none.
candidateRequestBody(c) == IF c.body # {} THEN c.body ELSE {c.title} \ {""}

Note(c) == [form |-> "note", body |-> candidateRequestBody(c), of |-> c]

BuildRequest(c) ==
  IF c.summary THEN Note(c)
  ELSE [form |-> "discussion", body |-> candidateRequestBody(c), of |-> c,
        position |-> buildPosition(c.location)]

-----------------------------------------------------------------------------
(* internal/platform/github/publish.go                                     *)

\* A finding without a line cannot be a review comment, and is left out.
reviewCommentRequest(c) ==
  LET loc == c.location
      n == IF loc.side = "old" THEN "old" ELSE "new"
  IN [form |-> IF loc.path = <<>> \/ loc.start <= 0 THEN "none" ELSE "review",
      body |-> candidateRequestBody(c), of |-> c, path |-> loc.path, side |-> n,
      line |-> IF loc.end > 0 THEN loc.end ELSE loc.start,
      start_line |-> IF loc.end > loc.start THEN loc.start ELSE 0]

PublishRequest(c) == IF c.summary THEN Note(c) ELSE reviewCommentRequest(c)
=============================================================================
