-------------------------- MODULE ContextAssembler --------------------------
(***************************************************************************)
(* internal/context/assembler.go: which part of a change is put in front   *)
(* of the reviewer.  Files and hunks are taken in order until the budget   *)
(* of files and changed lines is spent; a report says what was left out.   *)
(*                                                                         *)
(* A path is a sequence of names, <<>> if there is none.  A line of a diff *)
(* is its first character.  A pattern is the set of paths it matches.      *)
(***************************************************************************)
EXTENDS Integers, FiniteSetsExt, SequencesExt

CONSTANTS
  MediumLines,      \* 100, changed lines from which a change is not small
  LargeLines,       \* 500, changed lines from which files are prioritised
  DefaultSettings   \* [before, after, lines, files], DefaultPolicySettings

Numbers == {"before", "after", "lines", "files"}

ASSUME SettingsAssumption ==
  /\ MediumLines \in Nat /\ LargeLines \in Nat
  /\ DefaultSettings \in [Numbers -> Nat \ {0}]

-----------------------------------------------------------------------------
(* Settings                                                                *)

applyPolicyExtra(settings, extra) ==
  [n \in Numbers |-> IF extra[n] > 0 THEN extra[n] ELSE settings[n]]

withDefaults(settings) == applyPolicyExtra(DefaultSettings, settings)

\* The object extra.review is applied after the top level of extra.
SettingsFromPolicy(policy) ==
  withDefaults(applyPolicyExtra(
    applyPolicyExtra(DefaultSettings, policy.extra), policy.review))

-----------------------------------------------------------------------------
(* Files                                                                   *)

changePath(d) == IF d.new # <<>> THEN d.new ELSE d.old

changeStatus(d) ==
  CASE "new_file" \in d.traits -> "added"
    [] "deleted_file" \in d.traits -> "deleted"
    [] "renamed_file" \in d.traits -> "renamed"
    [] OTHER -> "modified"

matchesAny(path, patterns) == \E p \in patterns : path \in p

\* What the forge, the path and the text of the diff say of a file.
FileReasons ==
  <<"generated_file", "too_large", "binary_file", "vendor_path", "lock_file">>

excludedReason(d, policy) ==
  LET of == SelectSeq(FileReasons, LAMBDA r : r \in d.traits)
  IN IF of # <<>> THEN Head(of)
     ELSE IF policy.include # {} /\ ~matchesAny(changePath(d), policy.include)
       THEN "path_not_included"
     ELSE IF matchesAny(changePath(d), policy.exclude) THEN "path_excluded"
     ELSE ""

fileRiskScore(d) ==
  IF "test" \in d.traits THEN 1 ELSE IF "docs" \in d.traits THEN 0 ELSE 2

prioritizeFiles(diffs) ==
  LET Scored(n) == SelectSeq(diffs, LAMBDA d : fileRiskScore(d) = n)
  IN Scored(2) \o Scored(1) \o Scored(0)

-----------------------------------------------------------------------------
(* Hunks                                                                   *)

isChangeLine(line) == line \in {"+", "-"}

changedLines(lines) == Len(SelectSeq(lines, isChangeLine))

countLineSpans(lines) ==
  [old |-> Len(SelectSeq(lines, LAMBDA l : l \in {" ", "-"})),
   new |-> Len(SelectSeq(lines, LAMBDA l : l \in {" ", "+"}))]

\* A diff with a header that does not parse counts as empty.
countChangedLines(d) ==
  IF "malformed" \in d.traits THEN 0
  ELSE FoldLeft(LAMBDA n, h : n + changedLines(h.lines), 0, d.hunks)

countHunks(d) == IF "malformed" \in d.traits THEN 0 ELSE Len(d.hunks)

\* Everything up to the change line that exhausts the budget, and the lines
\* after it as long as they are context, at most trailing, or end markers.
truncate(h, remaining, trailing) ==
  LET Line == DOMAIN h.lines
      last == Min({i \in Line : changedLines(SubSeq(h.lines, 1, i)) = remaining})
      After(j) == SubSeq(h.lines, last + 1, j)
      end == Max({j \in last..Len(h.lines) :
                    /\ changedLines(After(j)) = 0
                    /\ countLineSpans(After(j)).new <= trailing})
  IN IF remaining <= 0 \/ changedLines(h.lines) <= remaining THEN h
     ELSE [h EXCEPT !.lines = SubSeq(h.lines, 1, end)]

toHunk(h, truncated) ==
  LET spans == countLineSpans(h.lines)
  IN [oldStart |-> h.oldStart, newStart |-> h.newStart,
      oldLines |-> spans.old, newLines |-> spans.new, lines |-> h.lines,
      changed |-> changedLines(h.lines), truncated |-> truncated]

\* Mutant: the budget is not reduced by the hunks taken from the same file.
TakeHunk_SameBudget(a, h, trailing) ==
  IF a.stop THEN a
  ELSE IF a.left <= 0 THEN [a EXCEPT !.truncated = TRUE, !.stop = TRUE]
  ELSE LET cut == changedLines(h.lines) > a.left
           hunk == toHunk(IF cut THEN truncate(h, a.left, trailing) ELSE h, cut)
       IN IF hunk.changed = 0 THEN a
          ELSE [a EXCEPT !.hunks = Append(@, hunk), !.lines = @ + hunk.changed,
                         !.truncated = @ \/ cut]

TakeHunk(a, h, trailing) ==
  IF a.stop THEN a
  ELSE IF a.left <= 0 THEN [a EXCEPT !.truncated = TRUE, !.stop = TRUE]
  ELSE LET cut == changedLines(h.lines) > a.left
           hunk == toHunk(IF cut THEN truncate(h, a.left, trailing) ELSE h, cut)
       IN IF hunk.changed = 0 THEN a
          ELSE [a EXCEPT !.hunks = Append(@, hunk), !.lines = @ + hunk.changed,
                         !.left = @ - hunk.changed, !.truncated = @ \/ cut]

TakeHunks(d, budget, trailing) ==
  FoldLeft(LAMBDA a, h : TakeHunk(a, h, trailing),
           [hunks |-> <<>>, lines |-> 0, left |-> budget, truncated |-> FALSE,
            stop |-> FALSE], d.hunks)

-----------------------------------------------------------------------------
(* The request and its coverage                                            *)

classifyPRSize(diffs, maxLines) ==
  LET n == FoldLeft(LAMBDA k, d : k + countChangedLines(d), 0, diffs)
  IN CASE n < MediumLines -> "small"
       [] n >= MediumLines /\ n < LargeLines -> "medium"
       [] n >= LargeLines /\ n <= maxLines -> "large"
       [] OTHER -> "xlarge"

Nothing ==
  [changes |-> <<>>, excluded |-> <<>>, truncated |-> FALSE, degraded |-> FALSE,
   error |-> FALSE, taken |-> 0, total |-> 0, reviewed |-> 0, skippedLines |-> 0,
   skippedFiles |-> 0, hunksTotal |-> 0, hunksInPrompt |-> 0, skipped |-> <<>>]

\* The file is left out; listed says whether the report mentions it.
Exclude(a, d, reason, listed) ==
  [a EXCEPT !.excluded = Append(@, [path |-> changePath(d), reason |-> reason]),
            !.skippedFiles = @ + 1,
            !.skipped = IF ~listed THEN @
                        ELSE Append(@, [path |-> changePath(d), reason |-> reason,
                                        lines |-> countChangedLines(d)])]

\* Directory reviews are keyed by directory; the nearest ancestor counts.
ReviewForPath(trusted, path) ==
  LET dirs == {n \in 1..(Len(path) - 1) :
                 SubSeq(path, 1, n) \in DOMAIN trusted.directories}
  IN IF dirs = {} THEN trusted.root
     ELSE trusted.directories[SubSeq(path, 1, Max(dirs))]

Include(a, d, got, trusted) ==
  LET rest == countChangedLines(d) - got.lines
      change == [path |-> changePath(d), old |-> d.old, status |-> changeStatus(d),
                 review |-> ReviewForPath(trusted, changePath(d)),
                 hunks |-> got.hunks, truncated |-> got.truncated]
  IN [a EXCEPT !.changes = Append(@, change), !.skippedLines = @ - got.lines,
               !.reviewed = @ + got.lines,
               !.hunksInPrompt = @ + Len(got.hunks),
               !.skipped = IF ~got.truncated \/ rest = 0 THEN @
                           ELSE Append(@, [path |-> changePath(d),
                                           reason |-> "truncated", lines |-> rest])]

\* One round of the loop over the files.
AssembleFile(a, d, settings, policy, trusted) ==
  LET n == countChangedLines(d)
      b == [a EXCEPT !.skippedLines = @ + n, !.total = @ + n,
                     !.hunksTotal = @ + countHunks(d)]
      reason == excludedReason(d, policy)
      got == TakeHunks(d, settings["lines"] - a.taken, settings["after"])
      c == [b EXCEPT !.taken = @ + got.lines, !.truncated = @ \/ got.truncated]
  IN IF a.error \/ changePath(d) = <<>> THEN a
     ELSE IF reason # "" THEN Exclude(b, d, reason, TRUE)
     ELSE IF Len(a.changes) >= settings["files"]
       THEN Exclude([b EXCEPT !.truncated = TRUE, !.degraded = TRUE],
                    d, "scope_limit", TRUE)
     ELSE IF "malformed" \in d.traits THEN [b EXCEPT !.error = TRUE]
     ELSE IF d.hunks = <<>> THEN Exclude(b, d, "no_hunks", FALSE)
     ELSE IF got.hunks # <<>> THEN Include(c, d, got, trusted)
     ELSE IF got.truncated THEN Exclude(c, d, "scope_limit", TRUE)
     ELSE c

hasScopeLimitExclusion(a) ==
  \E i \in DOMAIN a.excluded : a.excluded[i].reason = "scope_limit"

ModeOf(a) ==
  IF a.degraded \/ hasScopeLimitExclusion(a) THEN "degradation"
  ELSE IF a.truncated THEN "truncated" ELSE "full_scope"

Assemble(diffs, settings, policy, trusted) ==
  LET size == classifyPRSize(diffs, settings["lines"])
      ordered == IF size \in {"large", "xlarge"} THEN prioritizeFiles(diffs)
                 ELSE diffs
  IN FoldLeft(LAMBDA a, d : AssembleFile(a, d, settings, policy, trusted),
              Nothing, ordered)
=============================================================================
