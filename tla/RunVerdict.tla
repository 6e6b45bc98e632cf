----------------------------- MODULE RunVerdict -----------------------------
(***************************************************************************)
(* How a review's result becomes the status of its run, and how the gate   *)
(* ranks severities.                                                       *)
(***************************************************************************)
EXTENDS Integers

\* internal/llm/processor.go
canonicalRunStatus(modelStatus, active) ==
  IF modelStatus = "parser_error" THEN "parser_error"
  ELSE IF active # {} THEN "requested_changes" ELSE "completed"

\* severityRank of internal/gate/service.go
gateSeverityRank(s) ==
  CASE s = "critical" -> 4 [] s = "high" -> 3 [] s = "medium" -> 2
    [] s = "low" -> 1 [] OTHER -> 0
=============================================================================
