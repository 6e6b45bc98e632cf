---------------------------- MODULE ManualTrigger ----------------------------
(***************************************************************************)
(* internal/manualtrigger/service.go and cmd/manual-trigger: a command     *)
(* that creates a run for a merge request, waits until it has ended and,   *)
(* should the run still be pending, processes it itself.  It claims        *)
(* nothing, so a worker may process the same run.                          *)
(*                                                                         *)
(* The processor is reviewrun.EngineProcessor: it writes the final status, *)
(* whatever the row says by then, and then the comments.                   *)
(***************************************************************************)
EXTENDS RunIntake

CONSTANT Commands     \* invocations of the command, each made once

VARIABLE command      \* where each one is and what it knows

ManualInit == command = [c \in Commands |-> [pc |-> "start", result |-> ""]]

SetCommand(c, new) == command' = [command EXCEPT ![c] = new]

CommandAt(c, pc) ==
  /\ command[c].pc = pc
  /\ UNCHANGED <<forge, wire, duplicates>>

isTerminalStatus(status) ==
  status \in {"completed", "requested_changes", "failed", "cancelled",
              "parser_error"}

\* The exit code of cmd/manual-trigger is 0.
runSucceeded(status) == status \in {"completed", "parser_error"}

\* What the forge says now is used by the transaction later.  A command is
\* one of the MaxMoves things that users do.
GetMergeRequest(c, m) ==
  /\ CommandAt(c, "start")
  /\ moves < MaxMoves /\ moves' = moves + 1
  /\ forge[m].state # "none"
  /\ SetCommand(c, [pc |-> "trigger", mr |-> m, run |-> 0, processed |-> FALSE,
                    seen |-> [state |-> forge[m].state, head |-> forge[m].head],
                    result |-> ""])
  /\ UNCHANGED <<runs, lastId, mrs>>

\* The key has the time in it, so it is new.
ManualKey(m, head) ==
  [trigger |-> "manual", mr |-> m, head |-> head, nonce |-> lastId + 1]

\* Mutant of Trigger: the event is handled like an open.
TriggerLikeOpen(c) ==
  LET m == command[c].mr
      head == command[c].seen.head
      key == ManualKey(m, head)
  IN /\ CommandAt(c, "trigger")
     /\ UpsertMergeRequest(m, command[c].seen)
     /\ lastId' = lastId + 1
     /\ runs' = Inserted(runs, lastId, InsertReviewRun(m, head, key))
     /\ SetCommand(c, [command[c] EXCEPT !.pc = "wait", !.run = lastId + 1])
     /\ UNCHANGED moves

\* The run is handled like one that an update brings about.
Trigger(c) ==
  LET m == command[c].mr
      head == command[c].seen.head
      key == ManualKey(m, head)
  IN /\ CommandAt(c, "trigger")
     /\ UpsertMergeRequest(m, command[c].seen)
     /\ lastId' = lastId + 1
     /\ runs' = Inserted(
          [i \in DOMAIN runs |-> SupersedeActiveRunsForMR(runs[i], m, lastId + 1)],
          lastId, InsertReviewRun(m, head, key))
     /\ SetCommand(c, [command[c] EXCEPT !.pc = "wait", !.run = lastId + 1])
     /\ UNCHANGED moves

\* One round of the loop that has something to do.
WaitForTerminalRun(c) ==
  LET status == runs[command[c].run].status IN
  /\ CommandAt(c, "wait")
  /\ \/ /\ isTerminalStatus(status)
        /\ SetCommand(c, [command[c] EXCEPT !.pc = "done", !.result = status])
     \/ /\ status = "pending" /\ ~command[c].processed
        /\ SetCommand(c, [command[c] EXCEPT !.pc = "process", !.processed = TRUE])
  /\ UNCHANGED <<runs, lastId, mrs, moves>>

SetStatus(c, status, code) ==
  LET i == command[c].run
  IN runs' = [runs EXCEPT ![i] = UpdateReviewRunStatus(@, status, code)]

\* Mutant of ProcessRun: the result is reported as it was computed, and the
\* row is left to the scheduler.
ProcessRunUnwritten(c) ==
  /\ CommandAt(c, "process")
  /\ \/ SetCommand(c, [command[c] EXCEPT !.pc = "done", !.result = "completed"])
     \/ SetCommand(c, [command[c] EXCEPT !.pc = "failed"])
  /\ UNCHANGED <<runs, lastId, mrs, moves>>

ProcessRun(c) ==
  /\ CommandAt(c, "process")
  /\ \/ /\ \E final \in {"completed", "requested_changes", "parser_error"} :
             SetStatus(c, final, "")
        /\ SetCommand(c, [command[c] EXCEPT !.pc = "writeback"])
     \/ /\ SetCommand(c, [command[c] EXCEPT !.pc = "failed"])
        /\ UNCHANGED runs
  /\ UNCHANGED <<lastId, mrs, moves>>

WriteBack(c) ==
  /\ CommandAt(c, "writeback")
  /\ \E next \in {"wait", "failed"} :
       SetCommand(c, [command[c] EXCEPT !.pc = next])
  /\ UNCHANGED <<runs, lastId, mrs, moves>>

\* The error of ProcessRun is written over whatever the row says.
processPendingRun(c) ==
  /\ CommandAt(c, "failed")
  /\ SetStatus(c, "failed", "run_failed")
  /\ SetCommand(c, [command[c] EXCEPT !.pc = "wait"])
  /\ UNCHANGED <<lastId, mrs, moves>>

\* Interrupted, out of time, or an error of the database or the forge.
CommandStops(c) ==
  /\ \E pc \in {"trigger", "wait", "process", "writeback", "failed"} : CommandAt(c, pc)
  /\ SetCommand(c, [command[c] EXCEPT !.pc = "done"])
  /\ UNCHANGED <<runs, lastId, mrs, moves>>

CommandStep(c) ==
  \/ Trigger(c)
  \/ WaitForTerminalRun(c)
  \/ ProcessRun(c)
  \/ WriteBack(c)
  \/ processPendingRun(c)
  \/ CommandStops(c)
=============================================================================
