----------------------------- MODULE MCScheduler -----------------------------
(***************************************************************************)
(* Small instances of RunScheduler.                                        *)
(***************************************************************************)
EXTENDS RunScheduler, TLC

CONSTANTS p1, p2, w1, w2, m1, m2, h1, h2

\* Two goroutines in two processes or in one, or a single goroutine.
TwoProcesses == w1 :> p1 @@ w2 :> p2
OneProcess == w1 :> p1 @@ w2 :> p1
OneWorker == w1 :> p1

OneRun == <<[mr |-> m1, head |-> h1]>>
TwoRuns == <<[mr |-> m1, head |-> h1], [mr |-> m2, head |-> h2]>>
=============================================================================
