--------------------------- MODULE MCReviewService ---------------------------
(***************************************************************************)
(* Small instances of ReviewService, which starts with an empty table.     *)
(***************************************************************************)
EXTENDS ReviewService, TLC

CONSTANTS p1, p2, w1, w2, m1, h1, h2, h3, o1

OneProcess == w1 :> p1
TwoProcesses == w1 :> p1 @@ w2 :> p2
EmptyTable == <<>>

\* Heads are only compared for equality.  Processes are alike, and so are
\* goroutines: any renaming will do that keeps each one in its process.
HeadSymmetry == Permutations(Heads)
ServiceSymmetry ==
  {f \in Permutations(Heads \cup Workers \cup Processes) :
     /\ \A h \in Heads : f[h] \in Heads
     /\ \A w \in Workers : f[w] \in Workers /\ f[ProcessOf[w]] = ProcessOf[f[w]]}
=============================================================================
