---------------------------- MODULE MCDeployment ----------------------------
(***************************************************************************)
(* A small instance of Deployment, which starts with an empty table.       *)
(***************************************************************************)
EXTENDS Deployment, TLC

CONSTANTS p1, w1, m1, h1, h2, r1, r2, c1

OneProcess == w1 :> p1
EmptyTable == <<>>

\* Heads are only compared for equality, and requests are alike.
DeploymentSymmetry ==
  {f \in Permutations(Heads \cup Handlers) :
     \A h \in Heads : f[h] \in Heads}
=============================================================================
