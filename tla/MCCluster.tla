------------------------------ MODULE MCCluster ------------------------------
(***************************************************************************)
(* Cluster for TLC: any remote, over behaviours of at most MaxSteps        *)
(* updates and ticks.                                                      *)
(***************************************************************************)
EXTENDS Cluster, TLC

CONSTANT MaxSteps

VARIABLE steps
mcVars == <<vars, steps>>

Symmetry == Permutations(Hosts) \cup Permutations(JobIds)

Bounded(A) == steps < MaxSteps /\ A /\ steps' = steps + 1

MCInit == Init /\ steps = 0
MCSpec == MCInit /\ [][Bounded(Next)]_mcVars
=============================================================================
