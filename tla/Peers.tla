-------------------------------- MODULE Peers --------------------------------
(***************************************************************************)
(* How a node compares with others (icecc-model/src/lib.rs): the median of  *)
(* the measured rates on its platform, and whether it is well below it.     *)
(*                                                                          *)
(* Nodes are the domain of rate and of platform; a node that has finished   *)
(* too few jobs to measure has NoRate.                                      *)
(***************************************************************************)
EXTENDS Integers, FiniteSets

CONSTANTS
  NoRate,     \* None of Throughput::rate
  Speeds,     \* rates compared in the checks
  Platforms,  \* platforms compared in the checks
  Group       \* nodes compared in the checks

ASSUME PeersAssumption ==
  Speeds \subseteq Nat /\ NoRate \notin Nat /\ IsFiniteSet(Group)

OUTLIER_PEERS == 3   \* measured nodes a verdict takes

\* The nodes that do the same work, of those that are measured.
PeersOf(rate, platform, node) ==
  {n \in DOMAIN rate : platform[n] = platform[node] /\ rate[n] # NoRate}

\* What is at a place of the sorted rates, counted from 0.
Place(rate, P, i) ==
  CHOOSE r \in {rate[n] : n \in P} :
    /\ Cardinality({n \in P : rate[n] < r}) <= i
    /\ i < Cardinality({n \in P : rate[n] <= r})

MedianRateAmongPeers(rate, platform, node) ==
  LET P == PeersOf(rate, platform, node)
  IN IF Cardinality(P) < 2 THEN NoRate ELSE Place(rate, P, Cardinality(P) \div 2)

\* Below SLOW_OUTLIER_FRACTION, a half, of the median.
IsSlowOutlier(rate, platform, node) ==
  LET P == PeersOf(rate, platform, node)
      median == MedianRateAmongPeers(rate, platform, node)
  IN /\ Cardinality(P) >= OUTLIER_PEERS
     /\ rate[node] # NoRate /\ median > 0
     /\ 2 * rate[node] < median

\* Who is called slow is a minority of its platform, or half of it, and each of
\* them has a peer more than twice as fast; nodes that are all alike are their own
\* median and never slow; and nothing that a node of another platform measures
\* changes a verdict.
ComparisonIsFair ==
  \A platform \in [Group -> Platforms], rate \in [Group -> Speeds \cup {NoRate}] :
    LET Slow == {n \in Group : IsSlowOutlier(rate, platform, n)}
    IN \A n \in Group :
         LET peers == PeersOf(rate, platform, n)
         IN /\ 2 * Cardinality(Slow \cap peers) <= Cardinality(peers)
            /\ n \in Slow => \E m \in peers : rate[m] > 2 * rate[n]
            /\ Cardinality(peers) >= 2 /\ (\A m \in peers : rate[m] = rate[n]) =>
                 n \notin Slow /\ MedianRateAmongPeers(rate, platform, n) = rate[n]
            /\ \A m \in {k \in Group : platform[k] # platform[n]}, r \in Speeds :
                 n \in Slow <=> IsSlowOutlier([rate EXCEPT ![m] = r], platform, n)

=============================================================================
