---------------------------- MODULE MCUserFlows ----------------------------
EXTENDS UserFlows, TLC

FlowSymmetry == Permutations(Flows)

\* The flows carry a single byte between them.
OneByte ==
  \A k, l \in Counters : counted[k] > 0 /\ counted[l] > 0 => k = l
=============================================================================
