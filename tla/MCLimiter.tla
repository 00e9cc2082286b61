----------------------------- MODULE MCLimiter -----------------------------
(* Instances of Limiter for TLC.                                           *)
EXTENDS Limiter, TLC

\* The limit of a bucket nobody has any more makes no difference.
UsedRates == <<tables, [b \in InUse \ {0} |-> rate[b]], conn, scan, missing>>

\* Two connections meet on the first object; one lives to see the second.
OneSurvives ==
  made > 1 => Cardinality({c \in Conns : conn[c].at # "idle"}) <= 1

Interchangeable == Permutations(Conns) \cup Permutations(Sources)
=============================================================================
