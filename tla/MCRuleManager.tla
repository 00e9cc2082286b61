--------------------------- MODULE MCRuleManager ---------------------------
(* Instances of RuleManager for TLC: three rules a user can hit one after  *)
(* the other, the same ids with another pattern, and a local rule that     *)
(* shadows one of them.                                                    *)
EXTENDS RuleManager, TLC

Rule(i, p) == [id |-> i, pattern |-> p]
AdsLists == {<<Rule(0, "ads"), Rule(1, "webs"), Rule(2, "all")>>,
             <<Rule(0, "webs"), Rule(1, "webs"), Rule(2, "all")>>,
             <<Rule(LocalId, "ads"), Rule(1, "webs"), Rule(2, "all")>>}
AdsMatches == [ads |-> {"ad"}, webs |-> {"web"}, all |-> {"ad", "web", "dns"}]

\* Nothing is claimed of the hits after a collection fell within a Detect.
NotSpanned == ~spanned

ConnSymmetry == Permutations(Conns)
=============================================================================
