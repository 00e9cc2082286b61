SPECIFICATION RuleSpec
CONSTANTS
  Conns = {c1, c2}
  Uids = {u1}
  RuleLists <- AdsLists
  Dests = {"ad", "web", "dns"}
  Matches <- AdsMatches
CONSTRAINT NotSpanned
SYMMETRY ConnSymmetry
INVARIANTS
  RulesAreCurrent
  QuietCollectionsLoseNothing
