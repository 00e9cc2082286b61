SPECIFICATION SyncSpec
CONSTANTS
  None = None
  Nodes <- TwoTags
  UserLists <- Lists
  Kinds = {"v2board", "v2boardSS", "newV2board", "plain", "sspanelSS"}
  MaxChanges = 2
  MaxFails = 1
  MaxFaults = 1
CONSTRAINT OneFailure
INVARIANTS
  
  ServedAreLimited
  AtMostOneInbound
PROPERTY FollowsPanel
