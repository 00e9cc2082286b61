CONSTANTS
  Tags = {node}
  CustomTags = {custom}
  Uids = {u1}
  Flows = {f1, f2}
  Paths = {"link", "direct"}
  MaxBytes = 1
SPECIFICATION FlowsSpec
INVARIANTS
  CountedIsReported
  ActiveCountsHolders
  BytesConserved
SYMMETRY FlowSymmetry
CONSTRAINT OneByte
CHECK_DEADLOCK FALSE
