CONSTANTS
  Tags = {t1, t2}
  CustomTags = {}
  Uids = {u1}
  Vers = {v1}
  Flows = {f1}
  Paths = {"direct"}
  MaxBytes = 1
  DisableUploadTraffic = TRUE
SPECIFICATION Spec
SYMMETRY TagSymmetry
CONSTRAINT OneByteMoving
INVARIANTS
  BillIsExact
  EveryCounterIsReported
CHECK_DEADLOCK FALSE
