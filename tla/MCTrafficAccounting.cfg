CONSTANTS
  Tags = {t1}
  CustomTags = {}
  Uids = {u1}
  Vers = {v1}
  Flows = {f1}
  Paths = {"direct"}
  MaxBytes = 1
  DisableUploadTraffic = FALSE
SPECIFICATION FairSpec
INVARIANTS
  DeltasAreRestorable
  BillIsExact
  EveryCounterIsReported
PROPERTIES
  RegistryIsUsedWell
  EventuallySettled
CONSTRAINT OneByteListed
CHECK_DEADLOCK FALSE
