CONSTANTS
  Tenants = {t1}
  MaxEvents = 2
  Kinds = {"usr1", "usr2", "term", "request", "error"}
  Configs <- MCConfigs
SPECIFICATION ServerSpec
CHECK_DEADLOCK FALSE
INVARIANTS
  StoreClosedLast
  ServedIsWatched
PROPERTIES
  LifeEnds
