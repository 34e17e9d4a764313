CONSTANTS
  u1 = u1  u2 = u2  w1 = w1  w2 = w2  NoJob = NoJob
  Usages = {u1, u2}
  TypeOf <- MCTypeOf
  Workers = {w1, w2}
  MaxJobs = 3
  MaxReboots = 2
SPECIFICATION FairSpec
INVARIANT NothingDropped
PROPERTIES RowsGoWhenDelivered RowsDelivered CloseReturns
CHECK_DEADLOCK FALSE
