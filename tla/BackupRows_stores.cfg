CONSTANTS
  c1 = c1  c2 = c2  r1 = r1  r2 = r2  b1 = b1  x1 = x1  d1 = d1  d2 = d2  None = None
  Backs = {c1, c2}
  Rests = {r1, r2}
  Backups = {b1}
  Restores = {x1}
  Deletes = {d1, d2}
  KeyOf <- MCKeyOf
  SourceOf <- MCSourceOf
  Deleted <- MCDeleted
  MaxCalls = 3
  MaxEvents = 1
SPECIFICATION FairSpec
INVARIANTS SuccessHasSnapshot LeakHasCause
PROPERTIES DeletedStaysDeleted RowsSettle
CHECK_DEADLOCK FALSE
