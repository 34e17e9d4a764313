CONSTANTS
  c1 = c1  c2 = c2 c3=c3 i1 = i1  i2 = i2 i3=i3 p1 = p1 p2=p2 None = None
  Lanes = {"backup", "restore"}
  Calls = {c1, c2, c3}
  Ids = {i1, i2, i3}
  IdOf <- MCIdOf
  SourceOf <- MCSourceOf
  Turn <- MCTurn
  Limits = {1, 2}
  Crowd = 2
  MaxEvents = 1
  Room <- MCRoom
SPECIFICATION FairSpec
INVARIANTS SlotsCounted RowsTellTheTruth SafeMaintainSeesWork
PROPERTY WaiterServedUnlessExpired
CHECK_DEADLOCK FALSE
