CONSTANTS
  s1 = s1  s2 = s2  None = None
  Schedulers = {s1, s2}
  MaxChores = 3
  MaxChoreEvents = 2
SPECIFICATION ChoreSpec
INVARIANTS RunningChoreIsWorkedOn FinishedIsRestored
CHECK_DEADLOCK FALSE
