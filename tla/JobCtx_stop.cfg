CONSTANTS
  c1 = c1  c2 = c2  k1 = k1  id1 = id1  s1 = s1  s2 = s2  NoJob = NoJob
  Callers = {c1, c2}
  JobIds = {id1}
  IdOf <- MCOneKey
  Cancellers = {k1}
  TargetOf <- MCTarget
  Stoppers = {s1, s2}
  Together <- MCTogether
SPECIFICATION FairSpec
INVARIANTS RunningIsRegistered FalseSuccessHasCause CrashNeedsDoneContext
PROPERTY EverythingEnds
CHECK_DEADLOCK FALSE
