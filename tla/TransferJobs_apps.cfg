CONSTANTS
  Budgets <- MCBudgets
  Activators = {h1}
  Deactivators = {h2}
SPECIFICATION AppsSpec
CHECK_DEADLOCK FALSE
INVARIANTS
  
  StopWaitsOrCancels
PROPERTY TransfersEnd
