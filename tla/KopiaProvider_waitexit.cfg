CONSTANTS
  b = b  r = r
  Jobs <- MCJobs
  Backups <- MCBackups
  MaxHandles = 1
  MaxEvents = 1
  MaxTogether = 4
SPECIFICATION Spec
PROPERTY WaitMeansExited
CHECK_DEADLOCK FALSE
