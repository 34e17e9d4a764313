CONSTANTS
  b = b
  r = r
  Jobs <- MCJobs
  Backups <- MCBackups
  MaxHandles = 2
  MaxEvents = 2
  MaxTogether = 5
SPECIFICATION Spec
CHECK_DEADLOCK FALSE
INVARIANTS
  SleepersHaveWaker
  UploadKeepsRepository
  SuccessIsSaved
PROPERTY ProviderServes
