CONSTANTS
  Parts <- MCParts
  Plans <- MCPlans
  Content <- MCContent
  Shape <- MCShape
  MaxTokens = 3
  MaxFaults = 2
SPECIFICATION Spec
CHECK_DEADLOCK FALSE
INVARIANTS
  OkIsWhole
  ResumeIsWritten
  FileIsVersion
PROPERTIES
  UploadEnds
