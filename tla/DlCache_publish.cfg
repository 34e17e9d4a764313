CONSTANTS
  d1 = d1  d2 = d2  d3 = d3  d4 = d4  d5 = d5  p1 = p1  p2 = p2  c1 = c1  c2 = c2
  Paths = {p1, p2}
  Downloads <- MCDownloads
  PathOf <- MCPathOf
  SizeOf <- MCSizeOf
  DlLimit <- MCDlLimit
  Closers = {c1, c2}
SPECIFICATION FairSpec
INVARIANTS ExactlyOnce DrainedOnClose
PROPERTIES EventuallyBilled CloseEnds
CHECK_DEADLOCK FALSE
