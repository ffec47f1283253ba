SPECIFICATION FairSpec
CONSTANTS
  Handlers = {h1, h2}
  Starts = {0, 1}
  Ends = {1, 3}
  Skew = 1
  maxRetries = 1
  MaxNow = 2
  None = None
SYMMETRY Symmetry
CHECK_DEADLOCK FALSE
INVARIANTS RetryIsTransparent
