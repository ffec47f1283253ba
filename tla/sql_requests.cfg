SPECIFICATION FairSpec
CONSTANTS
  Handlers = {h1, h2}
  Starts = {0}
  Ends = {1, 3}
  Skew = 1
  maxRetries = 1
  MaxNow = 1
  None = None
CHECK_DEADLOCK FALSE
INVARIANTS TypeOK
PROPERTIES ChangesAreFenced RetriedAsAsked RequestsAreAnswered
