\* Under fair scheduling, what is committed is applied and answered, and reads are served.
CONSTANTS
  n1 = n1
  n2 = n2
  n3 = n3
  n4 = n4
  w1 = w1
  w2 = w2
  w3 = w3
  r1 = r1
  NodeID = {n1, n2, n3, n4}
  Peers <- Three
  Server = {n1, n2}
  Writes = {w1}
  Fails = {w1}
  Reads = {r1}
  Changes <- NoChanges
  minVoters = 3
  SnapshotInterval = 1
  SnapshotCatchUp = 0
  MaxEmpty = 0
  MaxRestarts = 1
  Empty = Empty
  None = None
SPECIFICATION FairSpec
PROPERTIES
  CommittedIsApplied
  ReadsAreAnswered
  WritesAreAnswered
CHECK_DEADLOCK FALSE
