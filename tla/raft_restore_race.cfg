\* A snapshot falls due while processCommits is still restoring the previous one.
CONSTANTS
  n1 = n1
  n2 = n2
  n3 = n3
  n4 = n4
  w1 = w1
  w2 = w2
  w3 = w3
  r1 = r1
  NodeID = {n1, n2, n3, n4}
  Peers <- Three
  Server = {n1, n2}
  Writes = {w1}
  Fails = {}
  Reads = {}
  Changes <- NoChanges
  minVoters = 3
  SnapshotInterval = 1
  SnapshotCatchUp = 0
  MaxEmpty = 1
  MaxRestarts = 1
  Empty = Empty
  None = None
SPECIFICATION Spec
INVARIANT
  SnapshotMatchesLog
CHECK_DEADLOCK FALSE
