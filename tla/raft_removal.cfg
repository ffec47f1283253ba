\* Two removals of which the group can afford one, one of them of a running server.
CONSTANTS
  n1 = n1
  n2 = n2
  n3 = n3
  n4 = n4
  w1 = w1
  w2 = w2
  w3 = w3
  r1 = r1
  NodeID = {n1, n2, n3, n4}
  Peers <- Four
  Server = {n1, n2}
  Writes = {}
  Fails = {}
  Reads = {}
  Changes <- LeaveTwice
  minVoters = 3
  SnapshotInterval = 4
  SnapshotCatchUp = 0
  MaxEmpty = 1
  MaxRestarts = 1
  Empty = Empty
  None = None
SPECIFICATION FairSpec
INVARIANTS
  ReplicaMatchesLog
PROPERTIES
  RemovedServerStops
CHECK_DEADLOCK FALSE
