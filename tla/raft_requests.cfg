\* Reads and writes, one of which fails, on servers that take a snapshot at every batch.
CONSTANTS
  n1 = n1
  n2 = n2
  n3 = n3
  n4 = n4
  w1 = w1
  w2 = w2
  w3 = w3
  r1 = r1
  NodeID = {n1, n2, n3, n4}
  Peers <- Three
  Server = {n1, n2}
  Writes = {w1, w2}
  Fails = {w2}
  Reads = {r1}
  Changes <- NoChanges
  minVoters = 3
  SnapshotInterval = 1
  SnapshotCatchUp = 0
  MaxEmpty = 0
  MaxRestarts = 0
  Empty = Empty
  None = None
SPECIFICATION Spec
SYMMETRY Symmetry
INVARIANT
  LinearizableReads
PROPERTY
  ImplementsStore
CHECK_DEADLOCK FALSE
