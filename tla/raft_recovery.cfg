\* A node joins and leaves, a server crashes, snapshots are taken and received.
CONSTANTS
  n1 = n1
  n2 = n2
  n3 = n3
  n4 = n4
  w1 = w1
  w2 = w2
  w3 = w3
  r1 = r1
  NodeID = {n1, n2, n3, n4}
  Peers <- Three
  Server = {n1, n2}
  Writes = {w1}
  Fails = {}
  Reads = {}
  Changes <- JoinAndLeave
  minVoters = 3
  SnapshotInterval = 2
  SnapshotCatchUp = 0
  MaxEmpty = 0
  MaxRestarts = 1
  Empty = Empty
  None = None
SPECIFICATION Spec
SYMMETRY Symmetry
INVARIANTS TypeOK ReplicaMatchesLog SnapshotMatchesLog RecoveryHasNoGap VotersFollowMembers
CHECK_DEADLOCK FALSE
