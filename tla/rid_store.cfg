SPECIFICATION Spec
CONSTANTS
  a = a
  b = b
  p = p
  Leaf = {a, b}
  Coarse = {p}
  Children <- Siblings
  ISAs = {x1}
  Subs = {s1, s2, s3}
  Owners = {u1, u2}
  ISAVolumes <- AreasInTime
  SubVolumes <- SubscribedAreas
  Skew = 1
  MaxDuration = 2
  maxSubscriptionsPerArea = 2
  TTL = 1
  MaxResultLimit = 2
  Backend = "sql"
  MaxNow = 4
  MaxSeq = 5
  None = None
SYMMETRY Symmetry
CHECK_DEADLOCK FALSE
INVARIANTS TypeOK SubscriberIsUpToDate BoundedSubscriptionsPerArea
