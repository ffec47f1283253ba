SPECIFICATION Spec
CONSTANTS
  a = a
  b = b
  p = p
  Leaf = {a, b}
  Coarse = {}
  Children <- NoChildren
  OIRs = {o1}
  Subs = {s1, s2}
  Constraints = {c1}
  Managers = {m1}
  OIRVolumes <- EvictionVolumes
  SubVolumes <- EvictionSubVolumes
  States = {"Accepted", "Activated"}
  Availabilities = {}
  Suffixes = {x}
  SuffixTime <- EarlySuffixTime
  Skew = 1
  MaxDuration = 2
  TTL = 1
  MaxResultLimit = 2
  Backend = "sql"
  MaxNow = 3
  MaxSeq = 4
  None = None
SYMMETRY Symmetry
CHECK_DEADLOCK FALSE
INVARIANTS AttachedSubscriptionExists ConstraintProcessorIsAware OVNComesBackSoon
PROPERTIES EvictionSparesLiveOIRs
