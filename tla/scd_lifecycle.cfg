SPECIFICATION Spec
CONSTANTS
  a = a
  b = b
  p = p
  Leaf = {a, b}
  Coarse = {}
  Children <- NoChildren
  OIRs = {o1, o2}
  Subs = {s1, s2}
  Constraints = {}
  Managers = {m1, m2}
  OIRVolumes <- LifecycleVolumes
  SubVolumes <- LifecycleSubVolumes
  States = {"Accepted", "Activated", "Nonconforming"}
  Availabilities = {"Normal", "Down"}
  Suffixes = {}
  SuffixTime <- NoSuffixTime
  Skew = 1
  MaxDuration = 2
  TTL = 1
  MaxResultLimit = 2
  Backend = "mem"
  MaxNow = 1
  MaxSeq = 4
  None = None
SYMMETRY ConflictSymmetry
CHECK_DEADLOCK FALSE
INVARIANTS TypeOK LaterWriterIsAware AttachedSubscriptionExists AttachedSubscriptionCovers ImplicitSubscriptionInUse
PROPERTIES EverySubscriberNotified IndexNeverDecreases
