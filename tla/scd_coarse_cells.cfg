SPECIFICATION Spec
CONSTANTS
  a = a
  b = b
  p = p
  Leaf = {a, b}
  Coarse = {p}
  Children <- Siblings
  OIRs = {o1}
  Subs = {s1, s2}
  Constraints = {}
  Managers = {m1}
  OIRVolumes <- AreaVolumes
  SubVolumes <- NoSubVolumes
  States = {"Accepted", "Activated"}
  Availabilities = {}
  Suffixes = {}
  SuffixTime <- NoSuffixTime
  Skew = 1
  MaxDuration = 2
  TTL = 1
  MaxResultLimit = 2
  Backend = "mem"
  MaxNow = 0
  MaxSeq = 3
  None = None
SYMMETRY Symmetry
CHECK_DEADLOCK FALSE
PROPERTIES EverySubscriberNotified
