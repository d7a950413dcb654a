\* A single execution without failures.
SPECIFICATION Spec
CONSTANTS
  d1 = d1
  Dirs = {d1}
  Kinds <- AllKinds
  Chains = {c1}
  NoChain = NoChain
  DirOf <- OneDir
  Overlap = FALSE
  EngineOutput <- OneUnknown
  MaxClock = 0
  MaxFaults = 0
  MaxLimits = 0
  MaxKills = 0
  MaxDeletes = 0
INVARIANTS
  UnknownChecksAreCounted
