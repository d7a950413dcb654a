\* Two executions one after the other: verdicts, a failing step, a deleted file.  Fair.
SPECIFICATION FairSpec
CONSTANTS
  d1 = d1
  Dirs = {d1}
  Kinds <- AllKinds
  Chains = {c1, c2}
  NoChain = NoChain
  DirOf <- OneDir
  Overlap = FALSE
  EngineOutput <- OneUnknown
  MaxClock = 0
  MaxFaults = 1
  MaxLimits = 1
  MaxKills = 0
  MaxDeletes = 1
INVARIANTS
  StepsAreIsolated
  ChainInv
PROPERTIES
  ChainsEnd
CHECK_DEADLOCK FALSE
