\* Two executions one after the other: failing steps, a kill, a clock that may not advance.
SPECIFICATION Spec
CONSTANTS
  d1 = d1
  Dirs = {d1}
  Kinds <- AllKinds
  Chains = {c1, c2}
  NoChain = NoChain
  DirOf <- OneDir
  Overlap = FALSE
  EngineOutput <- OneUnknown
  MaxClock = 1
  MaxFaults = 2
  MaxLimits = 0
  MaxKills = 1
  MaxDeletes = 0
SYMMETRY ChainSymmetry
INVARIANTS
  MemoOfOneRun
