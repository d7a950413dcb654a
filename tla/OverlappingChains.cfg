\* Two executions at the same time and a failure.
SPECIFICATION Spec
CONSTANTS
  d1 = d1
  Dirs = {d1}
  Kinds <- AllKinds
  Chains = {c1, c2}
  NoChain = NoChain
  DirOf <- OneDir
  Overlap = TRUE
  EngineOutput <- OneUnknown
  MaxClock = 0
  MaxFaults = 1
  MaxLimits = 0
  MaxKills = 0
  MaxDeletes = 0
SYMMETRY ChainSymmetry
INVARIANTS
  NamedFilesOfTheirRun
PROPERTIES
  ImplementsContract
