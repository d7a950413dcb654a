\* Two outputs of the engine are compared.
SPECIFICATION Spec
CONSTANTS
  None = None
  Parts <- ComparisonOnly
  DpsYears = 2
  DebtPolicy = TRUE
  GatePolicy = TRUE
  ManyUnknown = 3
  AlarmingUnknown = 2
  Numbers <- SomeNumbers
  SomeChecks = 6
  Identities <- SomeIdentities
  Cash = Cash
  ManyUnknownChecks = 3
  Holdings <- SomeHoldings
  Watched <- SomePriorities
  Audits <- SomeAudits
  RiskFindings <- SomeFindings
  ThesisFiles <- SomeTheses
  Theses <- TestedTheses
  ContextValues <- ValuesInContext
  Within <- SomeWithin
  Runs <- SomeRuns
  CheckOrder <- TwoAxes
  Artifacts <- SomeArtifacts
  Packaged <- SomeComponents
  Capabilities <- SomeCapabilities
  IndexedFiles <- SomeIndexed
  Scopes <- SomeScopes
  Registries <- SomeRegistries
  SourceIds <- SomeSources
  Writers = {"w1", "w2", "w3"}
  DecisionType <- SomeTypes
  MaxTears = 2
  Today = 10
  Window = 5
  DefaultTtl = 5
  Provided <- SomeProvided
  BondExports <- SomeExports
  Snapshots <- SomeSnapshots
  PremiumFiles <- SomePremia
  AverageFiles <- SomeAverages
  Packs <- SomePacks
  Overrides <- SomeOverrides
  Filings <- SomeFilings
  MaxFilings = 3
  Companies <- SomeCompanies
  Drivers <- SomeDrivers
  Scale = 27720
INVARIANTS
  NewUnknownIsReported
