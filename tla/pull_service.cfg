SPECIFICATION ScenarioSpec
CONSTANTS
  imported = imported
  k1 = k1
  k2 = k2
  c1 = c1
  other = other
  g1 = g1
  g2 = g2
  Keys <- KeysConst
  Imported = imported
  NoKey = NoKey
  NoKeyFile = NoKeyFile
  TornKeyFile = TornKeyFile
  Guids = {g1, g2}
  Customers = {c1}
  Others = {other}
  PageSizes = {1}
  MaxRows = 2
  Untils <- SomeUntils
  Failures = TRUE
INVARIANTS
  TypeOK
  OneIdentity
  CliSignsAsServer
  LastPageIsComplete
  AccessViewsAgree
  NothingMissedUndisturbed
PROPERTIES
  IncrementalPullsAddUp
  PullEndsIfItFits
CHECK_DEADLOCK FALSE
