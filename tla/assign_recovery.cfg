CONSTANTS
    g1 = g1  g2 = g2  g3 = g3
    s1 = s1  s2 = s2  s9 = s9
    own = own  maker = maker  reseller = reseller
    buyer1 = buyer1  buyer2 = buyer2  global = global  cli = cli
    Guids = {g1, g2, g3}
    Serials = {s1, s2, s9}
    Parties <- PartyConst
    RowIds <- ThreeRows
    Own = own
    NoOne = NoOne
    NoFile = NoFile
    Torn = Torn
    Requests = {r1}
    AssignCommands = {a1}
    UnassignCommands = {u1}
    Callers = {buyer1}
    Global = global
    CliOperator = cli
    NewOwners = {buyer1, buyer2}
    GuidOf <- ThreeGuids
    SerialOf <- ThreeSerials
    OwnerOf <- ThreeOwners
    OriginalOf <- ThreeOriginals
    Exclusive = TRUE
    Crashes = TRUE
    Failures = TRUE
SPECIFICATION RecoverySpec
INVARIANTS OriginalRecoverable AssignedIsBacked SettledUnlessDisturbed
PROPERTY ImplementsLedger
