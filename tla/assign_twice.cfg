CONSTANTS
    g1 = g1  g2 = g2  g3 = g3
    s1 = s1  s2 = s2  s9 = s9
    own = own  maker = maker  reseller = reseller
    buyer1 = buyer1  buyer2 = buyer2  global = global  cli = cli
    Guids = {g1}
    Serials = {s1}
    Parties <- PartyConst
    RowIds <- OneRow
    Own = own
    NoOne = NoOne
    NoFile = NoFile
    Torn = Torn
    Requests = {r1}
    AssignCommands = {a1}
    UnassignCommands = {}
    Callers = {reseller}
    Global = global
    CliOperator = cli
    NewOwners = {buyer1, buyer2}
    GuidOf <- OneGuid
    SerialOf <- OneSerial
    OwnerOf <- OneOwner
    OriginalOf <- OneOriginal
    Exclusive = FALSE
    Crashes = FALSE
    Failures = FALSE
SPECIFICATION Spec
PROPERTY AtMostOnceAssigned
