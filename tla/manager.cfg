CONSTANTS
    g1 = g1
    s1 = s1
    own = own    reseller = reseller
    buyer1 = buyer1  buyer2 = buyer2  global = global  cli = cli
    Guids = {g1}
    Serials = {s1}
    Parties <- PartyConst
    RowIds <- TwoRows
    Own = own
    NoOne = NoOne
    NoFile = NoFile
    Torn = Torn
    Requests = {r1}
    AssignCommands = {}
    UnassignCommands = {u1}
    Callers = {}
    Global = global
    CliOperator = cli
    NewOwners = {buyer1, buyer2}
    GuidOf <- OneGuid
    SerialOf <- OneSerial
    OwnerOf <- OneOwner
    OriginalOf <- OneOriginal
    Worker = worker
    Retriers = {retry1}
    DeleteAfterSuccess = TRUE
    Exclusive = TRUE
    Crashes = FALSE
    Failures = FALSE
SPECIFICATION TwiceUploadedSpec
SYMMETRY Buyers
INVARIANTS
    ManagerTypeOK
    SentIsGenuine
    
    
    
PROPERTY GotIsTheirs
