CONSTANTS
    p1 = p1  p2 = p2  d1 = d1  d2 = d2
    Ids = {p1, p2}
    Dids = {d1, d2}
    NoDid = NoDid
    Configured = {p1}
    ConfigEntry <- FirstEntry
    Options <- SomeOptions
    Commands = {c1, c2}
    Reusable = {p1}
    Absent = Absent
    MaxVersion = 2
    MaxFaults = 1
SPECIFICATION Spec
INVARIANTS TypeOK RoutedTogether KeyOfOwnDid
PROPERTIES NoKeyReturns RemovedUntilAdded EventuallyUpToDate
CHECK_DEADLOCK FALSE
