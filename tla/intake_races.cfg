CONSTANTS
    u1 = u1  u2 = u2  u3 = u3
    k1 = k1  k2 = k2
    Guids = {g1, g2}
    Uploads = {u1, u2, u3}
    OwnerKeys = {k1, k2}
    NextOwner = next
    SignoverMode = "dynamic"
    OneAtATime = {g2}
    Failures = TRUE
    Crashes = TRUE
    NoInode = NoInode
    Partial = Partial
SPECIFICATION ProcessingSpec
INVARIANTS TypeOK RowHasFile StoredWhole RowNamesOwner AcceptedOnce RetransmissionsConverge
PROPERTY AcceptedGetsRow
CHECK_DEADLOCK FALSE
