CONSTANTS
    Guids = {g1}
    Uploads = {u1, u2}
    OwnerKeys = {k1}
    NextOwner = next
    SignoverMode = "static"
    OneAtATime = {g1}
    Failures = FALSE
    Crashes = FALSE
    NoInode = NoInode
    Partial = Partial
SPECIFICATION Spec
INVARIANT StoredInDatabase
CHECK_DEADLOCK FALSE
