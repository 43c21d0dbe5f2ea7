--------------------------- MODULE VoucherAssignment ---------------------------
(***************************************************************************)
(* Assigning a stored voucher to a customer, and reverting it.             *)
(*                                                                         *)
(* Three kinds of actors work on the shared database and voucher directory *)
(* without any lock: requests of POST /assign (goroutines of the server,   *)
(* voucher_assign_handler.go), `vouchers assign` commands and `vouchers    *)
(* unassign` commands (processes of their own, voucher_assign_cli.go).     *)
(* Each performs a sequence of SQL statements and file operations; every   *)
(* one of them is a step here, so that all interleavings, and a crash or   *)
(* an error at every point, are behaviours of the model.  os.WriteFile is  *)
(* two steps, the truncation and the write, because a reader can see the   *)
(* file in between and a crash can leave it so.                            *)
(*                                                                         *)
(* A request for several serials runs the same steps once per serial and   *)
(* carries no state from one to the next: it is a sequence of operations.  *)
(***************************************************************************)
EXTENDS VoucherStore

CONSTANTS
    Requests,          \* slots for POST /assign requests in progress
    AssignCommands,    \* slots for `vouchers assign` processes
    UnassignCommands,  \* slots for `vouchers unassign` processes
    Callers,           \* identities that POST /assign requests authenticate as
    Global,            \* the identity of the global config token (admin)
    CliOperator,       \* the synthetic identity of the CLI
    NewOwners,         \* fingerprints of the customers' keys
    GuidOf, SerialOf, OwnerOf,  \* the columns of the initial rows
    OriginalOf,        \* the voucher of each GUID as it was received
    Exclusive,         \* TRUE: the operators run one operation at a time
    Crashes,           \* TRUE: processes may be killed at any point
    Failures           \* TRUE: a statement or a file operation may return an error

ASSUME AssignmentAssumption ==
    /\ Callers \subseteq Parties /\ NewOwners \subseteq Parties
    /\ Global \in Parties /\ CliOperator \in Parties
    /\ GuidOf \in [RowIds -> Guids]
    /\ SerialOf \in [RowIds -> Serials]
    /\ OwnerOf \in [RowIds -> Parties \cup {NoOne}]
    /\ OriginalOf \in [Guids -> {<<key>> : key \in Parties}]
    /\ Exclusive \in BOOLEAN /\ Crashes \in BOOLEAN /\ Failures \in BOOLEAN
    /\ Requests \cap AssignCommands = {}
    /\ UnassignCommands \cap (Requests \cup AssignCommands) = {}

Commands == AssignCommands \cup UnassignCommands
Assigners == Requests \cup AssignCommands
Clients == Requests \cup Commands

VARIABLES
    rows,      \* voucher_transmissions
    grants,    \* voucher_access_grants
    files,     \* <directory>/<guid>.fdoov
    backups,   \* <directory>/<guid>.fdoov.preassign
    ops,       \* the local state of every client's operation
    saved      \* history: the customers each voucher was ever saved for

vars == <<rows, grants, files, backups, ops, saved>>

-------------------------------------------------------------------------------
(***************************************************************************)
(* Local state of an operation.                                            *)
(***************************************************************************)
AssignSteps == {"access", "parse", "backup_read", "backup_open", "backup_write",
                "save_open", "save_write", "mark", "custodian", "owner_key"}
UnassignSteps == {"unmark", "restore_read", "restore_open", "restore_write",
                  "remove_backup", "revoke"}
Steps == {"idle", "lookup", "fetch"} \cup AssignSteps \cup UnassignSteps

NoRow == [guid |-> NoOne]

Ops == [pc: Steps,
        wanted: Guids \cup {NoOne},       \* the -guid argument
        serial: Serials \cup {NoOne},     \* the serial being processed
        caller: Parties \cup {NoOne},
        newOwner: Parties \cup {NoOne},
        id: RowIds \cup {NoOne},
        rec: Rows \cup {NoRow},           \* the row as FetchBySerial returned it
        voucher: Chains \cup {NoFile},    \* the extended voucher, in memory
        data: FileContents]               \* bytes read for a backup or a restore

NoOp == [pc |-> "idle", wanted |-> NoOne, serial |-> NoOne, caller |-> NoOne,
         newOwner |-> NoOne, id |-> NoOne, rec |-> NoRow,
         voucher |-> NoFile, data |-> NoFile]

At(client, step) == ops[client].pc = step
Goto(client, step) == ops' = [ops EXCEPT ![client].pc = step]
Finish(client) == ops' = [ops EXCEPT ![client] = NoOp]
Guid(client) == ops[client].rec.guid

Quiescent == \A client \in Clients : At(client, "idle")

TypeOK ==
    /\ rows \in [RowIds -> Rows]
    /\ grants \in [Guids -> SUBSET Grants]
    /\ files \in [Guids -> FileContents]
    /\ backups \in [Guids -> FileContents]
    /\ ops \in [Clients -> Ops]
    /\ saved \in [Guids -> SUBSET Parties]

Init ==
    /\ \E column \in [RowIds -> {<<"pending", FALSE>>}
                                 \cup ({"pending", "failed", "succeeded"} \X {TRUE})] :
          rows = [id \in RowIds |->
                    [guid |-> GuidOf[id], serial |-> SerialOf[id], owner |-> OwnerOf[id],
                     status |-> column[id][1], hasDestination |-> column[id][2],
                     assignedTo |-> NoOne, assignedBy |-> NoOne]]
    /\ grants = [guid \in Guids |-> {}]
    /\ files = OriginalOf
    /\ backups = [guid \in Guids |-> NoFile]
    /\ ops = [client \in Clients |-> NoOp]
    /\ saved = [guid \in Guids |-> {}]

-------------------------------------------------------------------------------
(***************************************************************************)
(* An operation begins: the arguments of the request or the command.       *)
(***************************************************************************)
MayStart(client) == At(client, "idle") /\ (Exclusive => Quiescent)

\* Mutant of StartRequest: an unresolved new owner key is not an error.
StartUnresolved(request) ==
    /\ MayStart(request)
    /\ \E serial \in Serials, caller \in Callers \cup {Global} :
          ops' = [ops EXCEPT ![request] = [NoOp EXCEPT
                    !.pc = "fetch", !.serial = serial, !.caller = caller]]
    /\ UNCHANGED <<rows, grants, files, backups, saved>>

StartRequest(request) ==
    /\ MayStart(request)
    /\ \E serial \in Serials, caller \in Callers \cup {Global}, key \in NewOwners :
          ops' = [ops EXCEPT ![request] = [NoOp EXCEPT
                    !.pc = "fetch", !.serial = serial,
                    !.caller = caller, !.newOwner = key]]
    /\ UNCHANGED <<rows, grants, files, backups, saved>>

StartBySerial(command) ==
    /\ MayStart(command)
    /\ \E serial \in Serials, key \in NewOwners :
          ops' = [ops EXCEPT ![command] = [NoOp EXCEPT
                    !.pc = "fetch", !.serial = serial, !.caller = CliOperator,
                    !.newOwner = IF command \in AssignCommands THEN key ELSE NoOne]]
    /\ UNCHANGED <<rows, grants, files, backups, saved>>

StartByGuid(command) ==
    /\ MayStart(command)
    /\ \E guid \in Guids, key \in NewOwners :
          ops' = [ops EXCEPT ![command] = [NoOp EXCEPT
                    !.pc = "lookup", !.wanted = guid, !.caller = CliOperator,
                    !.newOwner = IF command \in AssignCommands THEN key ELSE NoOne]]
    /\ UNCHANGED <<rows, grants, files, backups, saved>>

-------------------------------------------------------------------------------
(***************************************************************************)
(* Finding the row and the checks on it.                                   *)
(***************************************************************************)

\* -guid is only used to find the serial number that is then processed.
Lookup(command) ==
    /\ At(command, "lookup")
    /\ \/ \E id \in RowIds :
             /\ NewestByGuid(rows, ops[command].wanted, id)
             /\ ops' = [ops EXCEPT ![command].pc = "fetch",
                                   ![command].serial = rows[id].serial]
       \/ /\ ~ \E id \in RowIds : NewestByGuid(rows, ops[command].wanted, id)
          /\ Finish(command)
    /\ UNCHANGED <<rows, grants, files, backups, saved>>

Assignable(rec) == rec.status \notin {"assigned", "succeeded"}

\* Callers other than the admin and the CLI must have access to the voucher.
NeedsAccess(client) == client \in Requests /\ ops[client].caller # Global

\* What follows FetchBySerial without touching the shared state.
AfterFetch(client, rec) ==
    CASE client \in UnassignCommands ->
            IF rec.status = "assigned" THEN "unmark" ELSE "idle"
      [] NeedsAccess(client) -> "access"
      [] OTHER -> IF Assignable(rec) THEN "parse" ELSE "idle"

Fetch(client) ==
    /\ At(client, "fetch")
    /\ \/ \E id \in RowIds :
             /\ NewestBySerial(rows, ops[client].serial, id)
             /\ AfterFetch(client, rows[id]) # "idle"
             /\ ops' = [ops EXCEPT ![client].pc = AfterFetch(client, rows[id]),
                                   ![client].id = id,
                                   ![client].rec = rows[id]]
       \/ /\ \A id \in RowIds : NewestBySerial(rows, ops[client].serial, id) =>
                                AfterFetch(client, rows[id]) = "idle"
          /\ Finish(client)
    /\ UNCHANGED <<rows, grants, files, backups, saved>>

\* Mutant of CheckAccess: only the status is checked.
CheckStatusOnly(request) ==
    /\ At(request, "access")
    /\ IF Assignable(ops[request].rec)
         THEN Goto(request, "parse")
         ELSE Finish(request)
    /\ UNCHANGED <<rows, grants, files, backups, saved>>

CheckAccess(request) ==
    /\ At(request, "access")
    /\ IF /\ \/ HasAccessByGUID(rows, grants, Guid(request), ops[request].caller)
             \/ ops[request].rec.owner = ops[request].caller
          /\ Assignable(ops[request].rec)
         THEN Goto(request, "parse")
         ELSE Finish(request)
    /\ UNCHANGED <<rows, grants, files, backups, saved>>

-------------------------------------------------------------------------------
(***************************************************************************)
(* The rest of assignVoucher and assignVoucherCLI.                         *)
(***************************************************************************)

\* Mutant of ParseAndExtend: the customer's grant is inserted before anything is saved.
ParseAndGrant(client) ==
    LET file == files[Guid(client)] IN
    /\ At(client, "parse")
    /\ IF Parses(file) /\ CanExtend(file)
         THEN /\ ops' = [ops EXCEPT ![client].pc = "backup_read",
                           ![client].voucher = ExtendVoucher(file, ops[client].newOwner)]
              /\ grants' = InsertAccessGrant(grants, Guid(client), ops[client].newOwner, "owner_key")
         ELSE Finish(client) /\ UNCHANGED grants
    /\ UNCHANGED <<rows, files, backups, saved>>

\* Parse the file and extend the voucher in memory.
ParseAndExtend(client) ==
    LET file == files[Guid(client)] IN
    /\ At(client, "parse")
    /\ IF Parses(file) /\ CanExtend(file)
         THEN ops' = [ops EXCEPT ![client].pc = "backup_read",
                        ![client].voucher = ExtendVoucher(file, ops[client].newOwner)]
         ELSE Finish(client)
    /\ UNCHANGED <<rows, grants, files, backups, saved>>

\* BackupVoucher copies whatever the file holds now, not what was parsed.
BackupRead(client) ==
    /\ At(client, "backup_read")
    /\ IF files[Guid(client)] = NoFile
         THEN Finish(client)
         ELSE ops' = [ops EXCEPT ![client].pc = "backup_open",
                                 ![client].data = files[Guid(client)]]
    /\ UNCHANGED <<rows, grants, files, backups, saved>>

BackupOpen(client) ==
    /\ At(client, "backup_open")
    /\ backups' = [backups EXCEPT ![Guid(client)] = Torn]
    /\ Goto(client, "backup_write")
    /\ UNCHANGED <<rows, grants, files, saved>>

BackupWrite(client) ==
    /\ At(client, "backup_write")
    /\ backups' = [backups EXCEPT ![Guid(client)] = ops[client].data]
    /\ Goto(client, "save_open")
    /\ UNCHANGED <<rows, grants, files, saved>>

SaveOpen(client) ==
    /\ At(client, "save_open")
    /\ files' = [files EXCEPT ![Guid(client)] = Torn]
    /\ Goto(client, "save_write")
    /\ UNCHANGED <<rows, grants, backups, saved>>

SaveWrite(client) ==
    /\ At(client, "save_write")
    /\ files' = [files EXCEPT ![Guid(client)] = ops[client].voucher]
    /\ saved' = [saved EXCEPT ![Guid(client)] = @ \cup {ops[client].newOwner}]
    /\ Goto(client, "mark")
    /\ UNCHANGED <<rows, grants, backups>>

Mark(client) ==
    /\ At(client, "mark")
    /\ rows' = MarkAssigned(rows, ops[client].id, ops[client].newOwner, ops[client].caller)
    /\ Goto(client, "custodian")
    /\ UNCHANGED <<grants, files, backups, saved>>

GrantCustodian(client) ==
    /\ At(client, "custodian")
    /\ grants' = InsertAccessGrant(grants, Guid(client), ops[client].caller, "custodian")
    /\ Goto(client, "owner_key")
    /\ UNCHANGED <<rows, files, backups, saved>>

GrantOwnerKey(client) ==
    /\ At(client, "owner_key")
    /\ grants' = InsertAccessGrant(grants, Guid(client), ops[client].newOwner, "owner_key")
    /\ Finish(client)
    /\ UNCHANGED <<rows, files, backups, saved>>

-------------------------------------------------------------------------------
(***************************************************************************)
(* The rest of vouchersUnassignCmd.                                        *)
(***************************************************************************)
RestoreStatus(rec) == IF rec.hasDestination THEN "pending" ELSE "no_destination"

Unmark(command) ==
    /\ At(command, "unmark")
    /\ rows' = MarkUnassigned(rows, ops[command].id, RestoreStatus(ops[command].rec))
    /\ Goto(command, "restore_read")
    /\ UNCHANGED <<grants, files, backups, saved>>

\* Mutant of RestoreRead: the backup is taken away before it is written back.
RestoreTakesBackup(command) ==
    /\ At(command, "restore_read")
    /\ IF backups[Guid(command)] = NoFile
         THEN Goto(command, "revoke") /\ UNCHANGED backups
         ELSE /\ ops' = [ops EXCEPT ![command].pc = "restore_open",
                                    ![command].data = backups[Guid(command)]]
              /\ backups' = [backups EXCEPT ![Guid(command)] = NoFile]
    /\ UNCHANGED <<rows, grants, files, saved>>

\* Without a backup RestoreVoucher fails; the command only logs it.
RestoreRead(command) ==
    /\ At(command, "restore_read")
    /\ IF backups[Guid(command)] = NoFile
         THEN Goto(command, "revoke")
         ELSE ops' = [ops EXCEPT ![command].pc = "restore_open",
                                 ![command].data = backups[Guid(command)]]
    /\ UNCHANGED <<rows, grants, files, backups, saved>>

RestoreOpen(command) ==
    /\ At(command, "restore_open")
    /\ files' = [files EXCEPT ![Guid(command)] = Torn]
    /\ Goto(command, "restore_write")
    /\ UNCHANGED <<rows, grants, backups, saved>>

RestoreWrite(command) ==
    /\ At(command, "restore_write")
    /\ files' = [files EXCEPT ![Guid(command)] = ops[command].data]
    /\ Goto(command, "remove_backup")
    /\ UNCHANGED <<rows, grants, backups, saved>>

RemoveBackup(command) ==
    /\ At(command, "remove_backup")
    /\ backups' = [backups EXCEPT ![Guid(command)] = NoFile]
    /\ Goto(command, "revoke")
    /\ UNCHANGED <<rows, grants, files, saved>>

RevokeGrants(command) ==
    /\ At(command, "revoke")
    /\ grants' = RemoveAccessGrantsForVoucher(grants, Guid(command))
    /\ Finish(command)
    /\ UNCHANGED <<rows, files, backups, saved>>

-------------------------------------------------------------------------------
(***************************************************************************)
(* Errors and crashes.                                                     *)
(***************************************************************************)

\* The steps whose error ends the operation, and where the others continue:
\* MarkAssigned's error is logged, InsertAccessGrant's is dropped, the errors
\* of RestoreVoucher and RemoveAccessGrantsForVoucher are logged.
FatalSteps == {"lookup", "fetch", "access", "parse", "backup_read", "backup_open",
               "backup_write", "save_open", "save_write", "unmark"}
LastSteps == {"owner_key", "revoke"}
Continuation(step) ==
    CASE step = "mark" -> "custodian"
      [] step = "custodian" -> "owner_key"
      [] OTHER -> "revoke"    \* restore_* and remove_backup

\* Mutant of StepFails: an error of SaveVoucher is logged, not returned.
StepFailsSaveLogged(client) ==
    /\ Failures
    /\ ~ At(client, "idle")
    /\ CASE ops[client].pc \in {"save_open", "save_write"} -> Goto(client, "mark")
         [] ops[client].pc \in (FatalSteps \ {"save_open", "save_write"}) \cup LastSteps ->
               Finish(client)
         [] OTHER -> Goto(client, Continuation(ops[client].pc))
    /\ UNCHANGED <<rows, grants, files, backups, saved>>

\* Mutant of StepFails: unassign goes on after MarkUnassigned failed.
StepFailsUnmarkLogged(client) ==
    /\ Failures
    /\ ~ At(client, "idle")
    /\ CASE At(client, "unmark") -> Goto(client, "restore_read")
         [] ops[client].pc \in (FatalSteps \ {"unmark"}) \cup LastSteps -> Finish(client)
         [] OTHER -> Goto(client, Continuation(ops[client].pc))
    /\ UNCHANGED <<rows, grants, files, backups, saved>>

\* The statement or the file operation at the current step returns an error
\* (SQLITE_BUSY, a full disk, the context of a client that went away).
StepFails(client) ==
    /\ Failures
    /\ ~ At(client, "idle")
    /\ IF ops[client].pc \in FatalSteps \cup LastSteps
         THEN Finish(client)
         ELSE Goto(client, Continuation(ops[client].pc))
    /\ UNCHANGED <<rows, grants, files, backups, saved>>

\* A command is killed.
KillCommand(command) ==
    /\ Crashes
    /\ ~ At(command, "idle")
    /\ Finish(command)
    /\ UNCHANGED <<rows, grants, files, backups, saved>>

\* The server dies with every request in it; a new one finds the same disk.
ServerCrash ==
    /\ Crashes
    /\ \E request \in Requests : ~ At(request, "idle")
    /\ ops' = [client \in Clients |-> IF client \in Requests THEN NoOp ELSE ops[client]]
    /\ UNCHANGED <<rows, grants, files, backups, saved>>

-------------------------------------------------------------------------------
AssignStep(client) ==
    \/ ParseAndExtend(client)
    \/ BackupRead(client)
    \/ BackupOpen(client)
    \/ BackupWrite(client)
    \/ SaveOpen(client)
    \/ SaveWrite(client)
    \/ Mark(client)
    \/ GrantCustodian(client)
    \/ GrantOwnerKey(client)

UnassignStep(command) ==
    \/ Unmark(command)
    \/ RestoreRead(command)
    \/ RestoreOpen(command)
    \/ RestoreWrite(command)
    \/ RemoveBackup(command)
    \/ RevokeGrants(command)

Operation ==
    \/ \E request \in Requests : StartRequest(request) \/ CheckAccess(request)
    \/ \E command \in Commands :
          StartBySerial(command) \/ StartByGuid(command) \/ Lookup(command)
    \/ \E client \in Clients : Fetch(client)
    \/ \E client \in Assigners : AssignStep(client)
    \/ \E command \in UnassignCommands : UnassignStep(command)

Disturbance ==
    \/ \E client \in Clients : StepFails(client)
    \/ \E command \in Commands : KillCommand(command)
    \/ ServerCrash

Next == Operation \/ Disturbance

Spec == Init /\ [][Next]_vars

-------------------------------------------------------------------------------
(***************************************************************************)
(* Properties that hold however the operations interleave, crash or fail.  *)
(***************************************************************************)

\* Neither the record nor a grant names a customer before the voucher signed
\* over to that customer was written completely: assignVoucher saves the file
\* first, and its error is fatal.
CustodyFollowsSave ==
    /\ \A id \in RowIds : rows[id].status = "assigned" =>
          rows[id].assignedTo \in saved[rows[id].guid]
    /\ \A guid \in Guids, party \in Parties :
          <<party, "owner_key">> \in grants[guid] => party \in saved[guid]

\* Nobody becomes the custodian of a voucher without a right to it: the admin
\* identities, the owner in one of its rows, or a customer it was signed over to.
Entitled(guid) ==
    {Global, CliOperator} \cup saved[guid]
      \cup {rows[id].owner : id \in {row \in RowIds : rows[row].guid = guid}}

CustodiansEntitled ==
    \A guid \in Guids, party \in Parties :
       <<party, "custodian">> \in grants[guid] => party \in Entitled(guid)

-------------------------------------------------------------------------------
(***************************************************************************)
(* Properties of a deployment whose operators run one operation at a time  *)
(* and never assign a voucher back to Own; operations may crash and fail.  *)
(***************************************************************************)

\* The voucher as it was received survives: it is in the file or in the backup
\* at every moment, so that an operator can always get it back.
OriginalRecoverable ==
    \A guid \in Guids : OriginalOf[guid] \in {files[guid], backups[guid]}

\* A row says "assigned" only while the file is the voucher extended to exactly
\* that customer and the backup is the original that unassign will restore.
AssignedIsBacked ==
    \A id \in RowIds : rows[id].status = "assigned" =>
       /\ files[rows[id].guid] = ExtendVoucher(OriginalOf[rows[id].guid], rows[id].assignedTo)
       /\ backups[rows[id].guid] = OriginalOf[rows[id].guid]

\* The ledger that the rows and the files stand for.
AssignedRows(guid) == {id \in RowIds : rows[id].guid = guid /\ rows[id].status = "assigned"}

Custody == [guid \in Guids |->
    IF AssignedRows(guid) = {} THEN NoOne
    ELSE rows[CHOOSE id \in AssignedRows(guid) : TRUE].assignedTo]

Signed == [guid \in Guids |->
    IF files[guid] \in Chains /\ files[guid] # OriginalOf[guid]
      THEN Tip(files[guid]) ELSE NoOne]

Ledger == INSTANCE CustodyLedger WITH
    Vouchers <- Guids, Customers <- Parties, Nobody <- NoOne,
    custody <- Custody, signed <- Signed

\* One operation at a time implements the abstract ledger.
ImplementsLedger == Ledger!LedgerSpec

-------------------------------------------------------------------------------
(***************************************************************************)
(* Properties of one operation at a time, without crashes and errors.      *)
(***************************************************************************)

\* Between operations the record, the file, the backup and the grants agree:
\* an assigned voucher is signed over to its customer, who holds the owner_key
\* grant, and its original is backed up; unassigning reverted all of it.
Settled ==
    Quiescent => \A guid \in Guids :
       LET customer == Custody[guid]
           ownerKeys == {party \in Parties : <<party, "owner_key">> \in grants[guid]}
       IN IF customer = NoOne
            THEN /\ files[guid] = OriginalOf[guid]
                 /\ backups[guid] = NoFile
                 /\ grants[guid] = {}
            ELSE /\ files[guid] = ExtendVoucher(OriginalOf[guid], customer)
                 /\ backups[guid] = OriginalOf[guid]
                 /\ ownerKeys = {customer}

-------------------------------------------------------------------------------
(***************************************************************************)
(* A statement of the documentation that the code does not keep.           *)
(***************************************************************************)

\* README.md:213 "once a voucher has been assigned, a second assignment is
\* rejected": a row's customer never changes from one to another.
AtMostOnceAssigned ==
    [][\A id \in RowIds :
         rows[id].status = "assigned" /\ rows'[id].status = "assigned"
            => rows'[id].assignedTo = rows[id].assignedTo]_vars
===============================================================================
