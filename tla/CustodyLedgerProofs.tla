-------------------------- MODULE CustodyLedgerProofs --------------------------
(***************************************************************************)
(* VoucherAssignment implements CustodyLedger when the operators run one   *)
(* operation at a time and assign no voucher back to this service.         *)
(* Operations may fail or die at every step.                               *)
(*                                                                         *)
(* The invariant says what the file, the backup and the rows of a voucher  *)
(* can be in between, and what the one operation in progress knows of them.*)
(***************************************************************************)
EXTENDS VoucherAssignmentProofs, UndisturbedAssignment

\* The operators run one operation at a time and never assign a voucher to this
\* service's own key.
OneAtATime == Exclusive /\ Own \notin NewOwners

-------------------------------------------------------------------------------
(***************************************************************************)
(* The invariant.                                                          *)
(***************************************************************************)
Original(guid) == OriginalOf[guid]
SignedTo(guid, key) == ExtendVoucher(OriginalOf[guid], key)

Unassigned(guid) == \A id \in RowIds : rows[id].guid = guid => rows[id].status # "assigned"

Alone ==
    \A client, other \in Clients :
       client # other => ops[client].pc = "idle" \/ ops[other].pc = "idle"

\* Whatever is in the file, the original is there or in the backup.
FileOK(guid) ==
    /\ backups[guid] \in {NoFile, Torn, Original(guid)}
    /\ \/ files[guid] = Original(guid)
       \/ /\ backups[guid] = Original(guid)
          /\ files[guid] \in {Torn} \cup {SignedTo(guid, key) : key \in NewOwners}

\* An assigned row says whom the file is signed over to, and is the only one.
RowOK(id) ==
    rows[id].status = "assigned" =>
       /\ rows[id].assignedTo \in NewOwners
       /\ files[rows[id].guid] = SignedTo(rows[id].guid, rows[id].assignedTo)
       /\ backups[rows[id].guid] = Original(rows[id].guid)
       /\ \A other \in RowIds :
             rows[other].guid = rows[id].guid /\ rows[other].status = "assigned" => other = id

\* What an operation that has come to a step knows.
BeforeSave == {"backup_read", "backup_open", "backup_write", "save_open"}
Saving == BeforeSave \cup {"save_write", "mark"}
Restoring == {"restore_read", "restore_open"}

OpOK(client, op) ==
    LET guid == op.rec.guid IN
    /\ client \in Assigners /\ op.pc # "idle" => op.newOwner \in NewOwners
    /\ op.pc \in Saving => op.voucher = SignedTo(guid, op.newOwner)
    /\ op.pc \in BeforeSave => files[guid] = Original(guid)
    /\ op.pc \in {"backup_open", "backup_write", "restore_open", "restore_write"} =>
          op.data = Original(guid)
    /\ op.pc \in {"save_open", "save_write", "mark"} \cup Restoring \cup {"restore_write"} =>
          backups[guid] = Original(guid)
    /\ op.pc \in {"save_write", "restore_write"} => files[guid] = Torn
    /\ op.pc = "mark" => files[guid] = SignedTo(guid, op.newOwner) /\ Unassigned(guid)
    /\ op.pc = "unmark" => rows[op.id].status = "assigned"
    /\ op.pc \in Restoring =>
          /\ files[guid] \in {SignedTo(guid, key) : key \in NewOwners}
          /\ Unassigned(guid)
    /\ op.pc = "remove_backup" => files[guid] = Original(guid)

LedgerInv ==
    /\ TypeInv
    /\ Alone
    /\ \A guid \in Guids : FileOK(guid)
    /\ \A id \in RowIds : RowOK(id)
    /\ \A client \in Clients : OpOK(client, ops[client])

-------------------------------------------------------------------------------
(***************************************************************************)
(* The values a file can have are told apart.                              *)
(***************************************************************************)
LEMMA SignedFacts ==
    ASSUME NEW guid \in Guids, NEW key \in Parties, NEW other \in Parties
    PROVE  /\ Original(guid) \in Chains /\ SignedTo(guid, key) \in Chains
           /\ Original(guid) # SignedTo(guid, key)
           /\ SignedTo(guid, key) = SignedTo(guid, other) => key = other
           /\ Tip(SignedTo(guid, key)) = key
           /\ NoFile \notin Chains /\ Torn \notin Chains /\ NoFile # Torn
<1>1. PICK maker \in Parties : Original(guid) = <<maker>>
  BY AssignmentAssumption DEF Original
<1>2. Original(guid) \in Chains /\ Original(guid) \in Seq(Parties)
  BY <1>1, ChainFacts DEF Chains
<1>3. /\ SignedTo(guid, key) \in Chains
      /\ Tip(SignedTo(guid, key)) = key /\ Tip(SignedTo(guid, other)) = other
  BY <1>2, ChainFacts DEF SignedTo, Original
<1>4. Original(guid) # SignedTo(guid, key)
  <2>1. Len(SignedTo(guid, key)) = Len(Original(guid)) + 1 /\ Len(Original(guid)) \in Nat
    BY <1>2 DEF SignedTo, Original, ExtendVoucher
  <2> QED  BY <2>1
<1> QED  BY <1>2, <1>3, <1>4, StoreAssumption, ChainFacts

\* A file this service can extend is the original: it does not assign to itself.
LEMMA ExtendableIsOriginal ==
    ASSUME OneAtATime, NEW guid \in Guids, FileOK(guid), Parses(files[guid]),
           CanExtend(files[guid])
    PROVE  files[guid] = Original(guid)
<1>1. files[guid] # Torn
  BY ChainFacts DEF Parses
<1>2. ASSUME NEW key \in NewOwners, files[guid] = SignedTo(guid, key)
      PROVE  FALSE
  <2>1. Tip(SignedTo(guid, key)) = key
    BY SignedFacts, AssignmentAssumption
  <2> QED  BY <1>2, <2>1 DEF CanExtend, OneAtATime
<1> QED  BY <1>1, <1>2 DEF FileOK

\* Only a voucher that is signed over has an assigned row.
LEMMA OnlySignedIsAssigned ==
    ASSUME LedgerInv, NEW guid \in Guids,
           files[guid] \in {Original(guid), Torn}
    PROVE  Unassigned(guid)
<1> SUFFICES ASSUME NEW id \in RowIds, rows[id].guid = guid, rows[id].status = "assigned"
             PROVE  FALSE
  BY DEF Unassigned
<1>1. rows[id].assignedTo \in Parties /\ files[guid] = SignedTo(guid, rows[id].assignedTo)
  BY AssignmentAssumption DEF LedgerInv, RowOK
<1> QED  BY <1>1, SignedFacts

-------------------------------------------------------------------------------
(***************************************************************************)
(* The operation in progress is alone, so that a step need only keep what  *)
(* its own client knows.                                                   *)
(***************************************************************************)
LEMMA ActingAlone ==
    ASSUME Alone, NEW client \in Clients, ops[client].pc # "idle",
           \A other \in Clients \ {client} : ops'[other] = ops[other],
           OpOK(client, ops[client])'
    PROVE  Alone' /\ \A other \in Clients : OpOK(other, ops[other])'
<1>1. \A other \in Clients \ {client} : ops'[other].pc = "idle"
  BY DEF Alone
<1>2. Alone'
  BY <1>1 DEF Alone
<1>3. ASSUME NEW other \in Clients \ {client}
      PROVE  OpOK(other, ops[other])'
  BY <1>1, <1>3 DEF OpOK, Saving, BeforeSave, Restoring
<1> QED  BY <1>2, <1>3

\* A step that leaves rows and files alone keeps what is said of them.
Custodies == <<rows, files, backups>>

LEMMA CustodiesKept ==
    ASSUME LedgerInv, UNCHANGED Custodies
    PROVE  /\ \A guid \in Guids : FileOK(guid)'
           /\ \A id \in RowIds : RowOK(id)'
BY DEF LedgerInv, FileOK, RowOK, Custodies, Original, SignedTo

LEMMA OperationMoves ==
    ASSUME LedgerInv, TypeInv', UNCHANGED Custodies,
           NEW client \in Clients, ops[client].pc # "idle",
           \A other \in Clients \ {client} : ops'[other] = ops[other],
           OpOK(client, ops[client])'
    PROVE  LedgerInv'
BY ActingAlone, CustodiesKept DEF LedgerInv

\* Steps after which an operation need not know anything.
Careless == {"idle", "fetch", "lookup", "access", "parse", "custodian", "owner_key", "revoke"}

LEMMA CarelessOperation ==
    ASSUME LedgerInv, TypeInv', UNCHANGED Custodies,
           NEW client \in Clients, ops[client].pc # "idle",
           \A other \in Clients \ {client} : ops'[other] = ops[other],
           ops'[client].pc \in Careless,
           ops'[client].pc # "idle" => ops'[client].newOwner = ops[client].newOwner
    PROVE  LedgerInv'
<1>1. OpOK(client, ops[client])
  BY DEF LedgerInv
<1>2. OpOK(client, ops[client])'
  BY <1>1 DEF OpOK, Careless, Saving, BeforeSave, Restoring
<1> QED  BY <1>2, OperationMoves

LEMMA OperationEnds ==
    ASSUME LedgerInv, TypeInv', UNCHANGED Custodies,
           NEW client \in Clients, ops[client].pc # "idle", Finish(client)
    PROVE  LedgerInv'
<1>1. ops'[client] = NoOp /\ \A other \in Clients \ {client} : ops'[other] = ops[other]
  BY FinishType DEF LedgerInv, TypeInv
<1>2. ops'[client].pc = "idle"
  BY <1>1 DEF NoOp
<1> QED  BY <1>1, <1>2, CarelessOperation DEF Careless

\* The fields of an operation that goes on.
LEMMA GotoFields ==
    ASSUME TypeInv, NEW client \in Clients, NEW step \in Steps, Goto(client, step)
    PROVE  /\ \A other \in Clients \ {client} : ops'[other] = ops[other]
           /\ ops'[client].pc = step
           /\ ops'[client].rec = ops[client].rec /\ ops'[client].id = ops[client].id
           /\ ops'[client].newOwner = ops[client].newOwner
           /\ ops'[client].voucher = ops[client].voucher
           /\ ops'[client].data = ops[client].data
<1>1. ops[client] \in Ops
  BY DEF TypeInv, TypeOK
<1>2. /\ ops'[client] = [ops[client] EXCEPT !.pc = step]
      /\ \A other \in Clients \ {client} : ops'[other] = ops[other]
  BY GotoType DEF TypeInv
<1> QED  BY <1>1, <1>2 DEF Ops

\* A step that writes a file or a backup of a voucher without assigned rows.
LEMMA FileStep ==
    ASSUME LedgerInv, TypeInv', NEW guid \in Guids, Unassigned(guid), rows' = rows,
           \A other \in Guids \ {guid} :
              files'[other] = files[other] /\ backups'[other] = backups[other],
           FileOK(guid)',
           NEW client \in Clients, ops[client].pc # "idle",
           \A other \in Clients \ {client} : ops'[other] = ops[other],
           OpOK(client, ops[client])'
    PROVE  LedgerInv'
<1>1. ASSUME NEW other \in Guids
      PROVE  FileOK(other)'
  <2>1. CASE other = guid
    BY <2>1
  <2>2. CASE other # guid
    BY <2>2 DEF LedgerInv, FileOK, Original, SignedTo
  <2> QED  BY <2>1, <2>2
<1>2. ASSUME NEW id \in RowIds
      PROVE  RowOK(id)'
  <2>1. rows[id].guid \in Guids
    BY DEF LedgerInv, TypeInv, TypeOK, Rows
  <2>2. CASE rows[id].guid = guid
    BY <2>2 DEF Unassigned, RowOK
  <2>3. CASE rows[id].guid # guid
    BY <2>1, <2>3 DEF LedgerInv, RowOK, Original, SignedTo
  <2> QED  BY <2>2, <2>3
<1> QED  BY <1>1, <1>2, ActingAlone DEF LedgerInv

-------------------------------------------------------------------------------
(***************************************************************************)
(* The steps up to the backup.                                             *)
(***************************************************************************)
LEMMA StartFields ==
    ASSUME TypeInv, NEW client \in Clients,
           \/ client \in Requests /\ StartRequest(client)
           \/ client \in Commands /\ (StartBySerial(client) \/ StartByGuid(client))
    PROVE  /\ ops'[client].pc \in {"fetch", "lookup"}
           /\ client \in Assigners => ops'[client].newOwner \in NewOwners
           /\ \A other \in Clients \ {client} : ops'[other] = ops[other]
<1> DEFINE Fresh(op) == /\ op.pc \in {"fetch", "lookup"}
                        /\ client \in Assigners => op.newOwner \in NewOwners
           Begun == \E op : Fresh(op) /\ ops' = [ops EXCEPT ![client] = op]
<1>1. Begun
  <2>1. CASE client \in Requests /\ StartRequest(client)
    <3>1. PICK serial \in Serials, caller \in Callers \cup {Global}, key \in NewOwners :
            ops' = [ops EXCEPT ![client] = [NoOp EXCEPT !.pc = "fetch",
                      !.serial = serial, !.caller = caller, !.newOwner = key]]
      BY <2>1 DEF StartRequest
    <3>2. Fresh([NoOp EXCEPT !.pc = "fetch", !.serial = serial,
                             !.caller = caller, !.newOwner = key])
      BY DEF NoOp
    <3> QED  BY <3>1, <3>2
  <2> DEFINE Customer(key) == IF client \in AssignCommands THEN key ELSE NoOne
  <2>2. ASSUME client \in Commands, NEW key \in NewOwners
        PROVE  client \in Assigners => Customer(key) \in NewOwners
    BY <2>2, AssignmentAssumption DEF Commands, Assigners
  <2>3. CASE client \in Commands /\ StartBySerial(client)
    <3>1. PICK serial \in Serials, key \in NewOwners :
            ops' = [ops EXCEPT ![client] = [NoOp EXCEPT !.pc = "fetch",
                      !.serial = serial, !.caller = CliOperator, !.newOwner = Customer(key)]]
      BY <2>3 DEF StartBySerial
    <3>2. Fresh([NoOp EXCEPT !.pc = "fetch", !.serial = serial,
                             !.caller = CliOperator, !.newOwner = Customer(key)])
      BY <2>2, <2>3 DEF NoOp
    <3> QED  BY <3>1, <3>2
  <2>4. CASE client \in Commands /\ StartByGuid(client)
    <3>1. PICK guid \in Guids, key \in NewOwners :
            ops' = [ops EXCEPT ![client] = [NoOp EXCEPT !.pc = "lookup",
                      !.wanted = guid, !.caller = CliOperator, !.newOwner = Customer(key)]]
      BY <2>4 DEF StartByGuid
    <3>2. Fresh([NoOp EXCEPT !.pc = "lookup", !.wanted = guid,
                             !.caller = CliOperator, !.newOwner = Customer(key)])
      BY <2>2, <2>4 DEF NoOp
    <3> QED  BY <3>1, <3>2
  <2> QED  BY <2>1, <2>3, <2>4
<1> QED  BY <1>1 DEF TypeInv, TypeOK

LEMMA StartKeeps ==
    ASSUME OneAtATime, LedgerInv, TypeInv', NEW client \in Clients,
           \/ client \in Requests /\ StartRequest(client)
           \/ client \in Commands /\ (StartBySerial(client) \/ StartByGuid(client))
    PROVE  LedgerInv'
<1>1. UNCHANGED Custodies /\ \A other \in Clients : ops[other].pc = "idle"
  BY DEF StartRequest, StartBySerial, StartByGuid, Custodies, MayStart, OneAtATime, Quiescent, At
<1>2. /\ ops'[client].pc \in {"fetch", "lookup"}
      /\ client \in Assigners => ops'[client].newOwner \in NewOwners
      /\ \A other \in Clients \ {client} : ops'[other].pc = "idle"
  BY <1>1, StartFields DEF LedgerInv
<1>3. Alone'
  BY <1>2 DEF Alone
<1>4. ASSUME NEW other \in Clients
      PROVE  OpOK(other, ops[other])'
  <2>1. CASE other = client
    BY <1>2, <2>1 DEF OpOK, Saving, BeforeSave, Restoring
  <2>2. CASE other # client
    BY <1>2, <2>2 DEF OpOK, Saving, BeforeSave, Restoring
  <2> QED  BY <2>1, <2>2
<1> QED  BY <1>1, <1>3, <1>4, CustodiesKept DEF LedgerInv

LEMMA FindKeeps ==
    ASSUME LedgerInv, TypeInv', NEW client \in Clients,
           Lookup(client) \/ Fetch(client) \/ CheckAccess(client)
    PROVE  LedgerInv'
<1>1. /\ UNCHANGED Custodies /\ ops[client].pc # "idle" /\ ops[client] \in Ops
      /\ ops \in [Clients -> Ops]
  BY DEF Lookup, Fetch, CheckAccess, At, Custodies, LedgerInv, TypeInv, TypeOK
<1>2. CASE Finish(client)
  BY <1>1, <1>2, OperationEnds
<1>3. ASSUME Lookup(client), ~ Finish(client)
      PROVE  LedgerInv'
  <2>1. PICK id \in RowIds :
          ops' = [ops EXCEPT ![client].pc = "fetch", ![client].serial = rows[id].serial]
    BY <1>3 DEF Lookup
  <2>2. /\ ops'[client].pc = "fetch" /\ ops'[client].newOwner = ops[client].newOwner
        /\ \A other \in Clients \ {client} : ops'[other] = ops[other]
    BY <1>1, <2>1 DEF Ops
  <2> QED  BY <1>1, <2>2, CarelessOperation DEF Careless
<1>4. ASSUME Fetch(client), ~ Finish(client)
      PROVE  LedgerInv'
  <2>1. PICK id \in RowIds :
          /\ AfterFetch(client, rows[id]) # "idle"
          /\ ops' = [ops EXCEPT ![client].pc = AfterFetch(client, rows[id]),
                                ![client].id = id, ![client].rec = rows[id]]
    BY <1>4 DEF Fetch
  <2> DEFINE step == AfterFetch(client, rows[id])
  <2>2. \/ step \in {"access", "parse"}
        \/ step = "unmark" /\ rows[id].status = "assigned"
    BY <2>1 DEF AfterFetch
  <2>3. ops' = [ops EXCEPT ![client].pc = step, ![client].id = id, ![client].rec = rows[id]]
    BY <2>1
  <2> HIDE DEF step
  <2>4. /\ ops'[client].pc = step /\ ops'[client].newOwner = ops[client].newOwner
        /\ ops'[client].id = id
        /\ \A other \in Clients \ {client} : ops'[other] = ops[other]
    BY <1>1, <2>3 DEF Ops
  <2>5. CASE step \in {"access", "parse"}
    BY <1>1, <2>4, <2>5, CarelessOperation DEF Careless
  <2>6. CASE step = "unmark" /\ rows[id].status = "assigned"
    <3>1. OpOK(client, ops[client])
      BY DEF LedgerInv
    <3>2. OpOK(client, ops[client])'
      BY <1>1, <2>4, <2>6, <3>1 DEF OpOK, Saving, BeforeSave, Restoring, Custodies
    <3> QED  BY <1>1, <2>4, <3>2, OperationMoves
  <2> QED  BY <2>2, <2>5, <2>6
<1>5. ASSUME CheckAccess(client), ~ Finish(client)
      PROVE  LedgerInv'
  <2>1. Goto(client, "parse") /\ "parse" \in Steps
    BY <1>5 DEF CheckAccess, Steps, AssignSteps
  <2> QED  BY <1>1, <2>1, GotoFields, CarelessOperation DEF Careless, LedgerInv
<1> QED  BY <1>2, <1>3, <1>4, <1>5

LEMMA ParseKeeps ==
    ASSUME OneAtATime, LedgerInv, TypeInv', NEW client \in Assigners, ParseAndExtend(client)
    PROVE  LedgerInv'
<1>1. /\ client \in Clients /\ UNCHANGED Custodies /\ ops[client].pc = "parse"
      /\ ops[client] \in Ops /\ ops \in [Clients -> Ops]
  BY DEF ParseAndExtend, At, Custodies, LedgerInv, TypeInv, TypeOK, Clients, Assigners, Commands
<1>2. CASE Finish(client)
  BY <1>1, <1>2, OperationEnds
<1>3. CASE ~ Finish(client)
  <2> DEFINE guid == ops[client].rec.guid
             voucher == ExtendVoucher(files[guid], ops[client].newOwner)
  <2>1. /\ Parses(files[guid]) /\ CanExtend(files[guid])
        /\ ops' = [ops EXCEPT ![client].pc = "backup_read", ![client].voucher = voucher]
    BY <1>3 DEF ParseAndExtend, Guid
  <2>2. guid \in Guids
    BY <1>1, FetchedFacts DEF LedgerInv, Started, Guid
  <2>3. files[guid] = Original(guid)
    BY <2>1, <2>2, ExtendableIsOriginal DEF LedgerInv
  <2>4. voucher = SignedTo(guid, ops[client].newOwner)
    BY <2>3 DEF SignedTo, Original
  <2> HIDE DEF voucher
  <2>5. /\ ops'[client].pc = "backup_read" /\ ops'[client].newOwner = ops[client].newOwner
        /\ ops'[client].voucher = voucher /\ ops'[client].rec = ops[client].rec
        /\ \A other \in Clients \ {client} : ops'[other] = ops[other]
    BY <1>1, <2>1 DEF Ops
  <2>6. OpOK(client, ops[client])
    BY <1>1 DEF LedgerInv
  <2>7. OpOK(client, ops[client])'
    BY <1>1, <2>3, <2>4, <2>5, <2>6
    DEF OpOK, Saving, BeforeSave, Restoring, Custodies, Original, SignedTo
  <2> QED  BY <1>1, <2>5, <2>7, OperationMoves
<1> QED  BY <1>2, <1>3

LEMMA BackupReadKeeps ==
    ASSUME LedgerInv, TypeInv', NEW client \in Assigners, BackupRead(client)
    PROVE  LedgerInv'
<1>1. /\ client \in Clients /\ UNCHANGED Custodies /\ ops[client].pc = "backup_read"
      /\ ops[client] \in Ops /\ ops \in [Clients -> Ops]
  BY DEF BackupRead, At, Custodies, LedgerInv, TypeInv, TypeOK, Clients, Assigners, Commands
<1>2. CASE Finish(client)
  BY <1>1, <1>2, OperationEnds
<1>3. CASE ~ Finish(client)
  <2>1. ops' = [ops EXCEPT ![client].pc = "backup_open",
                           ![client].data = files[ops[client].rec.guid]]
    BY <1>3 DEF BackupRead, Guid
  <2>2. /\ ops'[client].pc = "backup_open" /\ ops'[client].newOwner = ops[client].newOwner
        /\ ops'[client].voucher = ops[client].voucher /\ ops'[client].rec = ops[client].rec
        /\ ops'[client].data = files[ops[client].rec.guid]
        /\ \A other \in Clients \ {client} : ops'[other] = ops[other]
    BY <1>1, <2>1 DEF Ops
  <2>3. OpOK(client, ops[client])
    BY <1>1 DEF LedgerInv
  <2>4. OpOK(client, ops[client])'
    BY <1>1, <2>2, <2>3 DEF OpOK, Saving, BeforeSave, Restoring, Custodies, Original, SignedTo
  <2> QED  BY <1>1, <2>2, <2>4, OperationMoves
<1> QED  BY <1>2, <1>3

-------------------------------------------------------------------------------
(***************************************************************************)
(* The steps that write.                                                   *)
(***************************************************************************)

\* The client comes to a step and keeps what it has in memory.
Goes(client, step) ==
    /\ ops'[client].pc = step
    /\ ops'[client].rec = ops[client].rec
    /\ ops'[client].newOwner = ops[client].newOwner
    /\ ops'[client].voucher = ops[client].voucher
    /\ ops'[client].data = ops[client].data

\* What a client at a writing step knows before it and keeps after it.
LEMMA Writer ==
    ASSUME LedgerInv, NEW client \in Clients, ops[client].pc \notin Started,
           NEW step \in AssignSteps \cup UnassignSteps, Goto(client, step)
    PROVE  /\ ops[client].pc # "idle" /\ OpOK(client, ops[client])
           /\ ops[client].rec.guid \in Guids /\ Guid(client) = ops[client].rec.guid
           /\ ops[client].id \in RowIds /\ rows[ops[client].id].guid = ops[client].rec.guid
           /\ \A other \in Clients \ {client} : ops'[other] = ops[other]
           /\ Goes(client, step)
BY FetchedFacts, GotoFields DEF LedgerInv, Started, Guid, Steps, Goes

LEMMA BackupWritesKeep ==
    ASSUME LedgerInv, TypeInv', NEW client \in Assigners,
           BackupOpen(client) \/ BackupWrite(client)
    PROVE  LedgerInv'
<1>1. client \in Clients /\ ops[client].pc \notin Started
  BY DEF Clients, Assigners, Commands,
         BackupOpen, BackupWrite, At, Started
<1>g. PICK guid \in Guids : guid = ops[client].rec.guid
  BY <1>1, FetchedFacts DEF LedgerInv, Guid
<1>2. CASE BackupOpen(client)
  <2>1. /\ ops[client].pc = "backup_open" /\ Goto(client, "backup_write")
        /\ backups' = [backups EXCEPT ![Guid(client)] = Torn]
        /\ files' = files /\ rows' = rows
        /\ "backup_write" \in AssignSteps
    BY <1>2 DEF BackupOpen, At, AssignSteps
  <2>2. /\ files[guid] = Original(guid) /\ guid \in Guids
        /\ \A other \in Guids \ {guid} : backups'[other] = backups[other]
        /\ backups'[guid] = Torn
    BY <1>1, <1>g, <2>1, Writer DEF OpOK, BeforeSave, LedgerInv, TypeInv, TypeOK
  <2>3. Unassigned(guid)
    BY <2>2, OnlySignedIsAssigned
  <2>4. FileOK(guid)'
    BY <2>1, <2>2 DEF FileOK, Original
  <2>5. OpOK(client, ops[client])'
    <3>1. /\ Goes(client, "backup_write") /\ OpOK(client, ops[client])
          /\ ops[client].rec.guid = guid
      BY <1>1, <1>g, <2>1, Writer
    <3> QED
      BY <2>1, <2>2, <3>1
      DEF OpOK, Goes, Saving, BeforeSave, Restoring, Original, SignedTo
  <2> QED  BY <1>1, <1>g, <2>1, <2>2, <2>3, <2>4, <2>5, Writer, FileStep
<1>3. CASE BackupWrite(client)
  <2>1. /\ ops[client].pc = "backup_write" /\ Goto(client, "save_open")
        /\ backups' = [backups EXCEPT ![Guid(client)] = ops[client].data]
        /\ files' = files /\ rows' = rows
        /\ "save_open" \in AssignSteps
    BY <1>3 DEF BackupWrite, At, AssignSteps
  <2>2. /\ files[guid] = Original(guid) /\ guid \in Guids
        /\ \A other \in Guids \ {guid} : backups'[other] = backups[other]
        /\ backups'[guid] = Original(guid)
    BY <1>1, <1>g, <2>1, Writer DEF OpOK, BeforeSave, LedgerInv, TypeInv, TypeOK
  <2>3. Unassigned(guid)
    BY <2>2, OnlySignedIsAssigned
  <2>4. FileOK(guid)'
    BY <2>1, <2>2 DEF FileOK, Original
  <2>5. OpOK(client, ops[client])'
    <3>1. /\ Goes(client, "save_open") /\ OpOK(client, ops[client])
          /\ ops[client].rec.guid = guid
      BY <1>1, <1>g, <2>1, Writer
    <3> QED
      BY <2>1, <2>2, <3>1
      DEF OpOK, Goes, Saving, BeforeSave, Restoring, Original, SignedTo
  <2> QED  BY <1>1, <1>g, <2>1, <2>2, <2>3, <2>4, <2>5, Writer, FileStep
<1> QED  BY <1>2, <1>3

LEMMA SavesKeep ==
    ASSUME LedgerInv, TypeInv', NEW client \in Assigners, SaveOpen(client) \/ SaveWrite(client)
    PROVE  LedgerInv'
<1>1. client \in Clients /\ ops[client].pc \notin Started
  BY DEF Clients, Assigners, Commands,
         SaveOpen, SaveWrite, At, Started
<1>g. PICK guid \in Guids : guid = ops[client].rec.guid
  BY <1>1, FetchedFacts DEF LedgerInv, Guid
<1>2. CASE SaveOpen(client)
  <2>1. /\ ops[client].pc = "save_open" /\ Goto(client, "save_write")
        /\ files' = [files EXCEPT ![Guid(client)] = Torn]
        /\ backups' = backups /\ rows' = rows
        /\ "save_write" \in AssignSteps
    BY <1>2 DEF SaveOpen, At, AssignSteps
  <2>2. /\ files[guid] = Original(guid) /\ guid \in Guids
        /\ backups[guid] = Original(guid)
        /\ \A other \in Guids \ {guid} : files'[other] = files[other]
        /\ files'[guid] = Torn
    BY <1>1, <1>g, <2>1, Writer DEF OpOK, BeforeSave, LedgerInv, TypeInv, TypeOK
  <2>3. Unassigned(guid)
    BY <2>2, OnlySignedIsAssigned
  <2>4. FileOK(guid)'
    BY <2>1, <2>2 DEF FileOK, Original
  <2>5. OpOK(client, ops[client])'
    <3>1. /\ Goes(client, "save_write") /\ OpOK(client, ops[client])
          /\ ops[client].rec.guid = guid
      BY <1>1, <1>g, <2>1, Writer
    <3> QED
      BY <2>1, <2>2, <3>1
      DEF OpOK, Goes, Saving, BeforeSave, Restoring, Original, SignedTo
  <2> QED  BY <1>1, <1>g, <2>1, <2>2, <2>3, <2>4, <2>5, Writer, FileStep
<1>3. CASE SaveWrite(client)
  <2>1. /\ ops[client].pc = "save_write" /\ Goto(client, "mark")
        /\ files' = [files EXCEPT ![Guid(client)] = ops[client].voucher]
        /\ backups' = backups /\ rows' = rows
        /\ "mark" \in AssignSteps
    BY <1>3 DEF SaveWrite, At, AssignSteps
  <2>2. /\ files[guid] = Torn /\ guid \in Guids /\ backups[guid] = Original(guid)
        /\ ops[client].newOwner \in NewOwners
        /\ \A other \in Guids \ {guid} : files'[other] = files[other]
        /\ files'[guid] = SignedTo(guid, ops[client].newOwner)
    BY <1>1, <1>g, <2>1, Writer DEF OpOK, Saving, LedgerInv, TypeInv, TypeOK
  <2>3. Unassigned(guid)
    BY <2>2, OnlySignedIsAssigned
  <2>4. FileOK(guid)'
    BY <2>1, <2>2 DEF FileOK, Original, SignedTo
  <2>5. Unassigned(guid)'
    BY <2>1, <2>3 DEF Unassigned
  <2>6. OpOK(client, ops[client])'
    <3>1. /\ Goes(client, "mark") /\ OpOK(client, ops[client])
          /\ ops[client].rec.guid = guid
      BY <1>1, <1>g, <2>1, Writer
    <3> QED
      BY <2>1, <2>2, <2>5, <3>1
      DEF OpOK, Goes, Saving, BeforeSave, Restoring, Original, SignedTo
  <2> QED  BY <1>1, <1>g, <2>1, <2>2, <2>3, <2>4, <2>6, Writer, FileStep
<1> QED  BY <1>2, <1>3

LEMMA RestoresKeep ==
    ASSUME LedgerInv, TypeInv', NEW client \in UnassignCommands,
           RestoreOpen(client) \/ RestoreWrite(client) \/ RemoveBackup(client)
    PROVE  LedgerInv'
<1>1. client \in Clients /\ ops[client].pc \notin Started
  BY DEF Clients, Commands,
         RestoreOpen, RestoreWrite, RemoveBackup, At, Started
<1>g. PICK guid \in Guids : guid = ops[client].rec.guid
  BY <1>1, FetchedFacts DEF LedgerInv, Guid
<1>2. CASE RestoreOpen(client)
  <2>1. /\ ops[client].pc = "restore_open" /\ Goto(client, "restore_write")
        /\ files' = [files EXCEPT ![Guid(client)] = Torn]
        /\ backups' = backups /\ rows' = rows
        /\ "restore_write" \in UnassignSteps
    BY <1>2 DEF RestoreOpen, At, UnassignSteps
  <2>2. /\ Unassigned(guid) /\ guid \in Guids /\ backups[guid] = Original(guid)
        /\ \A other \in Guids \ {guid} : files'[other] = files[other]
        /\ files'[guid] = Torn
    BY <1>1, <1>g, <2>1, Writer DEF OpOK, Restoring, LedgerInv, TypeInv, TypeOK
  <2>3. FileOK(guid)'
    BY <2>1, <2>2 DEF FileOK, Original
  <2>4. OpOK(client, ops[client])'
    <3>1. /\ Goes(client, "restore_write") /\ OpOK(client, ops[client])
          /\ ops[client].rec.guid = guid
      BY <1>1, <1>g, <2>1, Writer
    <3> QED
      BY <2>1, <2>2, <3>1
      DEF OpOK, Goes, Saving, BeforeSave, Restoring, Original, SignedTo
  <2> QED  BY <1>1, <1>g, <2>1, <2>2, <2>3, <2>4, Writer, FileStep
<1>3. CASE RestoreWrite(client)
  <2>1. /\ ops[client].pc = "restore_write" /\ Goto(client, "remove_backup")
        /\ files' = [files EXCEPT ![Guid(client)] = ops[client].data]
        /\ backups' = backups /\ rows' = rows
        /\ "remove_backup" \in UnassignSteps
    BY <1>3 DEF RestoreWrite, At, UnassignSteps
  <2>2. /\ files[guid] = Torn /\ guid \in Guids /\ backups[guid] = Original(guid)
        /\ \A other \in Guids \ {guid} : files'[other] = files[other]
        /\ files'[guid] = Original(guid)
    BY <1>1, <1>g, <2>1, Writer DEF OpOK, LedgerInv, TypeInv, TypeOK
  <2>3. Unassigned(guid)
    BY <2>2, OnlySignedIsAssigned
  <2>4. FileOK(guid)'
    BY <2>1, <2>2 DEF FileOK, Original
  <2>5. OpOK(client, ops[client])'
    <3>1. /\ Goes(client, "remove_backup") /\ OpOK(client, ops[client])
          /\ ops[client].rec.guid = guid
      BY <1>1, <1>g, <2>1, Writer
    <3> QED
      BY <2>1, <2>2, <3>1
      DEF OpOK, Goes, Saving, BeforeSave, Restoring, Original, SignedTo
  <2> QED  BY <1>1, <1>g, <2>1, <2>2, <2>3, <2>4, <2>5, Writer, FileStep
<1>4. CASE RemoveBackup(client)
  <2>1. /\ ops[client].pc = "remove_backup" /\ Goto(client, "revoke")
        /\ backups' = [backups EXCEPT ![Guid(client)] = NoFile]
        /\ files' = files /\ rows' = rows
        /\ "revoke" \in UnassignSteps
    BY <1>4 DEF RemoveBackup, At, UnassignSteps
  <2>2. /\ files[guid] = Original(guid) /\ guid \in Guids
        /\ \A other \in Guids \ {guid} : backups'[other] = backups[other]
        /\ backups'[guid] = NoFile
    BY <1>1, <1>g, <2>1, Writer DEF OpOK, LedgerInv, TypeInv, TypeOK
  <2>3. Unassigned(guid)
    BY <2>2, OnlySignedIsAssigned
  <2>4. FileOK(guid)'
    BY <2>1, <2>2 DEF FileOK, Original
  <2>5. OpOK(client, ops[client])'
    <3>1. /\ Goes(client, "revoke") /\ OpOK(client, ops[client])
          /\ ops[client].rec.guid = guid
      BY <1>1, <1>g, <2>1, Writer
    <3> QED
      BY <2>1, <2>2, <3>1
      DEF OpOK, Goes, Saving, BeforeSave, Restoring, Original, SignedTo
  <2> QED  BY <1>1, <1>g, <2>1, <2>2, <2>3, <2>4, <2>5, Writer, FileStep
<1> QED  BY <1>2, <1>3, <1>4

LEMMA RestoreReadKeeps ==
    ASSUME LedgerInv, TypeInv', NEW client \in UnassignCommands, RestoreRead(client)
    PROVE  LedgerInv'
<1>1. /\ client \in Clients /\ UNCHANGED Custodies /\ ops[client].pc = "restore_read"
      /\ ops[client] \in Ops /\ ops \in [Clients -> Ops]
  BY DEF RestoreRead, At, Custodies, LedgerInv, TypeInv, TypeOK, Clients, Commands
<1>2. CASE Goto(client, "revoke")
  BY <1>1, <1>2, GotoFields, CarelessOperation
  DEF Careless, LedgerInv, Steps, UnassignSteps
<1>3. CASE ~ Goto(client, "revoke")
  <2>1. ops' = [ops EXCEPT ![client].pc = "restore_open",
                           ![client].data = backups[ops[client].rec.guid]]
    BY <1>3 DEF RestoreRead, Guid
  <2>2. /\ ops'[client].pc = "restore_open" /\ ops'[client].newOwner = ops[client].newOwner
        /\ ops'[client].rec = ops[client].rec
        /\ ops'[client].data = backups[ops[client].rec.guid]
        /\ \A other \in Clients \ {client} : ops'[other] = ops[other]
    BY <1>1, <2>1 DEF Ops
  <2>3. OpOK(client, ops[client])
    BY <1>1 DEF LedgerInv
  <2>4. OpOK(client, ops[client])'
    BY <1>1, <2>2, <2>3
    DEF OpOK, Saving, BeforeSave, Restoring, Custodies, Original, SignedTo, Unassigned
  <2> QED  BY <1>1, <2>2, <2>4, OperationMoves
<1> QED  BY <1>2, <1>3

LEMMA MarkKeeps ==
    ASSUME LedgerInv, TypeInv', NEW client \in Assigners, Mark(client)
    PROVE  LedgerInv'
<1>1. client \in Clients /\ ops[client].pc \notin Started
  BY DEF Clients, Assigners, Commands, Mark, At, Started
<1>2. PICK guid \in Guids : guid = ops[client].rec.guid
  BY <1>1, FetchedFacts DEF LedgerInv, Guid
<1>3. PICK id \in RowIds : id = ops[client].id
  BY <1>1, FetchedFacts DEF LedgerInv
<1>4. /\ ops[client].pc = "mark" /\ Goto(client, "custodian") /\ "custodian" \in AssignSteps
      /\ rows' = MarkAssigned(rows, id, ops[client].newOwner, ops[client].caller)
      /\ files' = files /\ backups' = backups
  BY <1>3 DEF Mark, At, AssignSteps
<1>5. /\ rows[id].guid = guid /\ Unassigned(guid)
      /\ ops[client].newOwner \in NewOwners
      /\ files[guid] = SignedTo(guid, ops[client].newOwner)
      /\ backups[guid] = Original(guid)
  BY <1>1, <1>2, <1>3, <1>4, Writer DEF OpOK
<1>6. /\ rows'[id].status = "assigned" /\ rows'[id].assignedTo = ops[client].newOwner
      /\ \A other \in RowIds \ {id} : rows'[other] = rows[other]
      /\ \A other \in RowIds : rows'[other].guid = rows[other].guid
  <2>1. /\ rows \in [RowIds -> Rows]
        /\ ops[client].newOwner \in Parties /\ ops[client].caller \in Parties
    BY <1>1, FetchedFacts DEF LedgerInv, TypeInv, TypeOK
  <2> QED  BY <1>4, <2>1, MarkFacts
<1>7. ASSUME NEW other \in RowIds
      PROVE  RowOK(other)'
  <2>1. CASE other = id
    BY <1>4, <1>5, <1>6, <2>1 DEF RowOK, Unassigned, Original, SignedTo
  <2>2. CASE other # id /\ rows[other].status = "assigned"
    <3>1. rows[other].guid # guid
      BY <1>5, <2>2 DEF Unassigned
    <3> QED  BY <1>4, <1>5, <1>6, <2>2, <3>1 DEF LedgerInv, RowOK, Original, SignedTo
  <2>3. CASE other # id /\ rows[other].status # "assigned"
    BY <1>6, <2>3 DEF RowOK
  <2> QED  BY <2>1, <2>2, <2>3
<1>8. \A other \in Guids : FileOK(other)'
  BY <1>4 DEF LedgerInv, FileOK, Original, SignedTo
<1>9. OpOK(client, ops[client])'
  BY <1>1, <1>4, <1>5, Writer DEF OpOK, Goes, Saving, BeforeSave, Restoring
<1> QED  BY <1>1, <1>4, <1>7, <1>8, <1>9, Writer, ActingAlone DEF LedgerInv

LEMMA UnmarkKeeps ==
    ASSUME LedgerInv, TypeInv', NEW client \in UnassignCommands, Unmark(client)
    PROVE  LedgerInv'
<1>1. client \in Clients /\ ops[client].pc \notin Started
  BY DEF Clients, Commands, Unmark, At, Started
<1>2. PICK guid \in Guids : guid = ops[client].rec.guid
  BY <1>1, FetchedFacts DEF LedgerInv, Guid
<1>3. PICK id \in RowIds : id = ops[client].id
  BY <1>1, FetchedFacts DEF LedgerInv
<1>4. /\ ops[client].pc = "unmark" /\ Goto(client, "restore_read")
      /\ "restore_read" \in UnassignSteps
      /\ rows' = MarkUnassigned(rows, id, RestoreStatus(ops[client].rec))
      /\ files' = files /\ backups' = backups
  BY <1>3 DEF Unmark, At, UnassignSteps
<1>5. /\ rows[id].guid = guid /\ rows[id].status = "assigned"
      /\ client \in Assigners => ops[client].newOwner \in NewOwners
  BY <1>1, <1>2, <1>3, <1>4, Writer DEF OpOK
<1>6. /\ rows'[id].status # "assigned"
      /\ \A other \in RowIds \ {id} : rows'[other] = rows[other]
      /\ \A other \in RowIds : rows'[other].guid = rows[other].guid
  <2>1. /\ rows \in [RowIds -> Rows]
        /\ RestoreStatus(ops[client].rec) \in {"pending", "no_destination"}
    BY DEF RestoreStatus, LedgerInv, TypeInv, TypeOK
  <2>2. \A status \in {"pending", "no_destination"} : status # "assigned"
    OBVIOUS
  <2> QED  BY <1>4, <2>1, <2>2, UnmarkFacts
<1>7. /\ files[guid] \in {SignedTo(guid, key) : key \in NewOwners}
      /\ backups[guid] = Original(guid)
      /\ \A other \in RowIds : rows[other].guid = guid /\ rows[other].status = "assigned"
                                  => other = id
  BY <1>5 DEF LedgerInv, RowOK
<1>8. Unassigned(guid)'
  BY <1>6, <1>7 DEF Unassigned
<1>9. \A other \in RowIds : RowOK(other)'
  BY <1>4, <1>6 DEF LedgerInv, RowOK, Original, SignedTo
<1>10. \A other \in Guids : FileOK(other)'
  BY <1>4 DEF LedgerInv, FileOK, Original, SignedTo
<1>11. OpOK(client, ops[client])'
  <2>1. Goes(client, "restore_read") /\ ops[client].rec.guid = guid
    BY <1>1, <1>2, <1>4, Writer
  <2> QED
    BY <1>4, <1>5, <1>7, <1>8, <2>1
    DEF OpOK, Goes, Saving, BeforeSave, Restoring, Original, SignedTo
<1> QED  BY <1>1, <1>4, <1>9, <1>10, <1>11, Writer, ActingAlone DEF LedgerInv

\* The grants are no part of what the invariant is about.
LEMMA GrantsKeep ==
    ASSUME LedgerInv, TypeInv', NEW client \in Clients,
           GrantCustodian(client) \/ GrantOwnerKey(client) \/ RevokeGrants(client)
    PROVE  LedgerInv'
<1>1. UNCHANGED Custodies /\ ops[client].pc # "idle"
  BY DEF GrantCustodian, GrantOwnerKey, RevokeGrants, At, Custodies
<1>2. CASE Finish(client)
  BY <1>1, <1>2, OperationEnds
<1>3. CASE Goto(client, "owner_key")
  BY <1>1, <1>3, GotoFields, CarelessOperation DEF Careless, LedgerInv, Steps, AssignSteps
<1> QED  BY <1>2, <1>3 DEF GrantCustodian, GrantOwnerKey, RevokeGrants

-------------------------------------------------------------------------------
(***************************************************************************)
(* Errors and crashes: the operation goes on without relying on anything.  *)
(***************************************************************************)
LEMMA FailureKeeps ==
    ASSUME LedgerInv, TypeInv', NEW client \in Clients, StepFails(client)
    PROVE  LedgerInv'
<1>1. UNCHANGED Custodies /\ ops[client].pc # "idle"
  BY DEF StepFails, At, Custodies
<1>2. CASE Finish(client)
  BY <1>1, <1>2, OperationEnds
<1>3. ASSUME NEW step \in {"custodian", "owner_key", "revoke"}, Goto(client, step)
      PROVE  LedgerInv'
  BY <1>1, <1>3, GotoFields, CarelessOperation
  DEF Careless, LedgerInv, Steps, AssignSteps, UnassignSteps
<1> QED  BY <1>2, <1>3 DEF StepFails, Continuation

LEMMA CrashKeeps ==
    ASSUME LedgerInv, TypeInv', ServerCrash
    PROVE  LedgerInv'
<1>1. /\ UNCHANGED Custodies
      /\ \A client \in Clients : ops'[client] = ops[client] \/ ops'[client].pc = "idle"
  BY DEF ServerCrash, Custodies, NoOp
<1>2. Alone'
  BY <1>1 DEF LedgerInv, Alone
<1>3. ASSUME NEW client \in Clients
      PROVE  OpOK(client, ops[client])'
  <2>1. CASE ops'[client].pc = "idle"
    BY <2>1 DEF OpOK, Saving, BeforeSave, Restoring
  <2>2. CASE ops'[client] = ops[client]
    BY <1>1, <2>2 DEF LedgerInv, OpOK, Custodies, Original, SignedTo, Unassigned
  <2> QED  BY <1>1, <2>1, <2>2
<1> QED  BY <1>1, <1>2, <1>3, CustodiesKept DEF LedgerInv

-------------------------------------------------------------------------------
LEMMA LedgerInvInit == Init => LedgerInv
<1> SUFFICES ASSUME Init PROVE LedgerInv
  OBVIOUS
<1>1. TypeInv /\ \A client \in Clients : ops[client].pc = "idle"
  BY InitType DEF Init, NoOp
<1>2. Alone /\ \A client \in Clients : OpOK(client, ops[client])
  BY <1>1 DEF Alone, OpOK, Saving, BeforeSave, Restoring
<1>3. \A guid \in Guids : FileOK(guid)
  BY DEF Init, FileOK, Original
<1>4. \A id \in RowIds : RowOK(id)
  BY InitUnassigned DEF RowOK
<1> QED  BY <1>1, <1>2, <1>3, <1>4 DEF LedgerInv

LEMMA LedgerInvStep == OneAtATime /\ LedgerInv /\ [Next]_vars => LedgerInv'
<1> SUFFICES ASSUME OneAtATime, LedgerInv, [Next]_vars PROVE LedgerInv'
  OBVIOUS
<1>t. TypeInv'
  BY TypeStep DEF LedgerInv
<1>1. CASE UNCHANGED vars
  <2>1. Alone' /\ \A client \in Clients : OpOK(client, ops[client])'
    BY <1>1 DEF vars, LedgerInv, Alone, OpOK, Original, SignedTo, Unassigned
  <2> QED  BY <1>t, <1>1, <2>1, CustodiesKept DEF vars, Custodies, LedgerInv
<1>2. ASSUME NEW request \in Requests, StartRequest(request) \/ CheckAccess(request)
      PROVE  LedgerInv'
  BY <1>t, <1>2, StartKeeps, FindKeeps DEF Clients
<1>3. ASSUME NEW command \in Commands,
             StartBySerial(command) \/ StartByGuid(command) \/ Lookup(command)
      PROVE  LedgerInv'
  BY <1>t, <1>3, StartKeeps, FindKeeps DEF Clients
<1>4. ASSUME NEW client \in Clients, Fetch(client)
      PROVE  LedgerInv'
  BY <1>t, <1>4, FindKeeps
<1>5. ASSUME NEW client \in Assigners, AssignStep(client)
      PROVE  LedgerInv'
  <2>1. client \in Clients
    BY DEF Assigners, Clients, Commands
  <2> QED  BY <1>t, <1>5, <2>1, ParseKeeps, BackupReadKeeps, BackupWritesKeep, SavesKeep,
              MarkKeeps, GrantsKeep DEF AssignStep
<1>6. ASSUME NEW command \in UnassignCommands, UnassignStep(command)
      PROVE  LedgerInv'
  <2>1. command \in Clients
    BY DEF Clients, Commands
  <2> QED  BY <1>t, <1>6, <2>1, UnmarkKeeps, RestoreReadKeeps, RestoresKeep, GrantsKeep
           DEF UnassignStep
<1>7. ASSUME NEW client \in Clients, StepFails(client)
      PROVE  LedgerInv'
  BY <1>t, <1>7, FailureKeeps
<1>8. ASSUME NEW command \in Commands, KillCommand(command)
      PROVE  LedgerInv'
  BY <1>t, <1>8, OperationEnds DEF KillCommand, At, Custodies, Clients
<1>9. CASE ServerCrash
  BY <1>t, <1>9, CrashKeeps
<1> QED
  BY <1>1, <1>2, <1>3, <1>4, <1>5, <1>6, <1>7, <1>8, <1>9 DEF Next, Operation, Disturbance

-------------------------------------------------------------------------------
(***************************************************************************)
(* Nothing is lost.                                                        *)
(***************************************************************************)
LEMMA LedgerInvHolds ==
    ASSUME OneAtATime
    PROVE  Spec => []LedgerInv
BY LedgerInvInit, LedgerInvStep, PTL DEF Spec

\* However an assignment or an unassignment fails or dies between two of its
\* steps, and whatever is run afterwards, the voucher as it was received is in
\* the file or in the backup: the backup is complete before SaveVoucher truncates
\* the file, and RestoreVoucher removes it only after the file was written.
THEOREM OriginalSurvives ==
    ASSUME OneAtATime
    PROVE  Spec => []OriginalRecoverable
<1>1. LedgerInv => OriginalRecoverable
  BY DEF LedgerInv, FileOK, Original, OriginalRecoverable
<1> QED  BY <1>1, LedgerInvHolds, PTL

\* A row that says "assigned" is backed by the file signed over to that customer
\* and by the backup that unassign restores, also after operations that ended
\* between the file, the record and the backup.
THEOREM AssignedStaysBacked ==
    ASSUME OneAtATime
    PROVE  Spec => []AssignedIsBacked
<1>1. LedgerInv => AssignedIsBacked
  BY DEF LedgerInv, RowOK, Original, SignedTo, AssignedIsBacked
<1> QED  BY <1>1, LedgerInvHolds, PTL

-------------------------------------------------------------------------------
(***************************************************************************)
(* The ledger that the rows and the files stand for.                       *)
(***************************************************************************)
Entries ==
    /\ \A guid \in Guids :
          /\ Unassigned(guid) => Custody[guid] = NoOne
          /\ files[guid] \in {Original(guid), Torn} => Signed[guid] = NoOne
          /\ \A key \in NewOwners : files[guid] = SignedTo(guid, key) => Signed[guid] = key
    /\ \A id \in RowIds :
          rows[id].status = "assigned" => Custody[rows[id].guid] = rows[id].assignedTo

LEMMA EntriesHold == LedgerInv => Entries
<1> SUFFICES ASSUME LedgerInv PROVE Entries
  OBVIOUS
<1>1. ASSUME NEW guid \in Guids, Unassigned(guid)
      PROVE  Custody[guid] = NoOne
  BY <1>1 DEF Unassigned, Custody, AssignedRows
<1>2. ASSUME NEW guid \in Guids, files[guid] \in {Original(guid), Torn}
      PROVE  Signed[guid] = NoOne
  BY <1>2, ChainFacts DEF Signed, Original
<1>3. ASSUME NEW guid \in Guids, NEW key \in NewOwners, files[guid] = SignedTo(guid, key)
      PROVE  Signed[guid] = key
  BY <1>3, SignedFacts, AssignmentAssumption DEF Signed, Original
<1>4. ASSUME NEW id \in RowIds, rows[id].status = "assigned"
      PROVE  Custody[rows[id].guid] = rows[id].assignedTo
  <2> DEFINE chosen == CHOOSE row \in AssignedRows(rows[id].guid) : TRUE
  <2>1. id \in AssignedRows(rows[id].guid)
    BY <1>4 DEF AssignedRows
  <2>2. chosen \in AssignedRows(rows[id].guid)
    BY <2>1
  <2>3. chosen = id
    BY <1>4, <2>2 DEF AssignedRows, LedgerInv, RowOK
  <2>4. rows[id].guid \in Guids
    BY DEF LedgerInv, TypeInv, TypeOK, Rows
  <2>5. Custody[rows[id].guid] = rows[chosen].assignedTo
    BY <2>1, <2>4 DEF Custody
  <2> QED  BY <2>3, <2>5
<1> QED  BY <1>1, <1>2, <1>3, <1>4 DEF Entries

\* What changes in the ledger when rows, or the row or the file of one voucher, do.
LEMMA CustodyKept ==
    ASSUME LedgerInv, Entries, Entries', rows' = rows
    PROVE  Custody' = Custody
<1>1. ASSUME NEW guid \in Guids
      PROVE  Custody'[guid] = Custody[guid]
  <2>1. CASE Unassigned(guid)
    <3>1. Unassigned(guid)'
      BY <2>1 DEF Unassigned
    <3> QED  BY <2>1, <3>1 DEF Entries
  <2>2. CASE ~ Unassigned(guid)
    <3>1. PICK id \in RowIds : rows[id].guid = guid /\ rows[id].status = "assigned"
      BY <2>2 DEF Unassigned
    <3> QED  BY <3>1 DEF Entries
  <2> QED  BY <2>1, <2>2
<1> QED  BY <1>1 DEF Custody

LEMMA CustodyChanges ==
    ASSUME LedgerInv, Entries, Entries', NEW id \in RowIds,
           \A other \in RowIds \ {id} : rows'[other] = rows[other],
           rows'[id].guid = rows[id].guid
    PROVE  Custody' = [Custody EXCEPT ![rows[id].guid] = Custody'[rows[id].guid]]
<1>1. ASSUME NEW guid \in Guids, guid # rows[id].guid
      PROVE  Custody'[guid] = Custody[guid]
  <2>1. CASE Unassigned(guid)
    <3>1. Unassigned(guid)'
      BY <1>1, <2>1 DEF Unassigned
    <3> QED  BY <2>1, <3>1 DEF Entries
  <2>2. CASE ~ Unassigned(guid)
    <3>1. PICK row \in RowIds : rows[row].guid = guid /\ rows[row].status = "assigned"
      BY <2>2 DEF Unassigned
    <3>2. rows'[row] = rows[row]
      BY <1>1, <3>1
    <3> QED  BY <3>1, <3>2 DEF Entries
  <2> QED  BY <2>1, <2>2
<1>2. /\ Custody = [guid \in Guids |-> Custody[guid]]
      /\ Custody' = [guid \in Guids |-> Custody'[guid]]
  BY DEF Custody
<1> QED  BY <1>1, <1>2

LEMMA SignedChanges ==
    ASSUME NEW guid \in Guids,
           \A other \in Guids \ {guid} : files'[other] = files[other]
    PROVE  Signed' = [Signed EXCEPT ![guid] = Signed'[guid]]
<1>1. \A other \in Guids \ {guid} : Signed'[other] = Signed[other]
  BY DEF Signed
<1>2. /\ Signed = [other \in Guids |-> Signed[other]]
      /\ Signed' = [other \in Guids |-> Signed'[other]]
  BY DEF Signed
<1> QED  BY <1>1, <1>2

-------------------------------------------------------------------------------
(***************************************************************************)
(* Four steps are steps of the ledger; the others do not change it.        *)
(***************************************************************************)
LedgerStep == [Ledger!LedgerNext]_(Ledger!ledger)

LEMMA SameRowsAndFiles ==
    ASSUME LedgerInv, Entries, Entries', rows' = rows, files' = files
    PROVE  LedgerStep
<1>1. Signed' = Signed
  BY DEF Signed
<1> QED  BY <1>1, CustodyKept DEF LedgerStep, Ledger!ledger

\* The file is truncated, or written back, while the ledger shows nobody.
LEMMA SameSigned ==
    ASSUME LedgerInv, Entries, Entries', NEW guid \in Guids, rows' = rows,
           files[guid] \in {Original(guid), Torn}, files'[guid] \in {Original(guid), Torn},
           \A other \in Guids \ {guid} : files'[other] = files[other]
    PROVE  LedgerStep
<1>1. Signed[guid] = NoOne /\ Signed'[guid] = NoOne
  BY DEF Entries, Original
<1>2. Signed' = Signed
  BY <1>1, SignedChanges DEF Signed
<1> QED  BY <1>2, CustodyKept DEF LedgerStep, Ledger!ledger

LEMMA SaveWriteSignsOver ==
    ASSUME LedgerInv, Entries, Entries', NEW client \in Assigners, SaveWrite(client)
    PROVE  LedgerStep
<1>1. client \in Clients /\ ops[client].pc \notin Started
  BY DEF Clients, Assigners, Commands, SaveWrite, At, Started
<1>2. PICK guid \in Guids : guid = ops[client].rec.guid
  BY <1>1, FetchedFacts DEF LedgerInv, Guid
<1>3. /\ ops[client].pc = "save_write" /\ Goto(client, "mark") /\ "mark" \in AssignSteps
      /\ files' = [files EXCEPT ![Guid(client)] = ops[client].voucher]
      /\ rows' = rows
  BY DEF SaveWrite, At, AssignSteps
<1>4. PICK key \in NewOwners : key = ops[client].newOwner
  BY <1>1, <1>3, Writer DEF OpOK
<1>5. /\ files[guid] = Torn /\ files'[guid] = SignedTo(guid, key)
      /\ \A other \in Guids \ {guid} : files'[other] = files[other]
  BY <1>1, <1>2, <1>3, <1>4, Writer DEF OpOK, Saving, LedgerInv, TypeInv, TypeOK
<1>6. Unassigned(guid)
  BY <1>5, OnlySignedIsAssigned
<1>7. /\ Custody[guid] = NoOne /\ Signed[guid] = NoOne
      /\ Signed'[guid] = key
  BY <1>5, <1>6 DEF Entries, SignedTo
<1>8. Ledger!SignOver(guid, key)
  BY <1>3, <1>5, <1>7, SignedChanges, CustodyKept DEF Ledger!SignOver
<1> QED  BY <1>8, AssignmentAssumption DEF LedgerStep, Ledger!LedgerNext

LEMMA MarkRecords ==
    ASSUME LedgerInv, Entries, Entries', NEW client \in Assigners, Mark(client)
    PROVE  LedgerStep
<1>1. client \in Clients /\ ops[client].pc \notin Started
  BY DEF Clients, Assigners, Commands, Mark, At, Started
<1>2. PICK guid \in Guids : guid = ops[client].rec.guid
  BY <1>1, FetchedFacts DEF LedgerInv, Guid
<1>3. PICK id \in RowIds : id = ops[client].id
  BY <1>1, FetchedFacts DEF LedgerInv
<1>4. /\ ops[client].pc = "mark" /\ Goto(client, "custodian") /\ "custodian" \in AssignSteps
      /\ rows' = MarkAssigned(rows, id, ops[client].newOwner, ops[client].caller)
      /\ files' = files
  BY <1>3 DEF Mark, At, AssignSteps
<1>5. PICK key \in NewOwners : key = ops[client].newOwner
  BY <1>1, <1>4, Writer DEF OpOK
<1>6. rows[id].guid = guid /\ Unassigned(guid) /\ files[guid] = SignedTo(guid, key)
  BY <1>1, <1>2, <1>3, <1>4, <1>5, Writer DEF OpOK
<1>7. /\ rows'[id].status = "assigned" /\ rows'[id].assignedTo = key
      /\ \A other \in RowIds \ {id} : rows'[other] = rows[other]
      /\ rows'[id].guid = guid
  <2>1. rows \in [RowIds -> Rows] /\ key \in Parties /\ ops[client].caller \in Parties
    BY <1>1, <1>5, FetchedFacts DEF LedgerInv, TypeInv, TypeOK
  <2> QED  BY <1>4, <1>5, <1>6, <2>1, MarkFacts
<1>8. /\ Custody[guid] = NoOne /\ Custody'[guid] = key
      /\ Signed[guid] = key /\ Signed' = Signed /\ key # NoOne
  BY <1>4, <1>6, <1>7, AssignmentAssumption, StoreAssumption DEF Entries, Signed
<1>9. Custody' = [Custody EXCEPT ![guid] = key]
  BY <1>6, <1>7, <1>8, CustodyChanges
<1>10. Ledger!Record(guid)
  BY <1>8, <1>9 DEF Ledger!Record
<1> QED  BY <1>10 DEF LedgerStep, Ledger!LedgerNext

LEMMA UnmarkReleases ==
    ASSUME LedgerInv, LedgerInv', Entries, Entries', NEW client \in UnassignCommands,
           Unmark(client)
    PROVE  LedgerStep
<1>1. client \in Clients /\ ops[client].pc \notin Started
  BY DEF Clients, Commands, Unmark, At, Started
<1>2. PICK guid \in Guids : guid = ops[client].rec.guid
  BY <1>1, FetchedFacts DEF LedgerInv, Guid
<1>3. PICK id \in RowIds : id = ops[client].id
  BY <1>1, FetchedFacts DEF LedgerInv
<1>4. /\ ops[client].pc = "unmark" /\ Goto(client, "restore_read")
      /\ "restore_read" \in UnassignSteps
      /\ rows' = MarkUnassigned(rows, id, RestoreStatus(ops[client].rec))
      /\ files' = files
  BY <1>3 DEF Unmark, At, UnassignSteps
<1>5. rows[id].guid = guid /\ rows[id].status = "assigned"
  BY <1>1, <1>2, <1>3, <1>4, Writer DEF OpOK
<1>6. /\ rows'[id].status # "assigned" /\ rows'[id].guid = guid
      /\ \A other \in RowIds \ {id} : rows'[other] = rows[other]
  <2>1. /\ rows \in [RowIds -> Rows]
        /\ RestoreStatus(ops[client].rec) \in {"pending", "no_destination"}
    BY DEF RestoreStatus, LedgerInv, TypeInv, TypeOK
  <2>2. \A status \in {"pending", "no_destination"} : status # "assigned"
    OBVIOUS
  <2> QED  BY <1>4, <1>5, <2>1, <2>2, UnmarkFacts
<1>7. Custody[guid] # NoOne
  BY <1>5, AssignmentAssumption, StoreAssumption DEF Entries, LedgerInv, RowOK
<1>8. Custody'[guid] = NoOne
  <2>1. \A other \in RowIds : rows[other].guid = guid /\ rows[other].status = "assigned"
                                 => other = id
    BY <1>5 DEF LedgerInv, RowOK
  <2>2. Unassigned(guid)'
    BY <1>6, <2>1 DEF Unassigned
  <2> QED  BY <2>2 DEF Entries
<1>9. Signed' = Signed
  BY <1>4 DEF Signed
<1>10. Ledger!Release(guid)
  BY <1>5, <1>6, <1>7, <1>8, <1>9, CustodyChanges DEF Ledger!Release
<1> QED  BY <1>10 DEF LedgerStep, Ledger!LedgerNext

LEMMA RestoreOpenTakesBack ==
    ASSUME LedgerInv, Entries, Entries', NEW client \in UnassignCommands, RestoreOpen(client)
    PROVE  LedgerStep
<1>1. client \in Clients /\ ops[client].pc \notin Started
  BY DEF Clients, Commands, RestoreOpen, At, Started
<1>2. PICK guid \in Guids : guid = ops[client].rec.guid
  BY <1>1, FetchedFacts DEF LedgerInv, Guid
<1>3. /\ ops[client].pc = "restore_open" /\ Goto(client, "restore_write")
      /\ "restore_write" \in UnassignSteps
      /\ files' = [files EXCEPT ![Guid(client)] = Torn] /\ rows' = rows
  BY DEF RestoreOpen, At, UnassignSteps
<1>4. /\ Unassigned(guid) /\ files[guid] \in {SignedTo(guid, key) : key \in NewOwners}
      /\ files'[guid] = Torn
      /\ \A other \in Guids \ {guid} : files'[other] = files[other]
  <2>1. OpOK(client, ops[client]) /\ ops[client].rec.guid = guid /\ Guid(client) = guid
    BY <1>1, <1>2, <1>3, Writer
  <2>2. files \in [Guids -> FileContents]
    BY DEF LedgerInv, TypeInv, TypeOK
  <2> QED  BY <1>3, <2>1, <2>2 DEF OpOK, Restoring
<1>5. /\ Custody[guid] = NoOne /\ Signed[guid] # NoOne /\ Signed'[guid] = NoOne
  BY <1>4, AssignmentAssumption, StoreAssumption DEF Entries
<1>6. Ledger!TakeBack(guid)
  BY <1>3, <1>4, <1>5, SignedChanges, CustodyKept DEF Ledger!TakeBack
<1> QED  BY <1>6 DEF LedgerStep, Ledger!LedgerNext

LEMMA UnsignedFileWrites ==
    ASSUME LedgerInv, Entries, Entries', NEW client \in Clients,
           SaveOpen(client) \/ RestoreWrite(client)
    PROVE  LedgerStep
<1>1. ops[client].pc \notin Started
  BY DEF SaveOpen, RestoreWrite, At, Started
<1>2. PICK guid \in Guids : guid = ops[client].rec.guid
  BY <1>1, FetchedFacts DEF LedgerInv, Guid
<1>3. \E step \in AssignSteps \cup UnassignSteps : Goto(client, step)
  BY DEF SaveOpen, RestoreWrite, AssignSteps, UnassignSteps
<1>4. OpOK(client, ops[client]) /\ Guid(client) = guid
  BY <1>1, <1>2, <1>3, Writer
<1>5. CASE SaveOpen(client)
  <2>1. /\ files[guid] = Original(guid) /\ files'[guid] = Torn /\ rows' = rows
        /\ \A other \in Guids \ {guid} : files'[other] = files[other]
    BY <1>2, <1>4, <1>5 DEF SaveOpen, At, OpOK, BeforeSave, LedgerInv, TypeInv, TypeOK
  <2> QED  BY <2>1, SameSigned
<1>6. CASE RestoreWrite(client)
  <2>1. /\ files[guid] = Torn /\ files'[guid] = Original(guid) /\ rows' = rows
        /\ \A other \in Guids \ {guid} : files'[other] = files[other]
    BY <1>2, <1>4, <1>6 DEF RestoreWrite, At, OpOK, LedgerInv, TypeInv, TypeOK
  <2> QED  BY <2>1, SameSigned
<1> QED  BY <1>5, <1>6

LEMMA StepsOfTheLedger ==
    LedgerInv /\ LedgerInv' /\ Entries /\ Entries' /\ [Next]_vars => LedgerStep
<1> SUFFICES ASSUME LedgerInv, LedgerInv', Entries, Entries', [Next]_vars
             PROVE  LedgerStep
  OBVIOUS
<1>1. CASE rows' = rows /\ files' = files
  BY <1>1, SameRowsAndFiles
<1>2. ASSUME NEW client \in Assigners, AssignStep(client)
      PROVE  LedgerStep
  <2>1. client \in Clients
    BY DEF Assigners, Clients, Commands
  <2> QED
    BY <1>1, <1>2, <2>1, UnsignedFileWrites, SaveWriteSignsOver, MarkRecords
    DEF AssignStep, ParseAndExtend, BackupRead, BackupOpen, BackupWrite, GrantCustodian,
        GrantOwnerKey
<1>3. ASSUME NEW command \in UnassignCommands, UnassignStep(command)
      PROVE  LedgerStep
  <2>1. command \in Clients
    BY DEF Clients, Commands
  <2> QED
    BY <1>1, <1>3, <2>1, UnsignedFileWrites, UnmarkReleases, RestoreOpenTakesBack
    DEF UnassignStep, RestoreRead, RemoveBackup, RevokeGrants
<1>4. CASE UNCHANGED vars
  BY <1>1, <1>4 DEF vars
<1>5. ASSUME NEW request \in Requests, StartRequest(request) \/ CheckAccess(request)
      PROVE  LedgerStep
  BY <1>1, <1>5 DEF StartRequest, CheckAccess
<1>6. ASSUME NEW command \in Commands,
             StartBySerial(command) \/ StartByGuid(command) \/ Lookup(command)
      PROVE  LedgerStep
  BY <1>1, <1>6 DEF StartBySerial, StartByGuid, Lookup
<1>7. ASSUME NEW client \in Clients, Fetch(client)
      PROVE  LedgerStep
  BY <1>1, <1>7 DEF Fetch
<1>8. CASE Disturbance
  BY <1>1, <1>8 DEF Disturbance, StepFails, KillCommand, ServerCrash
<1> QED
  BY <1>2, <1>3, <1>4, <1>5, <1>6, <1>7, <1>8 DEF Next, Operation

LEMMA StartsEmpty == Init => Ledger!LedgerInit
<1> SUFFICES ASSUME Init PROVE Ledger!LedgerInit
  OBVIOUS
<1>1. \A guid \in Guids : Custody[guid] = NoOne
  BY InitUnassigned DEF Custody, AssignedRows
<1>2. \A guid \in Guids : Signed[guid] = NoOne
  BY DEF Init, Signed
<1> QED  BY <1>1, <1>2 DEF Ledger!LedgerInit, Custody, Signed

\* One operation at a time, failing or dying anywhere, implements the ledger of
\* CustodyLedger: SaveWrite signs over, Mark records, Unmark releases, RestoreOpen
\* takes the signature back, and no other step of handlers and commands shows.
THEOREM AssignmentImplementsLedger ==
    ASSUME OneAtATime
    PROVE  Spec => ImplementsLedger
<1>1. Spec => [](LedgerInv /\ Entries)
  BY LedgerInvHolds, EntriesHold, PTL
<1>2. Spec => [][Ledger!LedgerNext]_(Ledger!ledger)
  BY <1>1, StepsOfTheLedger, PTL DEF Spec, LedgerStep
<1>3. Spec => Ledger!LedgerInit
  BY StartsEmpty DEF Spec
<1> QED  BY <1>2, <1>3, PTL DEF ImplementsLedger, Ledger!LedgerSpec

-------------------------------------------------------------------------------
(***************************************************************************)
(* What undisturbed operations add up to.  A voucher is balanced unless    *)
(* the one operation in progress is midway through changing it, and then   *)
(* that operation knows what is left to do.                                *)
(***************************************************************************)
Reverted == UnassignSteps \ {"unmark"}
Midway == {"backup_write", "save_open", "save_write", "mark", "custodian", "owner_key"}
             \cup Reverted

OwnerKeys(guid) == {party \in Parties : <<party, "owner_key">> \in grants[guid]}

Balanced(guid) ==
    /\ Unassigned(guid) =>
          files[guid] = Original(guid) /\ backups[guid] = NoFile /\ grants[guid] = {}
    /\ \A id \in RowIds : rows[id].guid = guid /\ rows[id].status = "assigned"
                             => OwnerKeys(guid) = {rows[id].assignedTo}

OpMidway(op) ==
    LET guid == op.rec.guid IN
    /\ op.pc \in {"backup_write", "save_open", "save_write", "mark"} => grants[guid] = {}
    /\ op.pc \in {"custodian", "owner_key"} =>
          /\ rows[op.id].status = "assigned" /\ rows[op.id].assignedTo = op.newOwner
          /\ OwnerKeys(guid) = {}
    /\ op.pc \in Reverted => Unassigned(guid)
    /\ op.pc = "revoke" => files[guid] = Original(guid) /\ backups[guid] = NoFile

CalmInv ==
    /\ \A guid \in Guids :
          \/ Balanced(guid)
          \/ \E client \in Clients : ops[client].pc \in Midway /\ Guid(client) = guid
    /\ \A client \in Clients : OpMidway(ops[client])

\* A step of an operation is a step of one client.
Acts(client) ==
    \/ client \in Requests /\ (StartRequest(client) \/ CheckAccess(client))
    \/ client \in Commands /\ (StartBySerial(client) \/ StartByGuid(client) \/ Lookup(client))
    \/ Fetch(client)
    \/ client \in Assigners /\ AssignStep(client)
    \/ client \in UnassignCommands /\ UnassignStep(client)

LEMMA OneActs ==
    ASSUME TypeInv, Operation
    PROVE  \E client \in Clients :
              Acts(client) /\ \A other \in Clients \ {client} : ops'[other] = ops[other]
<1>1. PICK client \in Clients : Acts(client)
  BY DEF Operation, Acts, Clients, Commands, Assigners
<1>2. \E op : ops' = [ops EXCEPT ![client] = op]
  <2>1. CASE client \in Requests /\ (StartRequest(client) \/ CheckAccess(client))
    BY <2>1 DEF StartRequest, CheckAccess, Goto, Finish
  <2>2. CASE client \in Commands /\ (StartBySerial(client) \/ StartByGuid(client) \/ Lookup(client))
    BY <2>2 DEF StartBySerial, StartByGuid, Lookup, Finish
  <2>3. CASE Fetch(client)
    BY <2>3 DEF Fetch, Finish
  <2>4. CASE AssignStep(client)
    BY <2>4 DEF AssignStep, ParseAndExtend, BackupRead, BackupOpen, BackupWrite, SaveOpen,
                SaveWrite, Mark, GrantCustodian, GrantOwnerKey, Goto, Finish
  <2>5. CASE UnassignStep(client)
    BY <2>5 DEF UnassignStep, Unmark, RestoreRead, RestoreOpen, RestoreWrite, RemoveBackup,
                RevokeGrants, Goto, Finish
  <2> QED  BY <1>1, <2>1, <2>2, <2>3, <2>4, <2>5 DEF Acts
<1> QED  BY <1>1, <1>2 DEF TypeInv, TypeOK

\* When the operations come one at a time, the client that acts is the only one.
OthersIdle(client) ==
    \A other \in Clients \ {client} : ops[other].pc = "idle" /\ ops'[other].pc = "idle"

LEMMA OneActsAlone ==
    ASSUME Exclusive, TypeInv, Alone, Operation
    PROVE  /\ Alone'
           /\ \E client \in Clients : Acts(client) /\ OthersIdle(client)
<1>1. PICK client \in Clients :
        Acts(client) /\ \A other \in Clients \ {client} : ops'[other] = ops[other]
  BY OneActs
<1>2. ops[client].pc # "idle" \/ Quiescent
  BY <1>1 DEF Acts, StartRequest, CheckAccess, StartBySerial, StartByGuid, MayStart, Lookup, Fetch,
              AssignStep, ParseAndExtend, BackupRead, BackupOpen, BackupWrite, SaveOpen,
              SaveWrite, Mark, GrantCustodian, GrantOwnerKey, UnassignStep, Unmark, RestoreRead,
              RestoreOpen, RestoreWrite, RemoveBackup, RevokeGrants, At
<1>3. \A other \in Clients \ {client} : ops[other].pc = "idle"
  BY <1>2 DEF Alone, Quiescent, At
<1> QED  BY <1>1, <1>3 DEF Alone, OthersIdle

LEMMA CalmInit == Init => CalmInv
<1> SUFFICES ASSUME Init PROVE CalmInv
  OBVIOUS
<1>1. \A guid \in Guids : Balanced(guid)
  <2>1. \A guid \in Guids : /\ files[guid] = Original(guid) /\ backups[guid] = NoFile
                            /\ grants[guid] = {}
    BY DEF Init, Original
  <2> QED  BY <2>1, InitUnassigned DEF Balanced
<1>2. \A client \in Clients : OpMidway(ops[client])
  BY DEF Init, NoOp, OpMidway, Reverted, UnassignSteps
<1> QED  BY <1>1, <1>2 DEF CalmInv

\* Before its first change an operation finds every voucher balanced.
LEMMA CalmBefore ==
    ASSUME CalmInv, NEW client \in Clients, OthersIdle(client), ops[client].pc \notin Midway
    PROVE  \A guid \in Guids : Balanced(guid)
BY DEF CalmInv, OthersIdle, Midway, Reverted, UnassignSteps

LEMMA CalmKept ==
    ASSUME CalmInv, NEW client \in Clients, OthersIdle(client),
           UNCHANGED <<rows, grants, files, backups>>,
           ops[client].pc \notin Midway, ops'[client].pc \notin Midway
    PROVE  CalmInv'
<1>1. \A guid \in Guids : Balanced(guid)'
  BY CalmBefore DEF Balanced, Unassigned, OwnerKeys, Original
<1>2. \A other \in Clients : ops'[other].pc \notin Midway
  BY DEF OthersIdle, Midway, Reverted, UnassignSteps
<1>3. \A other \in Clients : OpMidway(ops[other])'
  BY <1>2 DEF OpMidway, Midway, Reverted, UnassignSteps
<1> QED  BY <1>1, <1>3 DEF CalmInv

\* A step of an operation on one voucher leaves the others as they were.
LEMMA CalmTurn ==
    ASSUME TypeInv, CalmInv, NEW client \in Clients, OthersIdle(client),
           NEW guid \in Guids, Guid(client) = guid,
           \A other \in Guids \ {guid} : /\ files'[other] = files[other]
                                         /\ backups'[other] = backups[other]
                                         /\ grants'[other] = grants[other],
           \A id \in RowIds : /\ rows'[id].guid = rows[id].guid
                              /\ rows[id].guid # guid => rows'[id] = rows[id],
           Balanced(guid)' \/ (ops'[client].pc \in Midway /\ Guid(client)' = guid),
           OpMidway(ops[client])'
    PROVE  CalmInv'
<1>1. ASSUME NEW other \in Guids \ {guid}
      PROVE  Balanced(other)'
  <2>1. Balanced(other)
    BY DEF CalmInv, OthersIdle, Midway, Reverted, UnassignSteps
  <2> QED  BY <2>1 DEF Balanced, Unassigned, OwnerKeys, Original
<1>2. ASSUME NEW other \in Clients \ {client}
      PROVE  OpMidway(ops[other])'
  BY DEF OthersIdle, OpMidway, Reverted, UnassignSteps
<1> QED  BY <1>1, <1>2 DEF CalmInv

\* Up to the read of the backup an operation changes nothing.
LEMMA CalmPreparation ==
    ASSUME TypeInv, CalmInv, Next, NEW client \in Clients, OthersIdle(client),
           ops[client].pc \in Started \cup {"access", "parse", "backup_read"},
           UNCHANGED <<rows, grants, files, backups>>
    PROVE  CalmInv'
<1>1. Move(client, ops[client], ops'[client])
  BY Moves
<1>2. ops[client].pc \notin Midway
  BY DEF Started, Midway, Reverted, UnassignSteps
<1>3. ops'[client].pc \notin Midway
  BY <1>1 DEF Move, Started, Midway, Reverted, UnassignSteps, NoOp
<1> QED  BY <1>2, <1>3, CalmKept

\* A writing step of an operation that stays midway.
LEMMA CalmWrite ==
    ASSUME LedgerInv, CalmInv, NEW client \in Clients, OthersIdle(client),
           ops[client].pc \notin Started, UNCHANGED <<rows, grants>>,
           \A guid \in Guids \ {Guid(client)} :
              files'[guid] = files[guid] /\ backups'[guid] = backups[guid],
           NEW step \in Midway, Goto(client, step), OpMidway(ops[client])'
    PROVE  CalmInv'
<1>1. step \in AssignSteps \cup UnassignSteps
  BY DEF Midway, Reverted, AssignSteps
<1>2. Guid(client) \in Guids /\ Goes(client, step)
  BY <1>1, Writer
<1>3. PICK guid \in Guids : guid = Guid(client)
  BY <1>2
<1>4. ops'[client].pc \in Midway /\ Guid(client)' = guid
  BY <1>2, <1>3 DEF Goes, Guid
<1> QED  BY <1>3, <1>4, CalmTurn DEF LedgerInv

LEMMA CalmSaves ==
    ASSUME LedgerInv, CalmInv, NEW client \in Assigners, client \in Clients, OthersIdle(client),
           BackupOpen(client) \/ BackupWrite(client) \/ SaveOpen(client) \/ SaveWrite(client)
    PROVE  CalmInv'
<1>1. PICK step \in {"backup_write", "save_open", "save_write", "mark"} : Goto(client, step)
  BY DEF BackupOpen, BackupWrite, SaveOpen, SaveWrite
<1>2. ops[client].pc \in {"backup_open", "backup_write", "save_open", "save_write"}
  BY DEF BackupOpen, BackupWrite, SaveOpen, SaveWrite, At
<1>3. /\ UNCHANGED <<rows, grants>>
      /\ \A guid \in Guids \ {Guid(client)} :
            files'[guid] = files[guid] /\ backups'[guid] = backups[guid]
  BY DEF BackupOpen, BackupWrite, SaveOpen, SaveWrite, LedgerInv, TypeInv, TypeOK
<1>4. /\ OpOK(client, ops[client]) /\ Goes(client, step)
      /\ ops[client].rec.guid \in Guids /\ ops[client].pc \notin Started
  BY <1>1, <1>2, Writer DEF Started, AssignSteps
<1>5. grants[ops[client].rec.guid] = {}
  <2>1. CASE ops[client].pc = "backup_open"
    <3>1. Balanced(ops[client].rec.guid)
      BY <1>4, <2>1, CalmBefore DEF Midway, Reverted, UnassignSteps
    <3>2. Unassigned(ops[client].rec.guid)
      BY <1>4, <2>1, OnlySignedIsAssigned DEF OpOK, BeforeSave
    <3> QED  BY <3>1, <3>2 DEF Balanced
  <2> QED  BY <1>2, <2>1 DEF CalmInv, OpMidway
<1>6. OpMidway(ops[client])'
  BY <1>1, <1>3, <1>4, <1>5 DEF OpMidway, Goes, Reverted, UnassignSteps
<1> QED  BY <1>1, <1>3, <1>4, <1>6, CalmWrite DEF Midway

LEMMA CalmMark ==
    ASSUME LedgerInv, CalmInv, NEW client \in Assigners, client \in Clients, OthersIdle(client),
           Mark(client)
    PROVE  CalmInv'
<1>1. ops[client].pc = "mark" /\ ops[client].pc \notin Started /\ Goto(client, "custodian")
  BY DEF Mark, At, Started
<1>2. /\ Goes(client, "custodian") /\ ops[client].rec.guid \in Guids
      /\ Guid(client) = ops[client].rec.guid
  BY <1>1, Writer DEF AssignSteps
<1>3. /\ ops[client].id \in RowIds /\ rows[ops[client].id].guid = Guid(client)
      /\ ops[client].newOwner \in Parties /\ ops[client].caller \in Parties
  BY <1>1, FetchedFacts DEF LedgerInv
<1>4. /\ rows'[ops[client].id].status = "assigned"
      /\ rows'[ops[client].id].assignedTo = ops[client].newOwner
      /\ \A id \in RowIds \ {ops[client].id} : rows'[id] = rows[id]
      /\ \A id \in RowIds : rows'[id].guid = rows[id].guid
  BY <1>3, MarkFacts DEF Mark, LedgerInv, TypeInv, TypeOK
<1>5. grants' = grants /\ files' = files /\ backups' = backups
  BY DEF Mark
<1>6. OwnerKeys(ops[client].rec.guid)' = {}
  BY <1>1, <1>2, <1>5 DEF CalmInv, OpMidway, OwnerKeys, Goes
<1>7. ops'[client].id = ops[client].id
  BY <1>1, GotoFields DEF LedgerInv, Steps, AssignSteps
<1>8. OpMidway(ops[client])'
  BY <1>2, <1>4, <1>6, <1>7 DEF OpMidway, Goes, Reverted, UnassignSteps
<1>9. ops'[client].pc \in Midway /\ Guid(client)' = Guid(client)
  BY <1>2 DEF Goes, Midway, Guid
<1>10. PICK guid \in Guids : guid = Guid(client)
  BY <1>2
<1>11. \A id \in RowIds : rows[id].guid # guid => rows'[id] = rows[id]
  BY <1>3, <1>4, <1>10
<1> QED  BY <1>4, <1>5, <1>8, <1>9, <1>10, <1>11, CalmTurn DEF LedgerInv

LEMMA CalmCustodian ==
    ASSUME LedgerInv, CalmInv, NEW client \in Assigners, client \in Clients, OthersIdle(client),
           GrantCustodian(client)
    PROVE  CalmInv'
<1>1. /\ ops[client].pc = "custodian" /\ ops[client].pc \notin Started
      /\ Goto(client, "owner_key")
  BY DEF GrantCustodian, At, Started
<1>2. /\ Goes(client, "owner_key") /\ ops[client].rec.guid \in Guids
      /\ Guid(client) = ops[client].rec.guid
  BY <1>1, Writer DEF AssignSteps
<1>3. PICK guid \in Guids : guid = Guid(client)
  BY <1>2
<1>4. /\ rows' = rows /\ files' = files /\ backups' = backups
      /\ grants'[guid] = grants[guid] \cup {<<ops[client].caller, "custodian">>}
      /\ \A other \in Guids \ {guid} : grants'[other] = grants[other]
  BY <1>3 DEF GrantCustodian, InsertAccessGrant, LedgerInv, TypeInv, TypeOK
<1>5. OpMidway(ops[client])
  BY DEF CalmInv
<1>6. OwnerKeys(guid)' = {}
  BY <1>1, <1>2, <1>3, <1>4, <1>5 DEF OpMidway, OwnerKeys
<1>7. ops'[client].id = ops[client].id
  BY <1>1, GotoFields DEF LedgerInv, Steps, AssignSteps
<1>8. OpMidway(ops[client])'
  BY <1>1, <1>2, <1>3, <1>4, <1>5, <1>6, <1>7 DEF OpMidway, Goes, OwnerKeys, Reverted, UnassignSteps
<1>9. ops'[client].pc \in Midway /\ Guid(client)' = guid
  BY <1>2, <1>3 DEF Goes, Midway, Guid
<1> QED  BY <1>3, <1>4, <1>8, <1>9, CalmTurn DEF LedgerInv

\* The last step of an assignment balances the voucher.
LEMMA CalmOwnerKey ==
    ASSUME LedgerInv, CalmInv, NEW client \in Assigners, client \in Clients, OthersIdle(client),
           GrantOwnerKey(client)
    PROVE  CalmInv'
<1>1. ops[client].pc = "owner_key" /\ ops[client].pc \notin Started
  BY DEF GrantOwnerKey, At, Started
<1>2. PICK guid \in Guids : guid = Guid(client) /\ guid = ops[client].rec.guid
  BY <1>1, FetchedFacts DEF Guid, LedgerInv
<1>3. /\ ops[client].id \in RowIds /\ rows[ops[client].id].guid = guid
      /\ ops[client].newOwner \in Parties
  BY <1>1, <1>2, FetchedFacts DEF LedgerInv
<1>4. /\ rows' = rows /\ files' = files /\ backups' = backups
      /\ grants'[guid] = grants[guid] \cup {<<ops[client].newOwner, "owner_key">>}
      /\ \A other \in Guids \ {guid} : grants'[other] = grants[other]
  BY <1>2 DEF GrantOwnerKey, InsertAccessGrant, LedgerInv, TypeInv, TypeOK
<1>5. OpMidway(ops[client])
  BY DEF CalmInv
<1>6. OwnerKeys(guid)' = {ops[client].newOwner}
  <2>1. OwnerKeys(guid) = {}
    BY <1>1, <1>2, <1>5 DEF OpMidway
  <2> QED  BY <1>3, <1>4, <2>1 DEF OwnerKeys
<1>7. ASSUME NEW id \in RowIds, rows[id].guid = guid, rows[id].status = "assigned"
      PROVE  rows[id].assignedTo = ops[client].newOwner
  <2>1. id = ops[client].id
    BY <1>1, <1>3, <1>5, <1>7 DEF OpMidway, LedgerInv, RowOK
  <2> QED  BY <1>1, <1>5, <2>1 DEF OpMidway
<1>8. Balanced(guid)'
  BY <1>1, <1>3, <1>4, <1>5, <1>6, <1>7 DEF Balanced, Unassigned, OpMidway
<1>9. ops'[client].pc = "idle"
  BY FinishType DEF GrantOwnerKey, LedgerInv, TypeInv, NoOp
<1>10. OpMidway(ops[client])'
  BY <1>9 DEF OpMidway, Reverted, UnassignSteps
<1> QED  BY <1>2, <1>4, <1>8, <1>10, CalmTurn DEF LedgerInv

LEMMA CalmUnmark ==
    ASSUME LedgerInv, CalmInv, NEW command \in UnassignCommands, command \in Clients,
           OthersIdle(command), Unmark(command)
    PROVE  CalmInv'
<1>1. /\ ops[command].pc = "unmark" /\ ops[command].pc \notin Started
      /\ Goto(command, "restore_read")
  BY DEF Unmark, At, Started
<1>2. /\ Goes(command, "restore_read") /\ OpOK(command, ops[command])
      /\ Guid(command) = ops[command].rec.guid
  BY <1>1, Writer DEF UnassignSteps
<1>3. PICK guid \in Guids : guid = Guid(command)
  BY <1>1, FetchedFacts DEF LedgerInv
<1>4. /\ ops[command].id \in RowIds /\ rows[ops[command].id].guid = guid
      /\ rows[ops[command].id].status = "assigned"
  BY <1>1, <1>2, <1>3, FetchedFacts DEF LedgerInv, OpOK
<1>5. /\ rows'[ops[command].id].status # "assigned"
      /\ \A id \in RowIds \ {ops[command].id} : rows'[id] = rows[id]
      /\ \A id \in RowIds : rows'[id].guid = rows[id].guid
  <2>1. RestoreStatus(ops[command].rec) \in {"pending", "no_destination"}
    BY DEF RestoreStatus
  <2> QED  BY <1>4, <2>1, UnmarkFacts DEF Unmark, LedgerInv, TypeInv, TypeOK
<1>6. Unassigned(guid)'
  BY <1>4, <1>5 DEF Unassigned, LedgerInv, RowOK
<1>7. grants' = grants /\ files' = files /\ backups' = backups
  BY DEF Unmark
<1>8. OpMidway(ops[command])'
  BY <1>2, <1>3, <1>6 DEF OpMidway, Goes, Unassigned
<1>9. ops'[command].pc \in Midway /\ Guid(command)' = guid
  BY <1>2, <1>3 DEF Goes, Midway, Reverted, UnassignSteps, Guid
<1>10. \A id \in RowIds : rows[id].guid # guid => rows'[id] = rows[id]
  BY <1>4, <1>5
<1> QED  BY <1>3, <1>5, <1>7, <1>8, <1>9, <1>10, CalmTurn DEF LedgerInv

\* The backup is there when it is restored, so no step of it is left out.
LEMMA CalmRestore ==
    ASSUME LedgerInv, CalmInv, NEW command \in UnassignCommands, command \in Clients,
           OthersIdle(command),
           \/ RestoreRead(command) \/ RestoreOpen(command)
           \/ RestoreWrite(command) \/ RemoveBackup(command)
    PROVE  CalmInv'
<1>1. /\ ops[command].pc \in {"restore_read", "restore_open", "restore_write", "remove_backup"}
      /\ ops[command].pc \notin Started /\ ops[command] \in Ops
  BY DEF RestoreRead, RestoreOpen, RestoreWrite, RemoveBackup, At, Started, LedgerInv, TypeInv,
         TypeOK
<1>2. PICK guid \in Guids : guid = Guid(command) /\ guid = ops[command].rec.guid
  BY <1>1, FetchedFacts DEF LedgerInv, Guid
<1>3. OpOK(command, ops[command]) /\ OpMidway(ops[command])
  BY DEF LedgerInv, CalmInv
<1>4. Unassigned(guid)
  BY <1>1, <1>2, <1>3 DEF OpMidway, Reverted, UnassignSteps
<1>5. /\ rows' = rows /\ grants' = grants
      /\ \A other \in Guids \ {guid} :
            files'[other] = files[other] /\ backups'[other] = backups[other]
  BY <1>2 DEF RestoreRead, RestoreOpen, RestoreWrite, RemoveBackup, LedgerInv, TypeInv, TypeOK
<1>6. /\ ops'[command].pc \in Reverted /\ ops'[command].rec = ops[command].rec
      /\ ops'[command].pc = "revoke" => RemoveBackup(command)
  <2>1. CASE RestoreOpen(command) \/ RestoreWrite(command) \/ RemoveBackup(command)
    BY <2>1, GotoFields
    DEF RestoreOpen, RestoreWrite, RemoveBackup, Reverted, UnassignSteps, Steps, LedgerInv
  <2>2. CASE RestoreRead(command)
    <3>1. backups[guid] # NoFile
      BY <1>2, <1>3, <2>2, SignedFacts, StoreAssumption
      DEF OpOK, RestoreRead, At, Restoring
    <3>2. ops' = [ops EXCEPT ![command].pc = "restore_open", ![command].data = backups[guid]]
      BY <1>2, <2>2, <3>1 DEF RestoreRead
    <3> QED  BY <1>1, <3>2 DEF LedgerInv, TypeInv, TypeOK, Ops, Reverted, UnassignSteps
  <2> QED  BY <2>1, <2>2
<1>7. RemoveBackup(command) => files'[guid] = Original(guid) /\ backups'[guid] = NoFile
  BY <1>2, <1>3 DEF RemoveBackup, At, OpOK, LedgerInv, TypeInv, TypeOK
<1>8. OpMidway(ops[command])'
  BY <1>2, <1>4, <1>5, <1>6, <1>7
  DEF OpMidway, Unassigned, Original, Reverted, UnassignSteps
<1>9. ops'[command].pc \in Midway /\ Guid(command)' = guid
  BY <1>2, <1>6 DEF Midway, Guid
<1> QED  BY <1>2, <1>5, <1>8, <1>9, CalmTurn DEF LedgerInv

LEMMA CalmRevoke ==
    ASSUME LedgerInv, CalmInv, NEW command \in UnassignCommands, command \in Clients,
           OthersIdle(command), RevokeGrants(command)
    PROVE  CalmInv'
<1>1. ops[command].pc = "revoke" /\ ops[command].pc \notin Started
  BY DEF RevokeGrants, At, Started
<1>2. PICK guid \in Guids : guid = Guid(command) /\ guid = ops[command].rec.guid
  BY <1>1, FetchedFacts DEF LedgerInv, Guid
<1>3. /\ rows' = rows /\ files' = files /\ backups' = backups /\ grants'[guid] = {}
      /\ \A other \in Guids \ {guid} : grants'[other] = grants[other]
  BY <1>2 DEF RevokeGrants, RemoveAccessGrantsForVoucher, LedgerInv, TypeInv, TypeOK
<1>4. /\ Unassigned(guid) /\ files[guid] = Original(guid) /\ backups[guid] = NoFile
  BY <1>1, <1>2 DEF CalmInv, OpMidway, Reverted, UnassignSteps
<1>5. Balanced(guid)'
  BY <1>3, <1>4 DEF Balanced, Unassigned, Original
<1>6. ops'[command].pc = "idle"
  BY FinishType DEF RevokeGrants, LedgerInv, TypeInv, NoOp
<1>7. OpMidway(ops[command])'
  BY <1>6 DEF OpMidway, Reverted, UnassignSteps
<1> QED  BY <1>2, <1>3, <1>5, <1>7, CalmTurn DEF LedgerInv

LEMMA CalmStep ==
    ASSUME OneAtATime, LedgerInv, CalmInv, Operation
    PROVE  CalmInv'
<1>1. TypeInv /\ Next /\ Exclusive
  BY DEF LedgerInv, Next, OneAtATime
<1>2. PICK client \in Clients : Acts(client) /\ OthersIdle(client)
  BY <1>1, OneActsAlone DEF LedgerInv
<1>3. CASE \/ client \in Requests /\ (StartRequest(client) \/ CheckAccess(client))
           \/ client \in Commands /\ (StartBySerial(client) \/ StartByGuid(client) \/ Lookup(client))
           \/ Fetch(client) \/ ParseAndExtend(client) \/ BackupRead(client)
  <2>1. /\ ops[client].pc \in Started \cup {"access", "parse", "backup_read"}
        /\ UNCHANGED <<rows, grants, files, backups>>
    BY <1>3 DEF StartRequest, CheckAccess, StartBySerial, StartByGuid, Lookup, Fetch,
                ParseAndExtend, BackupRead, MayStart, At, Started
  <2> QED  BY <1>1, <1>2, <2>1, CalmPreparation
<1>4. CASE client \in Assigners /\ AssignStep(client)
  BY <1>2, <1>3, <1>4, CalmSaves, CalmMark, CalmCustodian, CalmOwnerKey DEF AssignStep
<1>5. CASE client \in UnassignCommands /\ UnassignStep(client)
  BY <1>2, <1>5, CalmUnmark, CalmRestore, CalmRevoke DEF UnassignStep
<1> QED  BY <1>2, <1>3, <1>4, <1>5 DEF Acts

LEMMA CalmUnchanged ==
    ASSUME CalmInv, UNCHANGED vars
    PROVE  CalmInv'
<1>1. \A guid \in Guids : /\ Balanced(guid)' <=> Balanced(guid)
                          /\ Unassigned(guid)' <=> Unassigned(guid)
  BY DEF vars, Balanced, Unassigned, OwnerKeys, Original
<1>2. \A client \in Clients : OpMidway(ops[client])'
  <2> SUFFICES ASSUME NEW client \in Clients PROVE OpMidway(ops[client])'
    OBVIOUS
  <2>1. OpMidway(ops[client])
    BY DEF CalmInv
  <2> QED  BY <2>1 DEF vars, OpMidway, Unassigned, OwnerKeys, Original
<1> QED  BY <1>1, <1>2 DEF vars, CalmInv, Guid

\* Between operations every voucher is balanced.
LEMMA CalmSettles ==
    ASSUME LedgerInv, CalmInv
    PROVE  Settled
<1> SUFFICES ASSUME Quiescent, NEW guid \in Guids
             PROVE  LET customer == Custody[guid]
                        ownerKeys == {party \in Parties : <<party, "owner_key">> \in grants[guid]}
                    IN IF customer = NoOne
                         THEN /\ files[guid] = OriginalOf[guid]
                              /\ backups[guid] = NoFile
                              /\ grants[guid] = {}
                         ELSE /\ files[guid] = ExtendVoucher(OriginalOf[guid], customer)
                              /\ backups[guid] = OriginalOf[guid]
                              /\ ownerKeys = {customer}
  BY DEF Settled
<1>1. Balanced(guid)
  BY DEF CalmInv, Quiescent, At, Midway, Reverted, UnassignSteps
<1>2. CASE Unassigned(guid)
  <2>1. Custody[guid] = NoOne
    BY <1>2, EntriesHold DEF Entries
  <2> QED  BY <1>1, <1>2, <2>1 DEF Balanced, Original
<1>3. CASE ~ Unassigned(guid)
  <2>1. PICK id \in RowIds : rows[id].guid = guid /\ rows[id].status = "assigned"
    BY <1>3 DEF Unassigned
  <2>2. /\ Custody[guid] = rows[id].assignedTo /\ RowOK(id)
        /\ OwnerKeys(guid) = {rows[id].assignedTo}
    BY <1>1, <2>1, EntriesHold DEF Entries, LedgerInv, Balanced
  <2>3. rows[id].assignedTo # NoOne
    BY <2>1, <2>2, StoreAssumption, AssignmentAssumption DEF RowOK
  <2> QED  BY <2>1, <2>2, <2>3 DEF RowOK, Original, SignedTo, OwnerKeys
<1> QED  BY <1>2, <1>3

\* Operations that come one at a time and are not disturbed leave record, file, backup
\* and grants in agreement, however often a voucher is assigned and unassigned: every
\* assignment ends with the one owner_key grant of its customer, every unassignment
\* with the original, no backup and no grant.
THEOREM UndisturbedSettles ==
    ASSUME OneAtATime
    PROVE  ObservedSpec => []SettledUnlessDisturbed
<1> DEFINE Inv == LedgerInv /\ (disturbed \/ CalmInv)
<1>1. ObservedInit => Inv
  BY LedgerInvInit, CalmInit DEF ObservedInit
<1>2. Inv /\ [ObservedNext]_<<vars, disturbed>> => Inv'
  <2> SUFFICES ASSUME Inv, [ObservedNext]_<<vars, disturbed>> PROVE Inv'
    OBVIOUS
  <2>1. LedgerInv'
    BY LedgerInvStep DEF ObservedNext, Next
  <2>2. CASE Operation /\ UNCHANGED disturbed
    BY <2>1, <2>2, CalmStep
  <2>3. CASE disturbed' = TRUE
    BY <2>1, <2>3
  <2>4. CASE UNCHANGED <<vars, disturbed>>
    BY <2>1, <2>4, CalmUnchanged DEF vars
  <2> QED  BY <2>2, <2>3, <2>4 DEF ObservedNext
<1>3. Inv => SettledUnlessDisturbed
  BY CalmSettles DEF SettledUnlessDisturbed
<1> QED  BY <1>1, <1>2, <1>3, PTL DEF ObservedSpec
===============================================================================
