------------------------ MODULE VoucherAssignmentProofs ------------------------
(***************************************************************************)
(* Proofs about VoucherAssignment.                                         *)
(***************************************************************************)
EXTENDS VoucherAssignment, TLAPS

\* What the steps of an operation rely on beyond TypeOK: which actor takes
\* which steps, and what the operation has found out by then.
Started == {"idle", "lookup", "fetch"}

OpsOK ==
    \A client \in Clients :
       LET op == ops[client] IN
       /\ op.pc \in AssignSteps => client \in Assigners
       /\ op.pc \in UnassignSteps => client \in UnassignCommands
       /\ op.pc = "access" => client \in Requests
       /\ op.pc # "idle" => op.caller \in Parties
       /\ op.pc # "idle" /\ client \in Assigners => op.newOwner \in Parties
       /\ op.pc \notin Started =>
             op.id \in RowIds /\ op.rec \in Rows /\ op.rec.guid = rows[op.id].guid

TypeInv == TypeOK /\ OpsOK

LEMMA ChainFacts ==
    /\ \A chain \in Chains, key \in Parties :
          /\ ExtendVoucher(chain, key) \in Chains
          /\ Tip(ExtendVoucher(chain, key)) = key
          /\ Tip(chain) \in Parties
    /\ NoFile \notin Chains /\ Torn \notin Chains
    /\ \A key \in Parties : <<key>> \in Chains /\ Len(<<key>>) = 1
  BY StoreAssumption DEF Chains, ExtendVoucher, Tip

LEMMA MarkFacts ==
    ASSUME NEW table \in [RowIds -> Rows], NEW id \in RowIds,
           NEW newOwner \in Parties, NEW assigner \in Parties
    PROVE  LET marked == MarkAssigned(table, id, newOwner, assigner) IN
           /\ marked \in [RowIds -> Rows]
           /\ marked[id].status = "assigned" /\ marked[id].assignedTo = newOwner
           /\ \A other \in RowIds \ {id} : marked[other] = table[other]
           /\ \A other \in RowIds : /\ marked[other].guid = table[other].guid
                                   /\ marked[other].owner = table[other].owner
                                   /\ marked[other].serial = table[other].serial
  <1> DEFINE row == [table[id] EXCEPT !.status = "assigned", !.assignedTo = newOwner,
                                      !.assignedBy = assigner]
  <1>1. /\ row \in Rows /\ row.status = "assigned" /\ row.assignedTo = newOwner
        /\ row.guid = table[id].guid /\ row.owner = table[id].owner /\ row.serial = table[id].serial
    BY DEF Rows, Statuses
  <1>2. MarkAssigned(table, id, newOwner, assigner) = [table EXCEPT ![id] = row]
    BY DEF MarkAssigned
  <1> HIDE DEF row
  <1>3. QED
    BY <1>1, <1>2

LEMMA UnmarkFacts ==
    ASSUME NEW table \in [RowIds -> Rows], NEW id \in RowIds,
           NEW status \in {"pending", "no_destination"}
    PROVE  LET unmarked == MarkUnassigned(table, id, status) IN
           /\ unmarked \in [RowIds -> Rows]
           /\ unmarked[id].status = status /\ unmarked[id].assignedTo = NoOne
           /\ \A other \in RowIds \ {id} : unmarked[other] = table[other]
           /\ \A other \in RowIds : /\ unmarked[other].guid = table[other].guid
                                   /\ unmarked[other].owner = table[other].owner
                                   /\ unmarked[other].serial = table[other].serial
  <1> DEFINE row == [table[id] EXCEPT !.status = status, !.assignedTo = NoOne,
                                      !.assignedBy = NoOne]
  <1>1. /\ row \in Rows /\ row.status = status /\ row.assignedTo = NoOne
        /\ row.guid = table[id].guid /\ row.owner = table[id].owner /\ row.serial = table[id].serial
    BY DEF Rows, Statuses
  <1>2. MarkUnassigned(table, id, status) = [table EXCEPT ![id] = row]
    BY DEF MarkUnassigned
  <1> HIDE DEF row
  <1>3. QED
    BY <1>1, <1>2

LEMMA NoOpType == NoOp \in Ops
  BY StoreAssumption DEF NoOp, Ops, Steps, FileContents, AssignSteps, UnassignSteps

LEMMA GotoType ==
    ASSUME TypeOK, NEW client \in Clients, NEW step \in Steps, Goto(client, step)
    PROVE  /\ ops' \in [Clients -> Ops]
           /\ ops'[client] = [ops[client] EXCEPT !.pc = step]
           /\ \A other \in Clients \ {client} : ops'[other] = ops[other]
  BY DEF TypeOK, Ops, Goto

LEMMA FinishType ==
    ASSUME TypeOK, NEW client \in Clients, Finish(client)
    PROVE  /\ ops' \in [Clients -> Ops]
           /\ ops'[client] = NoOp
           /\ \A other \in Clients \ {client} : ops'[other] = ops[other]
  BY NoOpType DEF TypeOK, Finish

LEMMA InitType == Init => TypeInv
  <1> SUFFICES ASSUME Init PROVE TypeInv
    OBVIOUS
  <1>1. rows \in [RowIds -> Rows]
    <2>1. PICK column \in [RowIds -> {<<"pending", FALSE>>}
                                    \cup ({"pending", "failed", "succeeded"} \X {TRUE})] :
            rows = [id \in RowIds |->
                      [guid |-> GuidOf[id], serial |-> SerialOf[id], owner |-> OwnerOf[id],
                       status |-> column[id][1], hasDestination |-> column[id][2],
                       assignedTo |-> NoOne, assignedBy |-> NoOne]]
      BY DEF Init
    <2>2. ASSUME NEW id \in RowIds
          PROVE  column[id][1] \in Statuses /\ column[id][2] \in BOOLEAN
      <3>1. CASE column[id] = <<"pending", FALSE>>
        BY <3>1 DEF Statuses
      <3>2. CASE column[id] \in {"pending", "failed", "succeeded"} \X {TRUE}
        BY <3>2 DEF Statuses
      <3>3. QED
        BY <3>1, <3>2
    <2>3. QED
      BY <2>1, <2>2, AssignmentAssumption DEF Rows
  <1>2. files \in [Guids -> FileContents]
    BY ChainFacts, AssignmentAssumption DEF Init, FileContents
  <1>3. ops \in [Clients -> Ops]
    BY NoOpType DEF Init
  <1>4. OpsOK
    BY DEF Init, OpsOK, NoOp, AssignSteps, UnassignSteps, Started
  <1>5. QED
    BY <1>1, <1>2, <1>3, <1>4 DEF Init, TypeInv, TypeOK, FileContents

-------------------------------------------------------------------------------
(***************************************************************************)
(* Type correctness: one lemma per group of actions.                       *)
(***************************************************************************)
Shared == <<rows, grants, files, backups, saved>>

\* An action that only moves operations keeps TypeInv if ops' is well formed.
LEMMA OnlyOps ==
    ASSUME TypeInv, UNCHANGED Shared, ops' \in [Clients -> Ops], OpsOK'
    PROVE  TypeInv'
  BY DEF TypeInv, TypeOK, Shared

LEMMA StartType ==
    ASSUME TypeInv, NEW client \in Clients, UNCHANGED Shared,
           \/ client \in Requests /\ StartRequest(client)
           \/ client \in Commands /\ (StartBySerial(client) \/ StartByGuid(client))
    PROVE  TypeInv'
  <1> DEFINE Fresh(op) == /\ op \in Ops
                          /\ op.pc \in {"fetch", "lookup"}
                          /\ op.caller \in Parties
                          /\ client \in Assigners => op.newOwner \in Parties
         Begun == \E op : Fresh(op) /\ ops' = [ops EXCEPT ![client] = op]
  <1> USE NoOpType, AssignmentAssumption DEF NoOp, Ops, Steps, Commands, Assigners
  <1>a. ASSUME client \in Requests, StartRequest(client)
        PROVE  Begun
    <2>1. PICK serial \in Serials, caller \in Callers \cup {Global}, key \in NewOwners :
            ops' = [ops EXCEPT ![client] = [NoOp EXCEPT !.pc = "fetch",
                      !.serial = serial, !.caller = caller, !.newOwner = key]]
      BY <1>a DEF StartRequest
    <2>2. Fresh([NoOp EXCEPT !.pc = "fetch", !.serial = serial,
                             !.caller = caller, !.newOwner = key])
      OBVIOUS
    <2>3. QED
      BY <2>1, <2>2
  <1>b. ASSUME client \in Commands, StartBySerial(client)
        PROVE  Begun
    <2> DEFINE Customer(key) == IF client \in AssignCommands THEN key ELSE NoOne
    <2>1. PICK serial \in Serials, key \in NewOwners :
            ops' = [ops EXCEPT ![client] = [NoOp EXCEPT !.pc = "fetch",
                      !.serial = serial, !.caller = CliOperator, !.newOwner = Customer(key)]]
      BY <1>b DEF StartBySerial
    <2>2. Fresh([NoOp EXCEPT !.pc = "fetch", !.serial = serial,
                             !.caller = CliOperator, !.newOwner = Customer(key)])
      <3>1. Customer(key) \in Parties \cup {NoOne}
        OBVIOUS
      <3>2. client \in Assigners => Customer(key) \in Parties
        BY <1>b
      <3> HIDE DEF Customer
      <3>3. QED
        BY <3>1, <3>2
    <2>3. QED
      BY <2>1, <2>2
  <1>c. ASSUME client \in Commands, StartByGuid(client)
        PROVE  Begun
    <2> DEFINE Customer(key) == IF client \in AssignCommands THEN key ELSE NoOne
    <2>1. PICK guid \in Guids, key \in NewOwners :
            ops' = [ops EXCEPT ![client] = [NoOp EXCEPT !.pc = "lookup",
                      !.wanted = guid, !.caller = CliOperator, !.newOwner = Customer(key)]]
      BY <1>c DEF StartByGuid
    <2>2. Fresh([NoOp EXCEPT !.pc = "lookup", !.wanted = guid,
                             !.caller = CliOperator, !.newOwner = Customer(key)])
      <3>1. Customer(key) \in Parties \cup {NoOne}
        OBVIOUS
      <3>2. client \in Assigners => Customer(key) \in Parties
        BY <1>c
      <3> HIDE DEF Customer
      <3>3. QED
        BY <3>1, <3>2
    <2>3. QED
      BY <2>1, <2>2
  <1>1. PICK op : Fresh(op) /\ ops' = [ops EXCEPT ![client] = op]
    BY <1>a, <1>b, <1>c
  <1>2. ops' \in [Clients -> Ops]
    BY <1>1 DEF TypeInv, TypeOK
  <1>3. OpsOK'
    BY <1>1 DEF TypeInv, TypeOK, OpsOK, AssignSteps, UnassignSteps, Started, Shared
  <1>4. QED
    BY <1>2, <1>3, OnlyOps

\* Moving one operation on, or ending it, keeps OpsOK.
LEMMA OpsKept ==
    ASSUME TypeInv, NEW client \in Clients, ops' \in [Clients -> Ops],
           \A other \in Clients \ {client} : ops'[other] = ops[other],
           \A id \in RowIds : rows'[id].guid = rows[id].guid,
           LET old == ops[client]  new == ops'[client] IN
           \/ new = NoOp
           \/ /\ old.pc # "idle" /\ new.pc # "idle"
              /\ new.pc \in AssignSteps => client \in Assigners
              /\ new.pc \in UnassignSteps => client \in UnassignCommands
              /\ new.pc = "access" => client \in Requests
              /\ new.caller = old.caller /\ new.newOwner = old.newOwner
              /\ new.pc \notin Started =>
                    \/ old.pc \notin Started /\ new.id = old.id /\ new.rec = old.rec
                    \/ /\ new.id \in RowIds /\ new.rec \in Rows
                       /\ new.rec.guid = rows[new.id].guid
    PROVE  OpsOK'
  <1> SUFFICES ASSUME NEW other \in Clients
               PROVE  LET op == ops'[other] IN
                      /\ op.pc \in AssignSteps => other \in Assigners
                      /\ op.pc \in UnassignSteps => other \in UnassignCommands
                      /\ op.pc = "access" => other \in Requests
                      /\ op.pc # "idle" => op.caller \in Parties
                      /\ op.pc # "idle" /\ other \in Assigners => op.newOwner \in Parties
                      /\ op.pc \notin Started =>
                            /\ op.id \in RowIds /\ op.rec \in Rows
                            /\ op.rec.guid = rows'[op.id].guid
    BY DEF OpsOK
  <1>1. CASE other # client
    BY <1>1 DEF TypeInv, OpsOK
  <1>2. CASE other = client /\ ops'[client] = NoOp
    BY <1>2 DEF NoOp, AssignSteps, UnassignSteps, Started
  <1>3. CASE other = client /\ ops'[client] # NoOp
    BY <1>3 DEF TypeInv, OpsOK
  <1>4. QED
    BY <1>1, <1>2, <1>3

LEMMA FinishKeeps ==
    ASSUME TypeInv, NEW client \in Clients, Finish(client),
           \A id \in RowIds : rows'[id].guid = rows[id].guid
    PROVE  ops' \in [Clients -> Ops] /\ OpsOK'
  BY FinishType, OpsKept DEF TypeInv

LEMMA GotoKeeps ==
    ASSUME TypeInv, NEW client \in Clients, NEW step \in AssignSteps \cup UnassignSteps,
           Goto(client, step), step # "access", ops[client].pc \notin Started,
           \/ client \in Assigners /\ step \in AssignSteps
           \/ client \in UnassignCommands /\ step \in UnassignSteps,
           \A id \in RowIds : rows'[id].guid = rows[id].guid
    PROVE  ops' \in [Clients -> Ops] /\ OpsOK'
  <1>1. step \in Steps /\ step \notin Started /\ AssignSteps \cap UnassignSteps = {}
    BY DEF Steps, AssignSteps, UnassignSteps, Started
  <1>2. /\ ops' \in [Clients -> Ops]
        /\ ops'[client] = [ops[client] EXCEPT !.pc = step]
        /\ \A other \in Clients \ {client} : ops'[other] = ops[other]
    BY <1>1, GotoType DEF TypeInv
  <1>3. ops[client] \in Ops
    BY DEF TypeInv, TypeOK
  <1>4. /\ ops'[client].pc = step /\ ops'[client].id = ops[client].id
        /\ ops'[client].rec = ops[client].rec
        /\ ops'[client].caller = ops[client].caller
        /\ ops'[client].newOwner = ops[client].newOwner
    BY <1>2, <1>3 DEF Ops
  <1>5. ops[client].pc # "idle" /\ step # "idle"
    BY <1>1 DEF Started
  <1>6. QED
    BY <1>1, <1>2, <1>4, <1>5, OpsKept

\* The same for a step that also fills in fields found out by the step.
LEMMA AdvanceKeeps ==
    ASSUME TypeInv, NEW client \in Clients, NEW new \in Ops,
           ops' = [ops EXCEPT ![client] = new],
           new.pc # "idle", ops[client].pc # "idle",
           new.pc \in AssignSteps => client \in Assigners,
           new.pc \in UnassignSteps => client \in UnassignCommands,
           new.pc = "access" => client \in Requests,
           new.caller = ops[client].caller, new.newOwner = ops[client].newOwner,
           \/ new.pc \in Started
           \/ /\ ops[client].pc \notin Started
              /\ new.id = ops[client].id /\ new.rec = ops[client].rec
           \/ /\ new.id \in RowIds /\ new.rec \in Rows
              /\ new.rec.guid = rows[new.id].guid,
           UNCHANGED Shared
    PROVE  TypeInv'
  <1>1. ops' \in [Clients -> Ops] /\ ops'[client] = new
    BY DEF TypeInv, TypeOK
  <1>2. \A other \in Clients \ {client} : ops'[other] = ops[other]
    BY DEF TypeInv, TypeOK
  <1>3. \A id \in RowIds : rows'[id].guid = rows[id].guid
    BY DEF Shared
  <1>4. OpsOK'
    BY <1>1, <1>2, <1>3, OpsKept
  <1>5. QED
    BY <1>1, <1>4, OnlyOps

-------------------------------------------------------------------------------
LEMMA LookupType ==
    ASSUME TypeInv, NEW client \in Commands, Lookup(client)
    PROVE  TypeInv'
  <1>1. client \in Clients /\ UNCHANGED Shared /\ At(client, "lookup")
    BY DEF Lookup, Shared, Clients
  <1>2. CASE Finish(client)
    BY <1>1, <1>2, FinishKeeps, OnlyOps DEF Shared
  <1>3. CASE ~ Finish(client)
    <2>1. PICK id \in RowIds :
             ops' = [ops EXCEPT ![client].pc = "fetch", ![client].serial = rows[id].serial]
      BY <1>3 DEF Lookup
    <2> DEFINE new == [ops[client] EXCEPT !.pc = "fetch", !.serial = rows[id].serial]
    <2>2. ops[client] \in Ops /\ rows[id].serial \in Serials
      BY <1>1 DEF TypeInv, TypeOK, Rows
    <2>3. /\ new \in Ops /\ new.pc = "fetch"
          /\ new.caller = ops[client].caller /\ new.newOwner = ops[client].newOwner
      BY <2>2 DEF Ops, Steps
    <2>4. ops' = [ops EXCEPT ![client] = new]
      BY <2>1, <1>1 DEF TypeInv, TypeOK
    <2>5. "fetch" \notin AssignSteps \cup UnassignSteps /\ "fetch" \in Started
      BY DEF AssignSteps, UnassignSteps, Started
    <2> HIDE DEF new
    <2>6. QED
      BY <1>1, <2>3, <2>4, <2>5, AdvanceKeeps DEF At
  <1>4. QED
    BY <1>2, <1>3

LEMMA FetchType ==
    ASSUME TypeInv, NEW client \in Clients, Fetch(client)
    PROVE  TypeInv'
  <1>1. UNCHANGED Shared /\ At(client, "fetch")
    BY DEF Fetch, Shared
  <1>2. CASE Finish(client)
    BY <1>1, <1>2, FinishKeeps, OnlyOps DEF Shared
  <1>3. CASE ~ Finish(client)
    <2>1. PICK id \in RowIds :
             /\ AfterFetch(client, rows[id]) # "idle"
             /\ ops' = [ops EXCEPT ![client].pc = AfterFetch(client, rows[id]),
                                   ![client].id = id,
                                   ![client].rec = rows[id]]
      BY <1>3 DEF Fetch
    <2> DEFINE step == AfterFetch(client, rows[id])
               new == [ops[client] EXCEPT !.pc = step, !.id = id, !.rec = rows[id]]
    <2>2. ops[client] \in Ops /\ rows[id] \in Rows
      BY DEF TypeInv, TypeOK
    <2>3. \/ step = "unmark" /\ client \in UnassignCommands
          \/ step = "access" /\ client \in Requests
          \/ step = "parse" /\ client \in Assigners
      BY <2>1 DEF AfterFetch, NeedsAccess, Clients, Commands, Assigners
    <2> HIDE DEF step
    <2>4. /\ new \in Ops /\ new.pc = step /\ new.id = id /\ new.rec = rows[id]
          /\ new.caller = ops[client].caller /\ new.newOwner = ops[client].newOwner
      <3>1. step \in Steps
        BY <2>3 DEF Steps, AssignSteps, UnassignSteps
      <3>2. rows[id] \in Rows \cup {NoRow} /\ id \in RowIds \cup {NoOne}
        BY <2>2
      <3>3. QED
        BY <2>2, <3>1, <3>2 DEF Ops
    <2>5. ops' = [ops EXCEPT ![client] = new]
      BY <2>1 DEF TypeInv, TypeOK, step
    <2>6. /\ step # "idle"
          /\ step \in AssignSteps => client \in Assigners
          /\ step \in UnassignSteps => client \in UnassignCommands
          /\ step = "access" => client \in Requests
      BY <2>3 DEF AssignSteps, UnassignSteps, Assigners
    <2> HIDE DEF new
    <2>7. QED
      BY <1>1, <2>2, <2>4, <2>5, <2>6, AdvanceKeeps DEF At
  <1>4. QED
    BY <1>2, <1>3

LEMMA CheckAccessType ==
    ASSUME TypeInv, NEW client \in Requests, CheckAccess(client)
    PROVE  TypeInv'
  <1>1. client \in Clients /\ client \in Assigners /\ UNCHANGED Shared
    BY DEF CheckAccess, Shared, Clients, Assigners
  <1>2. ops[client].pc \notin Started /\ "parse" \in AssignSteps
    BY DEF CheckAccess, At, Started, AssignSteps
  <1>3. Finish(client) \/ Goto(client, "parse")
    BY DEF CheckAccess
  <1>4. ops' \in [Clients -> Ops] /\ OpsOK'
    BY <1>1, <1>2, <1>3, FinishKeeps, GotoKeeps DEF Shared
  <1>5. QED
    BY <1>1, <1>4, OnlyOps

LEMMA ParseType ==
    ASSUME TypeInv, NEW client \in Assigners, ParseAndExtend(client)
    PROVE  TypeInv'
  <1> DEFINE file == files[Guid(client)]
             voucher == ExtendVoucher(file, ops[client].newOwner)
             new == [ops[client] EXCEPT !.pc = "backup_read", !.voucher = voucher]
  <1>1. client \in Clients /\ UNCHANGED Shared /\ At(client, "parse")
    BY DEF ParseAndExtend, Shared, Clients, Assigners, Commands
  <1>2. CASE Finish(client)
    BY <1>1, <1>2, FinishKeeps, OnlyOps DEF Shared
  <1>3. CASE ~ Finish(client)
    <2>1. /\ file \in Chains
          /\ ops' = [ops EXCEPT ![client].pc = "backup_read", ![client].voucher = voucher]
      BY <1>3 DEF ParseAndExtend, Parses
    <2>2. ops[client] \in Ops /\ ops[client].newOwner \in Parties
      BY <1>1 DEF TypeInv, TypeOK, OpsOK, At
    <2>3. voucher \in Chains
      BY <2>1, <2>2, ChainFacts
    <2>4. ops' = [ops EXCEPT ![client] = new]
      BY <2>1 DEF TypeInv, TypeOK
    <2> HIDE DEF voucher
    <2>5. /\ new \in Ops /\ new.pc = "backup_read"
          /\ new.id = ops[client].id /\ new.rec = ops[client].rec
          /\ new.caller = ops[client].caller /\ new.newOwner = ops[client].newOwner
      BY <2>2, <2>3 DEF Ops, Steps, AssignSteps
    <2>6. ops[client].pc = "parse" /\ ops[client].pc \notin Started
      BY <1>1 DEF At, Started
    <2>7. "backup_read" \notin UnassignSteps
      BY DEF UnassignSteps
    <2> HIDE DEF new
    <2>8. QED
      BY <1>1, <2>4, <2>5, <2>6, <2>7, AdvanceKeeps
  <1>4. QED
    BY <1>2, <1>3

\* BackupRead and RestoreRead load the bytes of a file.
LEMMA LoadKeeps ==
    ASSUME TypeInv, NEW client \in Clients, NEW bytes \in FileContents,
           NEW step \in {"backup_open", "restore_open"},
           ops' = [ops EXCEPT ![client].pc = step, ![client].data = bytes],
           step = "backup_open" => client \in Assigners,
           step = "restore_open" => client \in UnassignCommands,
           ops[client].pc \notin Started, UNCHANGED Shared
    PROVE  TypeInv'
  <1> DEFINE new == [ops[client] EXCEPT !.pc = step, !.data = bytes]
  <1>1. ops' = [ops EXCEPT ![client] = new] /\ ops[client] \in Ops
    BY DEF TypeInv, TypeOK
  <1>2. step \in Steps /\ step # "idle" /\ step # "access"
    BY DEF Steps, AssignSteps, UnassignSteps
  <1>3. /\ new \in Ops /\ new.pc = step
        /\ new.id = ops[client].id /\ new.rec = ops[client].rec
        /\ new.caller = ops[client].caller /\ new.newOwner = ops[client].newOwner
    BY <1>1, <1>2 DEF Ops
  <1>4. /\ step \in AssignSteps => client \in Assigners
        /\ step \in UnassignSteps => client \in UnassignCommands
    BY DEF AssignSteps, UnassignSteps
  <1>5. ops[client].pc # "idle"
    BY DEF Started
  <1> HIDE DEF new
  <1>6. QED
    BY <1>1, <1>2, <1>3, <1>4, <1>5, AdvanceKeeps

LEMMA BackupReadType ==
    ASSUME TypeInv, NEW client \in Assigners, BackupRead(client)
    PROVE  TypeInv'
  <1>1. /\ UNCHANGED Shared /\ client \in Clients /\ ops[client].pc \notin Started
    BY DEF BackupRead, Shared, Assigners, Clients, Commands, At, Started
  <1>2. CASE Finish(client)
    BY <1>1, <1>2, FinishKeeps, OnlyOps DEF Shared
  <1>3. CASE ~ Finish(client)
    <2>1. ops' = [ops EXCEPT ![client].pc = "backup_open", ![client].data = files[Guid(client)]]
      BY <1>3 DEF BackupRead
    <2>2. files[Guid(client)] \in FileContents
      BY <1>1 DEF TypeInv, TypeOK, OpsOK, Guid, Rows
    <2>3. QED
      BY <1>1, <2>1, <2>2, LoadKeeps
  <1>4. QED
    BY <1>2, <1>3

LEMMA RestoreReadType ==
    ASSUME TypeInv, NEW client \in UnassignCommands, RestoreRead(client)
    PROVE  TypeInv'
  <1>1. /\ UNCHANGED Shared /\ client \in Clients /\ ops[client].pc \notin Started
        /\ "revoke" \in UnassignSteps
    BY DEF RestoreRead, Shared, Clients, Commands, At, Started, UnassignSteps
  <1>2. CASE Goto(client, "revoke")
    BY <1>1, <1>2, GotoKeeps, OnlyOps DEF Shared
  <1>3. CASE ~ Goto(client, "revoke")
    <2>1. ops' = [ops EXCEPT ![client].pc = "restore_open",
                            ![client].data = backups[Guid(client)]]
      BY <1>3 DEF RestoreRead
    <2>2. backups[Guid(client)] \in FileContents
      BY <1>1 DEF TypeInv, TypeOK, OpsOK, Guid, Rows
    <2>3. QED
      BY <1>1, <2>1, <2>2, LoadKeeps
  <1>4. QED
    BY <1>2, <1>3

\* The steps that write to the disk or to the database and go on.
LEMMA WriteType ==
    ASSUME TypeInv, NEW client \in Assigners,
           \/ BackupOpen(client) \/ BackupWrite(client) \/ SaveOpen(client)
           \/ SaveWrite(client) \/ Mark(client)
           \/ GrantCustodian(client) \/ GrantOwnerKey(client)
    PROVE  TypeInv'
  <1>1. /\ client \in Clients /\ ops[client] \in Ops
        /\ ops[client].pc \notin Started
    BY DEF BackupOpen, BackupWrite, SaveOpen, SaveWrite, Mark, GrantCustodian,
           GrantOwnerKey, At, Started, Clients, Assigners, Commands, TypeInv, TypeOK
  <1>2. /\ Guid(client) \in Guids /\ ops[client].id \in RowIds
        /\ ops[client].caller \in Parties /\ ops[client].newOwner \in Parties
        /\ ops[client].data \in FileContents /\ ops[client].voucher \in FileContents
    BY <1>1 DEF TypeInv, OpsOK, Guid, Rows, Ops, Started, FileContents
  <1>3. rows' \in [RowIds -> Rows] /\ \A id \in RowIds : rows'[id].guid = rows[id].guid
    <2>1. CASE Mark(client)
      BY <1>2, <2>1, MarkFacts DEF Mark, TypeInv, TypeOK
    <2>2. CASE ~ Mark(client)
      BY <2>2 DEF BackupOpen, BackupWrite, SaveOpen, SaveWrite, GrantCustodian,
                  GrantOwnerKey, TypeInv, TypeOK
    <2>3. QED
      BY <2>1, <2>2
  <1>4. \/ \E step \in AssignSteps \ {"access"} : Goto(client, step)
        \/ Finish(client)
    BY DEF BackupOpen, BackupWrite, SaveOpen, SaveWrite, Mark, GrantCustodian,
           GrantOwnerKey, AssignSteps
  <1>5. ops' \in [Clients -> Ops] /\ OpsOK'
    BY <1>1, <1>3, <1>4, FinishKeeps, GotoKeeps
  <1>7. grants' \in [Guids -> SUBSET Grants]
    BY <1>2 DEF TypeInv, TypeOK, BackupOpen, BackupWrite, SaveOpen, SaveWrite, Mark,
                GrantCustodian, GrantOwnerKey, InsertAccessGrant, Grants, GrantTypes
  <1>8. /\ files' \in [Guids -> FileContents] /\ backups' \in [Guids -> FileContents]
        /\ saved' \in [Guids -> SUBSET Parties]
    BY <1>2 DEF TypeInv, TypeOK, BackupOpen, BackupWrite, SaveOpen, SaveWrite, Mark,
                GrantCustodian, GrantOwnerKey, FileContents
  <1>9. QED
    BY <1>3, <1>5, <1>7, <1>8 DEF TypeInv, TypeOK

LEMMA RevertType ==
    ASSUME TypeInv, NEW client \in UnassignCommands,
           \/ Unmark(client) \/ RestoreOpen(client) \/ RestoreWrite(client)
           \/ RemoveBackup(client) \/ RevokeGrants(client)
    PROVE  TypeInv'
  <1>1. /\ client \in Clients /\ ops[client] \in Ops
        /\ ops[client].pc \notin Started
    BY DEF Unmark, RestoreOpen, RestoreWrite, RemoveBackup, RevokeGrants,
           At, Started, Clients, Commands, TypeInv, TypeOK
  <1>2. /\ Guid(client) \in Guids /\ ops[client].id \in RowIds
        /\ ops[client].data \in FileContents
    BY <1>1 DEF TypeInv, OpsOK, Guid, Rows, Ops, Started
  <1>3. rows' \in [RowIds -> Rows] /\ \A id \in RowIds : rows'[id].guid = rows[id].guid
    <2>1. CASE Unmark(client)
      BY <1>2, <2>1, UnmarkFacts DEF Unmark, RestoreStatus, TypeInv, TypeOK
    <2>2. CASE ~ Unmark(client)
      BY <2>2 DEF RestoreOpen, RestoreWrite, RemoveBackup, RevokeGrants, TypeInv, TypeOK
    <2>3. QED
      BY <2>1, <2>2
  <1>4. \/ \E step \in UnassignSteps : Goto(client, step)
        \/ Finish(client)
    BY DEF Unmark, RestoreOpen, RestoreWrite, RemoveBackup, RevokeGrants, UnassignSteps
  <1>a. "access" \notin UnassignSteps
    BY DEF UnassignSteps
  <1>5. ops' \in [Clients -> Ops] /\ OpsOK'
    BY <1>1, <1>3, <1>4, <1>a, FinishKeeps, GotoKeeps
  <1>7. grants' \in [Guids -> SUBSET Grants]
    BY <1>2 DEF TypeInv, TypeOK, Unmark, RestoreOpen, RestoreWrite, RemoveBackup,
                RevokeGrants, RemoveAccessGrantsForVoucher
  <1>8. /\ files' \in [Guids -> FileContents] /\ backups' \in [Guids -> FileContents]
        /\ saved' \in [Guids -> SUBSET Parties]
    BY <1>2 DEF TypeInv, TypeOK, Unmark, RestoreOpen, RestoreWrite, RemoveBackup,
                RevokeGrants, FileContents
  <1>9. QED
    BY <1>3, <1>5, <1>7, <1>8 DEF TypeInv, TypeOK

LEMMA InterruptType ==
    ASSUME TypeInv,
           \/ \E client \in Clients : StepFails(client)
           \/ \E command \in Commands : KillCommand(command)
           \/ ServerCrash
    PROVE  TypeInv'
  <1>1. UNCHANGED Shared
    BY DEF StepFails, KillCommand, ServerCrash, Shared
  <1>2. ASSUME NEW client \in Clients, Finish(client)
        PROVE  TypeInv'
    BY <1>1, <1>2, FinishKeeps, OnlyOps DEF Shared
  <1>3. ASSUME NEW client \in Clients, StepFails(client), ~ Finish(client)
        PROVE  TypeInv'
    <2>1. /\ ops[client].pc \in Steps /\ ops[client].pc # "idle"
          /\ ops[client].pc \notin FatalSteps \cup LastSteps
          /\ Goto(client, Continuation(ops[client].pc))
      BY <1>3 DEF StepFails, At, TypeInv, TypeOK, Ops
    <2>2. \/ /\ ops[client].pc \in {"mark", "custodian"}
             /\ Continuation(ops[client].pc) \in {"custodian", "owner_key"}
          \/ /\ ops[client].pc \in {"restore_read", "restore_open", "restore_write",
                                    "remove_backup"}
             /\ Continuation(ops[client].pc) = "revoke"
      BY <2>1 DEF Steps, AssignSteps, UnassignSteps, FatalSteps, LastSteps, Continuation
    <2>3. ops[client].pc \notin Started
      BY <2>2 DEF Started
    <2>4. \/ /\ client \in Assigners
             /\ Continuation(ops[client].pc) \in AssignSteps \ {"access"}
          \/ /\ client \in UnassignCommands
             /\ Continuation(ops[client].pc) \in UnassignSteps \ {"access"}
      BY <2>2 DEF AssignSteps, UnassignSteps, TypeInv, OpsOK
    <2>5. QED
      BY <1>1, <2>1, <2>3, <2>4, GotoKeeps, OnlyOps DEF Shared
  <1>4. CASE ServerCrash
    <2>1. ops' = [client \in Clients |-> IF client \in Requests THEN NoOp ELSE ops[client]]
      BY <1>4 DEF ServerCrash
    <2>2. ops' \in [Clients -> Ops]
      BY <2>1, NoOpType DEF TypeInv, TypeOK
    <2>3. OpsOK'
      BY <1>1, <2>1 DEF OpsOK, TypeInv, NoOp, Started, AssignSteps, UnassignSteps, Shared
    <2>4. QED
      BY <1>1, <2>2, <2>3, OnlyOps
  <1>5. QED
    BY <1>2, <1>3, <1>4 DEF KillCommand, Clients, Commands

LEMMA TypeStep == TypeInv /\ [Next]_vars => TypeInv'
  <1> SUFFICES ASSUME TypeInv, [Next]_vars PROVE TypeInv'
    OBVIOUS
  <1>1. CASE UNCHANGED vars
    BY <1>1 DEF vars, TypeInv, TypeOK, OpsOK
  <1>2. CASE Next
    <2>1. ASSUME NEW request \in Requests, StartRequest(request) \/ CheckAccess(request)
          PROVE  TypeInv'
      BY <2>1, StartType, CheckAccessType DEF StartRequest, Shared, Clients
    <2>2. ASSUME NEW command \in Commands,
                 StartBySerial(command) \/ StartByGuid(command) \/ Lookup(command)
          PROVE  TypeInv'
      BY <2>2, StartType, LookupType DEF StartBySerial, StartByGuid, Shared, Clients
    <2>3. ASSUME NEW client \in Clients, Fetch(client)
          PROVE  TypeInv'
      BY <2>3, FetchType
    <2>4. ASSUME NEW client \in Assigners, AssignStep(client)
          PROVE  TypeInv'
      <3>1. client \in Clients
        BY DEF Assigners, Clients, Commands
      <3>2. QED
        BY <2>4, <3>1, ParseType, BackupReadType, WriteType DEF AssignStep
    <2>5. ASSUME NEW command \in UnassignCommands, UnassignStep(command)
          PROVE  TypeInv'
      <3>1. command \in Clients
        BY DEF Clients, Commands
      <3>2. QED
        BY <2>5, <3>1, RestoreReadType, RevertType DEF UnassignStep
    <2>6. QED
      BY <1>2, <2>1, <2>2, <2>3, <2>4, <2>5, InterruptType DEF Next, Operation, Disturbance
  <1>3. QED
    BY <1>1, <1>2

\* Every reachable state is well typed, whatever the constants are.
THEOREM TypeCorrect == Spec => []TypeOK
  <1>1. Spec => []TypeInv
    BY InitType, TypeStep, PTL DEF Spec
  <1>2. TypeInv => TypeOK
    BY DEF TypeInv
  <1>3. QED
    BY <1>1, <1>2, PTL

-------------------------------------------------------------------------------
(***************************************************************************)
(* How one step changes the operation of one client, for the invariants    *)
(* below: after the row was fetched, only the program counter and the      *)
(* buffers change.                                                         *)
(***************************************************************************)
SameArguments(old, new) ==
    /\ new.caller = old.caller /\ new.newOwner = old.newOwner
    /\ new.id = old.id /\ new.rec = old.rec

Move(client, old, new) ==
    \/ new = old
    \/ new = NoOp
    \/ /\ old.pc = "idle" /\ new.pc \in {"fetch", "lookup"}
       /\ new.caller \in Callers \cup {Global, CliOperator}
       /\ client \in AssignCommands => new.caller = CliOperator
    \/ /\ old.pc = "lookup" /\ new.pc = "fetch" /\ SameArguments(old, new)
    \/ /\ old.pc = "fetch" /\ new.pc \in {"unmark", "access", "parse"}
       /\ new.caller = old.caller /\ new.newOwner = old.newOwner
       /\ new.id \in RowIds /\ new.rec = rows[new.id]
       /\ new.pc = "parse" => client \in Assigners /\ ~ NeedsAccess(client)
       /\ new.pc = "unmark" => rows[new.id].status = "assigned"
    \/ /\ SameArguments(old, new)
       /\ \/ /\ old.pc = "access" /\ new.pc = "parse" /\ client \in Requests
             /\ \/ HasAccessByGUID(rows, grants, old.rec.guid, old.caller)
                \/ old.rec.owner = old.caller
          \/ <<old.pc, new.pc>> \in
                {<<"parse", "backup_read">>, <<"backup_read", "backup_open">>,
                 <<"backup_open", "backup_write">>, <<"backup_write", "save_open">>,
                 <<"save_open", "save_write">>, <<"mark", "custodian">>,
                 <<"custodian", "owner_key">>}
          \/ /\ old.pc = "save_write" /\ new.pc = "mark"
             /\ saved' = [saved EXCEPT ![old.rec.guid] = @ \cup {old.newOwner}]
             /\ files' = [files EXCEPT ![old.rec.guid] = old.voucher]
          \/ old.pc \in UnassignSteps /\ new.pc \in UnassignSteps \ {"unmark"}

LEMMA Moves ==
    ASSUME TypeInv, Next
    PROVE  \A client \in Clients : Move(client, ops[client], ops'[client])
  <1> SUFFICES ASSUME NEW client \in Clients
               PROVE  Move(client, ops[client], ops'[client])
    OBVIOUS
  <1> USE DEF Move, SameArguments, TypeInv, TypeOK
  <1>1. ops \in [Clients -> Ops]
    OBVIOUS
  <1>2. ASSUME NEW other \in Clients, Finish(other)
        PROVE  Move(client, ops[client], ops'[client])
    BY <1>2 DEF Finish
  <1>3. ASSUME NEW request \in Requests, StartRequest(request)
        PROVE  Move(client, ops[client], ops'[client])
    BY <1>3, AssignmentAssumption DEF StartRequest, MayStart, At, NoOp
  <1>4. ASSUME NEW command \in Commands, StartBySerial(command) \/ StartByGuid(command)
        PROVE  Move(client, ops[client], ops'[client])
    <2>1. /\ ops[command].pc = "idle"
          /\ \E new : /\ ops' = [ops EXCEPT ![command] = new]
                     /\ new.pc \in {"fetch", "lookup"} /\ new.caller = CliOperator
      <3>1. CASE StartBySerial(command)
        <4> DEFINE New(serial, key) == [NoOp EXCEPT
               !.pc = "fetch", !.serial = serial, !.caller = CliOperator,
               !.newOwner = IF command \in AssignCommands THEN key ELSE NoOne]
        <4>1. PICK serial, key : ops' = [ops EXCEPT ![command] = New(serial, key)]
          BY <3>1 DEF StartBySerial
        <4>2. New(serial, key).pc = "fetch" /\ New(serial, key).caller = CliOperator
          BY DEF NoOp
        <4>3. QED
          BY <3>1, <4>1, <4>2 DEF StartBySerial, MayStart, At
      <3>2. CASE StartByGuid(command)
        <4> DEFINE New(guid, key) == [NoOp EXCEPT
               !.pc = "lookup", !.wanted = guid, !.caller = CliOperator,
               !.newOwner = IF command \in AssignCommands THEN key ELSE NoOne]
        <4>1. PICK guid, key : ops' = [ops EXCEPT ![command] = New(guid, key)]
          BY <3>2 DEF StartByGuid
        <4>2. New(guid, key).pc = "lookup" /\ New(guid, key).caller = CliOperator
          BY DEF NoOp
        <4>3. QED
          BY <3>2, <4>1, <4>2 DEF StartByGuid, MayStart, At
      <3>3. QED
        BY <1>4, <3>1, <3>2
    <2>2. QED
      BY <2>1
  <1>5. ASSUME NEW command \in Commands, Lookup(command), ~ Finish(command)
        PROVE  Move(client, ops[client], ops'[client])
    BY <1>5 DEF Lookup, At, Ops
  <1>6. ASSUME NEW other \in Clients, Fetch(other), ~ Finish(other)
        PROVE  Move(client, ops[client], ops'[client])
    <2>1. PICK id \in RowIds :
            /\ AfterFetch(other, rows[id]) # "idle"
            /\ ops' = [ops EXCEPT ![other].pc = AfterFetch(other, rows[id]),
                                  ![other].id = id, ![other].rec = rows[id]]
      BY <1>6 DEF Fetch
    <2> DEFINE step == AfterFetch(other, rows[id])
    <2>2. /\ step \in {"unmark", "access", "parse"}
          /\ step = "parse" => other \in Assigners /\ ~ NeedsAccess(other)
          /\ step = "unmark" => rows[id].status = "assigned"
      BY <2>1 DEF AfterFetch, Assigners, Clients, Commands
    <2>3. ops[other].pc = "fetch" /\ ops[other] \in Ops
      BY <1>6 DEF Fetch, At
    <2>4. ops' = [ops EXCEPT ![other].pc = step, ![other].id = id, ![other].rec = rows[id]]
      BY <2>1
    <2> HIDE DEF step
    <2>5. QED
      BY <2>2, <2>3, <2>4 DEF Ops
  <1>7. ASSUME NEW request \in Requests, CheckAccess(request), ~ Finish(request)
        PROVE  Move(client, ops[client], ops'[client])
    <2>1. /\ Goto(request, "parse") /\ ops[request].pc = "access" /\ ops[request] \in Ops
          /\ \/ HasAccessByGUID(rows, grants, ops[request].rec.guid, ops[request].caller)
             \/ ops[request].rec.owner = ops[request].caller
      BY <1>7 DEF CheckAccess, Guid, At, Clients
    <2>2. CASE client = request
      <3>1. ops'[client] = [ops[client] EXCEPT !.pc = "parse"]
        BY <2>1, <2>2 DEF Goto
      <3>2. QED
        BY <1>7, <2>1, <2>2, <3>1 DEF Ops
    <2>3. CASE client # request
      BY <2>1, <2>3 DEF Goto
    <2>4. QED
      BY <2>2, <2>3
  <1>8. ASSUME NEW other \in Assigners, AssignStep(other), ~ Finish(other)
        PROVE  Move(client, ops[client], ops'[client])
    <2>1. other \in Clients /\ ops[other] \in Ops
      BY DEF Assigners, Clients, Commands
    <2>2. CASE ParseAndExtend(other)
      <3>1. PICK voucher : /\ ops' = [ops EXCEPT ![other].pc = "backup_read",
                                                ![other].voucher = voucher]
                           /\ ops[other].pc = "parse"
        BY <1>8, <2>2 DEF ParseAndExtend, At
      <3>2. QED
        BY <2>1, <3>1 DEF Ops
    <2>3. CASE BackupRead(other)
      <3>1. PICK data : /\ ops' = [ops EXCEPT ![other].pc = "backup_open", ![other].data = data]
                        /\ ops[other].pc = "backup_read"
        BY <1>8, <2>3 DEF BackupRead, At
      <3>2. QED
        BY <2>1, <3>1 DEF Ops
    <2>4. CASE BackupOpen(other) \/ BackupWrite(other) \/ SaveOpen(other)
      BY <2>1, <2>4 DEF BackupOpen, BackupWrite, SaveOpen, Goto, At, Ops
    <2>5. CASE SaveWrite(other)
      BY <2>1, <2>5 DEF SaveWrite, Goto, Guid, At, Ops
    <2>6. CASE Mark(other) \/ GrantCustodian(other)
      BY <2>1, <2>6 DEF Mark, GrantCustodian, Goto, At, Ops
    <2>7. QED
      BY <1>8, <2>2, <2>3, <2>4, <2>5, <2>6 DEF AssignStep, GrantOwnerKey
  <1>9. ASSUME NEW command \in UnassignCommands, UnassignStep(command), ~ Finish(command)
        PROVE  Move(client, ops[client], ops'[client])
    BY <1>9 DEF UnassignStep, Unmark, RestoreRead, RestoreOpen, RestoreWrite,
                RemoveBackup, RevokeGrants, Goto, At, Ops, UnassignSteps
  <1>10. ASSUME NEW other \in Clients, StepFails(other), ~ Finish(other)
         PROVE  Move(client, ops[client], ops'[client])
    BY <1>10 DEF StepFails, FatalSteps, LastSteps, Continuation, Goto, At, Ops, Steps,
                 AssignSteps, UnassignSteps
  <1>11. CASE ServerCrash
    BY <1>11 DEF ServerCrash
  <1>12. QED
    BY <1>2, <1>3, <1>4, <1>5, <1>6, <1>7, <1>8, <1>9, <1>10, <1>11
    DEF Next, Operation, Disturbance, KillCommand, Clients, Commands, Assigners

-------------------------------------------------------------------------------
(***************************************************************************)
(* What a step writes to the database and to the history.                  *)
(***************************************************************************)
LEMMA RowWrites ==
    ASSUME TypeInv, Next
    PROVE  \/ rows' = rows
           \/ \E client \in Assigners : Mark(client)
           \/ \E command \in UnassignCommands : Unmark(command)
  BY DEF Next, Operation, Disturbance, StartRequest, CheckAccess, StartBySerial, StartByGuid, Lookup, Fetch,
         StepFails, AssignStep, ParseAndExtend, BackupRead, BackupOpen, BackupWrite,
         SaveOpen, SaveWrite, GrantCustodian, GrantOwnerKey, UnassignStep, RestoreRead,
         RestoreOpen, RestoreWrite, RemoveBackup, RevokeGrants, KillCommand, ServerCrash

LEMMA GrantWrites ==
    ASSUME TypeInv, Next
    PROVE  \/ grants' = grants
           \/ \E client \in Assigners : GrantCustodian(client) \/ GrantOwnerKey(client)
           \/ \E command \in UnassignCommands : RevokeGrants(command)
  BY DEF Next, Operation, Disturbance, StartRequest, CheckAccess, StartBySerial, StartByGuid, Lookup, Fetch,
         StepFails, AssignStep, ParseAndExtend, BackupRead, BackupOpen, BackupWrite,
         SaveOpen, SaveWrite, Mark, UnassignStep, Unmark, RestoreRead,
         RestoreOpen, RestoreWrite, RemoveBackup, KillCommand, ServerCrash

LEMMA SavedGrows ==
    ASSUME TypeInv, Next
    PROVE  \A guid \in Guids : saved[guid] \subseteq saved'[guid]
  <1>1. saved' = saved \/ \E client \in Assigners : SaveWrite(client)
    BY DEF Next, Operation, Disturbance, StartRequest, CheckAccess, StartBySerial, StartByGuid, Lookup, Fetch,
           StepFails, AssignStep, ParseAndExtend, BackupRead, BackupOpen, BackupWrite,
           SaveOpen, Mark, GrantCustodian, GrantOwnerKey, UnassignStep, Unmark, RestoreRead,
           RestoreOpen, RestoreWrite, RemoveBackup, RevokeGrants, KillCommand, ServerCrash
  <1>2. QED
    BY <1>1 DEF SaveWrite, TypeInv, TypeOK

\* An operation past its fetch names a voucher and a row of it.
LEMMA FetchedFacts ==
    ASSUME TypeInv, NEW client \in Clients, ops[client].pc \notin Started
    PROVE  /\ Guid(client) \in Guids /\ ops[client].id \in RowIds
           /\ rows[ops[client].id].guid = Guid(client)
           /\ ops[client].caller \in Parties
           /\ client \in Assigners => ops[client].newOwner \in Parties
  BY DEF TypeInv, OpsOK, Guid, Rows, Started

\* The two updates of a row, in the terms of the operation that makes them.
RestKept(id) == \A other \in RowIds \ {id} : rows'[other] = rows[other]

Marks(client) ==
    LET id == ops[client].id IN
    /\ ops[client].pc = "mark" /\ id \in RowIds
    /\ rows'[id].status = "assigned" /\ rows'[id].assignedTo = ops[client].newOwner
    /\ ops[client].newOwner \in Parties
    /\ RestKept(id) /\ files' = files /\ ops'[client].pc = "custodian"

Unmarks(command) ==
    LET id == ops[command].id IN
    /\ ops[command].pc = "unmark" /\ id \in RowIds
    /\ rows'[id].status \in {"pending", "no_destination"} /\ rows'[id].assignedTo = NoOne
    /\ RestKept(id) /\ files' = files /\ ops'[command].pc = "restore_read"

LEMMA RowSteps ==
    ASSUME TypeInv, Next
    PROVE  \/ rows' = rows
           \/ \E client \in Clients : client \in Assigners /\ Marks(client)
           \/ \E command \in Clients : command \in UnassignCommands /\ Unmarks(command)
  <1>1. ASSUME NEW client \in Assigners, Mark(client)
        PROVE  client \in Clients /\ Marks(client)
    <2>1. client \in Clients /\ ops[client].pc = "mark" /\ ops[client].pc \notin Started
      BY <1>1 DEF Mark, At, Started, Assigners, Clients, Commands
    <2>2. "custodian" \in Steps /\ Goto(client, "custodian")
      BY <1>1 DEF Mark, Steps, AssignSteps
    <2>3. ops'[client] = [ops[client] EXCEPT !.pc = "custodian"] /\ ops[client] \in Ops
      BY <2>1, <2>2, GotoType DEF TypeInv, TypeOK
    <2>4. ops'[client].pc = "custodian"
      BY <2>3 DEF Ops
    <2>5. QED
      BY <1>1, <2>1, <2>4, FetchedFacts, MarkFacts DEF Mark, Marks, RestKept, TypeInv, TypeOK
  <1>2. ASSUME NEW command \in UnassignCommands, Unmark(command)
        PROVE  command \in Clients /\ Unmarks(command)
    <2>1. /\ command \in Clients /\ ops[command].pc = "unmark" /\ ops[command].pc \notin Started
          /\ RestoreStatus(ops[command].rec) \in {"pending", "no_destination"}
      BY <1>2 DEF Unmark, At, Started, Clients, Commands, RestoreStatus
    <2>2. "restore_read" \in Steps /\ Goto(command, "restore_read")
      BY <1>2 DEF Unmark, Steps, UnassignSteps
    <2>3. ops'[command] = [ops[command] EXCEPT !.pc = "restore_read"] /\ ops[command] \in Ops
      BY <2>1, <2>2, GotoType DEF TypeInv, TypeOK
    <2>4. ops'[command].pc = "restore_read"
      BY <2>3 DEF Ops
    <2>5. QED
      BY <1>2, <2>1, <2>4, FetchedFacts, UnmarkFacts DEF Unmark, Unmarks, RestKept, TypeInv, TypeOK
  <1>3. QED
    BY <1>1, <1>2, RowWrites

-------------------------------------------------------------------------------
(***************************************************************************)
(* CustodyFollowsSave.  It is inductive together with the fact that an     *)
(* operation that is about to write the record or a grant has saved the    *)
(* voucher for its customer.                                               *)
(***************************************************************************)
Late == {"mark", "custodian", "owner_key"}

CustodyInv ==
    /\ CustodyFollowsSave
    /\ \A client \in Clients :
          ops[client].pc \in Late => ops[client].newOwner \in saved[Guid(client)]

LEMMA InitUnassigned ==
    ASSUME Init
    PROVE  \A id \in RowIds : /\ rows[id].status # "assigned"
                             /\ rows[id].guid = GuidOf[id] /\ rows[id].owner = OwnerOf[id]
  <1>1. PICK column \in [RowIds -> {<<"pending", FALSE>>}
                                    \cup ({"pending", "failed", "succeeded"} \X {TRUE})] :
          rows = [id \in RowIds |->
                    [guid |-> GuidOf[id], serial |-> SerialOf[id], owner |-> OwnerOf[id],
                     status |-> column[id][1], hasDestination |-> column[id][2],
                     assignedTo |-> NoOne, assignedBy |-> NoOne]]
    BY DEF Init
  <1>2. \A id \in RowIds : column[id][1] # "assigned"
    <2>1. SUFFICES ASSUME NEW id \in RowIds PROVE column[id][1] # "assigned"
      OBVIOUS
    <2>2. CASE column[id] = <<"pending", FALSE>>
      BY <2>2
    <2>3. CASE column[id] \in {"pending", "failed", "succeeded"} \X {TRUE}
      BY <2>3
    <2>4. QED
      BY <2>2, <2>3
  <1>3. QED
    BY <1>1, <1>2

LEMMA CustodyInit == Init => CustodyInv
  <1> SUFFICES ASSUME Init PROVE CustodyInv
    OBVIOUS
  <1>1. CustodyFollowsSave
    BY InitUnassigned DEF Init, CustodyFollowsSave
  <1>2. \A client \in Clients : ops[client].pc = "idle"
    BY DEF Init, NoOp
  <1>3. QED
    BY <1>1, <1>2 DEF CustodyInv, Late

LEMMA CustodyStep == TypeInv /\ CustodyInv /\ [Next]_vars => CustodyInv'
  <1> SUFFICES ASSUME TypeInv, CustodyInv, [Next]_vars PROVE CustodyInv'
    OBVIOUS
  <1>1. CASE UNCHANGED vars
    BY <1>1 DEF vars, CustodyInv, CustodyFollowsSave, Guid
  <1>2. CASE Next
    <2>1. \A guid \in Guids : saved[guid] \subseteq saved'[guid]
      BY <1>2, SavedGrows
    <2>2. ASSUME NEW client \in Clients, ops'[client].pc \in Late
          PROVE  ops'[client].newOwner \in saved'[Guid(client)']
      <3>1. Move(client, ops[client], ops'[client])
        BY <1>2, Moves
      <3>2. \/ ops[client].pc \in Late
            \/ /\ ops[client].pc = "save_write"
               /\ saved' = [saved EXCEPT ![ops[client].rec.guid] = @ \cup {ops[client].newOwner}]
        BY <2>2, <3>1 DEF Move, Late, NoOp, UnassignSteps
      <3>3. /\ ops'[client].newOwner = ops[client].newOwner
            /\ Guid(client)' = Guid(client)
        <4>1. \/ ops'[client] = ops[client]
              \/ SameArguments(ops[client], ops'[client])
          <5>1. /\ ops'[client] # NoOp
                /\ ops'[client].pc \notin {"fetch", "lookup", "unmark", "access", "parse"}
            BY <2>2 DEF Late, NoOp
          <5>2. QED
            BY <3>1, <3>2, <5>1 DEF Move
        <4>2. QED
          BY <4>1 DEF SameArguments, Guid
      <3>4. ops[client].pc \notin Started
        BY <3>2 DEF Late, Started
      <3>5. Guid(client) \in Guids
        BY <3>4, FetchedFacts
      <3>6. QED
        BY <2>1, <3>2, <3>3, <3>5 DEF CustodyInv, Guid, TypeInv, TypeOK
    <2>3. ASSUME NEW id \in RowIds, rows'[id].status = "assigned"
          PROVE  rows'[id].assignedTo \in saved'[rows'[id].guid]
      <3>1. CASE rows' = rows
        BY <2>1, <2>3, <3>1 DEF CustodyInv, CustodyFollowsSave, TypeInv, TypeOK, Rows
      <3>2. ASSUME NEW client \in Assigners, Mark(client)
            PROVE  rows'[id].assignedTo \in saved'[rows'[id].guid]
        <4>1. /\ client \in Clients /\ ops[client].pc \notin Started
              /\ ops[client].pc \in Late /\ saved' = saved
          BY <3>2 DEF Mark, At, Late, Started, Assigners, Clients, Commands
        <4>2. /\ ops[client].id \in RowIds /\ rows[ops[client].id].guid = Guid(client)
              /\ ops[client].newOwner \in Parties /\ ops[client].caller \in Parties
          BY <4>1, FetchedFacts
        <4>3. /\ rows'[ops[client].id].assignedTo = ops[client].newOwner
              /\ rows'[ops[client].id].guid = Guid(client)
              /\ \A other \in RowIds \ {ops[client].id} : rows'[other] = rows[other]
          BY <3>2, <4>2, MarkFacts DEF Mark, TypeInv, TypeOK
        <4>4. CASE id = ops[client].id
          BY <4>1, <4>3, <4>4 DEF CustodyInv
        <4>5. CASE id # ops[client].id
          BY <2>3, <4>1, <4>3, <4>5 DEF CustodyInv, CustodyFollowsSave
        <4>6. QED
          BY <4>4, <4>5
      <3>3. ASSUME NEW command \in UnassignCommands, Unmark(command)
            PROVE  rows'[id].assignedTo \in saved'[rows'[id].guid]
        <4>1. /\ command \in Clients /\ ops[command].pc \notin Started /\ saved' = saved
              /\ RestoreStatus(ops[command].rec) \in {"pending", "no_destination"}
          BY <3>3 DEF Unmark, At, Started, Clients, Commands, RestoreStatus
        <4>2. /\ rows'[ops[command].id].status # "assigned"
              /\ \A other \in RowIds \ {ops[command].id} : rows'[other] = rows[other]
          BY <3>3, <4>1, FetchedFacts, UnmarkFacts DEF Unmark, TypeInv, TypeOK
        <4>3. QED
          BY <2>3, <4>1, <4>2 DEF CustodyInv, CustodyFollowsSave
      <3>4. QED
        BY <1>2, <3>1, <3>2, <3>3, RowWrites
    <2>4. ASSUME NEW guid \in Guids, NEW party \in Parties,
                 <<party, "owner_key">> \in grants'[guid]
          PROVE  party \in saved'[guid]
      <3>1. CASE <<party, "owner_key">> \in grants[guid]
        BY <2>1, <3>1 DEF CustodyInv, CustodyFollowsSave
      <3>2. ASSUME NEW client \in Assigners, GrantOwnerKey(client),
                   <<party, "owner_key">> \notin grants[guid]
            PROVE  party \in saved'[guid]
        <4>1. /\ client \in Clients /\ ops[client].pc \in Late /\ saved' = saved
          BY <3>2 DEF GrantOwnerKey, At, Late, Assigners, Clients, Commands
        <4>2. party = ops[client].newOwner /\ guid = Guid(client)
          BY <2>4, <3>2 DEF GrantOwnerKey, InsertAccessGrant, TypeInv, TypeOK
        <4>3. QED
          BY <4>1, <4>2 DEF CustodyInv
      <3>3. ASSUME NEW client \in Assigners, GrantCustodian(client)
            PROVE  <<party, "owner_key">> \in grants[guid]
        BY <2>4, <3>3 DEF GrantCustodian, InsertAccessGrant, TypeInv, TypeOK
      <3>4. ASSUME NEW command \in UnassignCommands, RevokeGrants(command)
            PROVE  <<party, "owner_key">> \in grants[guid]
        BY <2>4, <3>4 DEF RevokeGrants, RemoveAccessGrantsForVoucher, TypeInv, TypeOK
      <3>5. QED
        BY <1>2, <2>4, <3>1, <3>2, <3>3, <3>4, GrantWrites
    <2>5. QED
      BY <2>2, <2>3, <2>4 DEF CustodyInv, CustodyFollowsSave
  <1>3. QED
    BY <1>1, <1>2

\* No record and no owner_key grant names a customer before a voucher signed
\* over to that customer was stored, with any number of racing requests and
\* commands, crashes and errors.
THEOREM CustodyIsBacked == Spec => []CustodyFollowsSave
  <1>1. Spec => [](TypeInv /\ CustodyInv)
    BY InitType, TypeStep, CustodyInit, CustodyStep, PTL DEF Spec
  <1>2. CustodyInv => CustodyFollowsSave
    BY DEF CustodyInv
  <1>3. QED
    BY <1>1, <1>2, PTL

-------------------------------------------------------------------------------
(***************************************************************************)
(* CustodiansEntitled.  The invariant carries the result of the access     *)
(* check from the step that made it to the step that inserts the grant.    *)
(***************************************************************************)
EntitledInv ==
    /\ CustodiansEntitled
    /\ \A client \in Clients :
          LET op == ops[client] IN
          /\ client \in AssignCommands /\ op.pc # "idle" => op.caller = CliOperator
          /\ op.pc \notin Started => op.rec.owner = rows[op.id].owner
          /\ op.pc \in AssignSteps \ {"access"} => op.caller \in Entitled(Guid(client))

SameColumns(id) ==
    /\ rows'[id].guid = rows[id].guid /\ rows'[id].owner = rows[id].owner
    /\ rows'[id].serial = rows[id].serial

LEMMA ColumnsKept ==
    ASSUME TypeInv, Next
    PROVE  \A id \in RowIds : SameColumns(id)
  <1>1. ASSUME NEW client \in Assigners, Mark(client)
        PROVE  \A id \in RowIds : SameColumns(id)
    <2>1. client \in Clients /\ ops[client].pc \notin Started
      BY <1>1 DEF Mark, At, Started, Assigners, Clients, Commands
    <2>2. QED
      BY <1>1, <2>1, FetchedFacts, MarkFacts DEF Mark, SameColumns, TypeInv, TypeOK
  <1>2. ASSUME NEW command \in UnassignCommands, Unmark(command)
        PROVE  \A id \in RowIds : SameColumns(id)
    <2>1. /\ command \in Clients /\ ops[command].pc \notin Started
          /\ RestoreStatus(ops[command].rec) \in {"pending", "no_destination"}
      BY <1>2 DEF Unmark, At, Started, Clients, Commands, RestoreStatus
    <2>2. QED
      BY <1>2, <2>1, FetchedFacts, UnmarkFacts DEF Unmark, SameColumns, TypeInv, TypeOK
  <1>3. QED
    BY <1>1, <1>2, RowWrites DEF SameColumns

LEMMA EntitledGrows ==
    ASSUME TypeInv, Next, NEW guid \in Guids
    PROVE  Entitled(guid) \subseteq Entitled(guid)'
  BY ColumnsKept, SavedGrows DEF SameColumns, Entitled

LEMMA EntitledInit == Init => EntitledInv
  <1> SUFFICES ASSUME Init PROVE EntitledInv
    OBVIOUS
  <1>1. CustodiansEntitled
    BY DEF Init, CustodiansEntitled
  <1>2. \A client \in Clients : ops[client].pc = "idle"
    BY DEF Init, NoOp
  <1>3. QED
    BY <1>1, <1>2 DEF EntitledInv, Started, AssignSteps

LEMMA EntitledStep ==
    TypeInv /\ CustodyInv /\ EntitledInv /\ [Next]_vars => EntitledInv'
  <1> SUFFICES ASSUME TypeInv, CustodyInv, EntitledInv, [Next]_vars PROVE EntitledInv'
    OBVIOUS
  <1>1. CASE UNCHANGED vars
    BY <1>1 DEF vars, EntitledInv, CustodiansEntitled, Entitled, Guid
  <1>2. CASE Next
    <2>1. \A guid \in Guids : Entitled(guid) \subseteq Entitled(guid)'
      BY <1>2, EntitledGrows
    <2>2. ASSUME NEW client \in Clients
          PROVE  LET op == ops'[client] IN
                 /\ client \in AssignCommands /\ op.pc # "idle" => op.caller = CliOperator
                 /\ op.pc \notin Started => op.rec.owner = rows'[op.id].owner
                 /\ op.pc \in AssignSteps \ {"access"} =>
                       \E guid \in Guids : op.rec.guid = guid /\ op.caller \in Entitled(guid)'
      <3> DEFINE old == ops[client]
                 new == ops'[client]
      <3>1. Move(client, old, new)
        BY <1>2, Moves
      <3>2. client \in AssignCommands /\ new.pc # "idle" => new.caller = CliOperator
        BY <3>1 DEF EntitledInv, Move, SameArguments, NoOp, UnassignSteps
      <3>3. CASE new.pc \in Started
        BY <3>2, <3>3 DEF Started, AssignSteps
      <3>4. CASE new.pc \notin Started /\ old.pc \notin Started
        <4>1. SameArguments(old, new)
          BY <3>1, <3>4 DEF Move, SameArguments, Started, NoOp
        <4>2. /\ old.rec.guid \in Guids /\ old.id \in RowIds
              /\ rows[old.id].guid = old.rec.guid
          BY <3>4, FetchedFacts DEF Guid
        <4>3. new.rec.owner = rows'[new.id].owner
          BY <1>2, <3>4, <4>1, <4>2, ColumnsKept DEF SameColumns, EntitledInv, SameArguments
        <4>4. CASE old.pc = "access" /\ new.pc \in AssignSteps \ {"access"}
          <5>1. \/ HasAccessByGUID(rows, grants, old.rec.guid, old.caller)
                \/ old.rec.owner = old.caller
            BY <3>1, <4>4 DEF Move, AssignSteps, UnassignSteps, NoOp
          <5>2. old.rec.owner = rows[old.id].owner
            BY <3>4 DEF EntitledInv
          <5>3. old.caller \in Parties
            BY <3>4, FetchedFacts
          <5>4. old.caller \in Entitled(old.rec.guid)
            BY <4>2, <5>1, <5>2, <5>3
            DEF Entitled, HasAccessByGUID, GrantTypes, CustodyInv, CustodyFollowsSave,
                EntitledInv, CustodiansEntitled
          <5>5. PICK guid \in Guids : guid = old.rec.guid
            BY <4>2
          <5>6. Entitled(guid) \subseteq Entitled(guid)'
            BY <2>1
          <5>7. new.rec.guid = guid /\ new.caller = old.caller
            BY <4>1, <5>5 DEF SameArguments
          <5>8. new.caller \in Entitled(guid)'
            BY <5>4, <5>5, <5>6, <5>7
          <5>9. QED
            BY <3>2, <4>3, <5>7, <5>8
        <4>5. CASE old.pc # "access" /\ new.pc \in AssignSteps \ {"access"}
          <5>1. old.pc \in AssignSteps \ {"access"}
            BY <3>1, <3>4, <4>5 DEF Move, AssignSteps, UnassignSteps, NoOp, Started
          <5>2. old.caller \in Entitled(old.rec.guid)
            BY <5>1 DEF EntitledInv, Guid
          <5>3. PICK guid \in Guids : guid = old.rec.guid
            BY <4>2
          <5>4. Entitled(guid) \subseteq Entitled(guid)'
            BY <2>1
          <5>5. new.rec.guid = guid /\ new.caller = old.caller
            BY <4>1, <5>3 DEF SameArguments
          <5>6. new.caller \in Entitled(guid)'
            BY <5>2, <5>3, <5>4, <5>5
          <5>7. QED
            BY <3>2, <4>3, <5>5, <5>6
        <4>6. QED
          BY <3>2, <4>3, <4>4, <4>5
      <3>5. CASE new.pc \notin Started /\ old.pc \in Started
        <4>1. /\ old.pc = "fetch" /\ new.pc \in {"unmark", "access", "parse"}
              /\ new.caller = old.caller
              /\ new.id \in RowIds /\ new.rec = rows[new.id]
              /\ new.pc = "parse" => client \in Assigners /\ ~ NeedsAccess(client)
          BY <3>1, <3>5 DEF Move, Started, NoOp, UnassignSteps
        <4>2. new.rec.owner = rows'[new.id].owner
          BY <1>2, <4>1, ColumnsKept DEF SameColumns
        <4>3. new.pc = "parse" => new.caller \in {Global, CliOperator}
          BY <3>2, <4>1 DEF NeedsAccess, Assigners
        <4>4. PICK guid \in Guids : guid = new.rec.guid
          BY <4>1 DEF TypeInv, TypeOK, Rows
        <4>5. Global \in Entitled(guid)' /\ CliOperator \in Entitled(guid)'
          BY DEF Entitled
        <4>6. new.pc \in AssignSteps \ {"access"} => new.pc = "parse"
          BY <4>1 DEF AssignSteps
        <4>7. QED
          BY <3>2, <4>2, <4>3, <4>4, <4>5, <4>6
      <3>6. QED
        BY <3>3, <3>4, <3>5
    <2>3. ASSUME NEW guid \in Guids, NEW party \in Parties,
                 <<party, "custodian">> \in grants'[guid]
          PROVE  party \in Entitled(guid)'
      <3>1. CASE <<party, "custodian">> \in grants[guid]
        BY <2>1, <3>1 DEF EntitledInv, CustodiansEntitled
      <3>2. ASSUME NEW client \in Assigners, GrantCustodian(client),
                   <<party, "custodian">> \notin grants[guid]
            PROVE  party \in Entitled(guid)'
        <4>1. client \in Clients /\ ops[client].pc \in AssignSteps \ {"access"}
          BY <3>2 DEF GrantCustodian, At, AssignSteps, Assigners, Clients, Commands
        <4>2. party = ops[client].caller /\ guid = Guid(client)
          BY <2>3, <3>2 DEF GrantCustodian, InsertAccessGrant, TypeInv, TypeOK
        <4>3. QED
          BY <2>1, <4>1, <4>2 DEF EntitledInv
      <3>3. ASSUME NEW client \in Assigners, GrantOwnerKey(client)
            PROVE  <<party, "custodian">> \in grants[guid]
        BY <2>3, <3>3 DEF GrantOwnerKey, InsertAccessGrant, TypeInv, TypeOK
      <3>4. ASSUME NEW command \in UnassignCommands, RevokeGrants(command)
            PROVE  <<party, "custodian">> \in grants[guid]
        BY <2>3, <3>4 DEF RevokeGrants, RemoveAccessGrantsForVoucher, TypeInv, TypeOK
      <3>5. QED
        BY <1>2, <2>3, <3>1, <3>2, <3>3, <3>4, GrantWrites
    <2>4. CustodiansEntitled'
      BY <2>3 DEF CustodiansEntitled
    <2>5. ASSUME NEW client \in Clients, ops'[client].pc \in AssignSteps \ {"access"}
          PROVE  (ops[client].caller \in Entitled(Guid(client)))'
      <3>1. PICK guid \in Guids : /\ ops'[client].rec.guid = guid
                                /\ ops'[client].caller \in Entitled(guid)'
        BY <2>2, <2>5
      <3>2. QED
        BY <3>1 DEF Entitled, Guid
    <2>6. QED
      BY <2>2, <2>4, <2>5 DEF EntitledInv
  <1>3. QED
    BY <1>1, <1>2

\* Only the admin identities, an owner on record, or a customer the voucher was
\* signed over to ever become a voucher's custodian, in every interleaving.
THEOREM CustodiansAreEntitled == Spec => []CustodiansEntitled
  <1>1. Spec => [](TypeInv /\ CustodyInv /\ EntitledInv)
    BY InitType, TypeStep, CustodyInit, CustodyStep, EntitledInit, EntitledStep, PTL DEF Spec
  <1>2. EntitledInv => CustodiansEntitled
    BY DEF EntitledInv
  <1>3. QED
    BY <1>1, <1>2, PTL
===============================================================================
