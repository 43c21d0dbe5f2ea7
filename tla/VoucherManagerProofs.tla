-------------------------- MODULE VoucherManagerProofs --------------------------
(***************************************************************************)
(* Proofs about VoucherManager.                                            *)
(*                                                                         *)
(* Operations of any number of clients may overlap here.  What a file can  *)
(* hold does not depend on their order, as long as no customer's key is    *)
(* Own: then a voucher that was signed over cannot be extended again.      *)
(***************************************************************************)
EXTENDS VoucherManager, CustodyLedgerProofs

\* What a file, a backup or a buffer of a voucher may hold.
Genuine(guid, file) ==
    \/ file \in {NoFile, Torn, Original(guid)}
    \/ \E customer \in saved[guid] : file = SignedTo(guid, customer)

\* The steps at which an operation holds the extended voucher, or a copy of a file.
Extended == BeforeSave \cup {"save_write"}
Copying == {"backup_open", "backup_write", "restore_open", "restore_write"}

OpGenuine(client, op) ==
    /\ client \in Assigners /\ op.pc # "idle" => op.newOwner \in NewOwners
    /\ op.pc \in Extended => op.voucher = SignedTo(op.rec.guid, op.newOwner)
    /\ op.pc \in Copying => Genuine(op.rec.guid, op.data)

GenuineInv ==
    /\ \A guid \in Guids : /\ saved[guid] \subseteq NewOwners
                           /\ Genuine(guid, files[guid]) /\ Genuine(guid, backups[guid])
    /\ \A client \in Clients : OpGenuine(client, ops[client])

-------------------------------------------------------------------------------
(***************************************************************************)
(* What a step does to the buffers of an operation.                        *)
(***************************************************************************)
Buffered(client, old, new) ==
    /\ client \in Assigners /\ new.pc # "idle" =>
          \/ new.newOwner \in NewOwners
          \/ old.pc # "idle" /\ new.newOwner = old.newOwner
    /\ new.pc \in Extended => new.rec = old.rec /\ new.newOwner = old.newOwner
    /\ new.pc \in Copying => new.rec = old.rec
    /\ new.pc \in Extended =>
          \/ old.pc \in Extended /\ new.voucher = old.voucher
          \/ /\ old.pc = "parse" /\ client \in Assigners
             /\ Parses(files[old.rec.guid]) /\ CanExtend(files[old.rec.guid])
             /\ new.voucher = ExtendVoucher(files[old.rec.guid], old.newOwner)
    /\ new.pc \in Copying =>
          \/ old.pc \in Copying /\ new.data = old.data
          \/ /\ old.pc \notin Started
             /\ new.data \in {files[old.rec.guid], backups[old.rec.guid]} \ {NoFile}

\* One client moves, so only its operation has to be looked at.
LEMMA BufferedAlone ==
    ASSUME NEW client \in Clients, \A other \in Clients \ {client} : ops'[other] = ops[other],
           Buffered(client, ops[client], ops'[client])
    PROVE  \A other \in Clients : Buffered(other, ops[other], ops'[other])
<1>1. ASSUME NEW other \in Clients, ops'[other] = ops[other]
      PROVE  Buffered(other, ops[other], ops'[other])
  BY <1>1 DEF Buffered
<1> QED  BY <1>1

LEMMA BufferedGoto ==
    ASSUME TypeInv, NEW client \in Clients, ops[client].pc # "idle",
           NEW step \in Steps, Goto(client, step),
           step \in Extended => ops[client].pc \in Extended,
           step \in Copying => ops[client].pc \in Copying
    PROVE  \A other \in Clients : Buffered(other, ops[other], ops'[other])
<1>1. Buffered(client, ops[client], ops'[client])
  BY GotoFields DEF Buffered
<1> QED  BY <1>1, GotoFields, BufferedAlone

LEMMA BufferedFinish ==
    ASSUME TypeInv, NEW client \in Clients, Finish(client)
    PROVE  \A other \in Clients : Buffered(other, ops[other], ops'[other])
<1>1. Buffered(client, ops[client], ops'[client])
  BY FinishType DEF Buffered, NoOp, Extended, BeforeSave, Copying, TypeInv
<1> QED  BY <1>1, FinishType, BufferedAlone DEF TypeInv

LEMMA BufferedStart ==
    ASSUME TypeInv, NEW client \in Clients,
           \/ client \in Requests /\ StartRequest(client)
           \/ client \in Commands /\ (StartBySerial(client) \/ StartByGuid(client))
    PROVE  \A other \in Clients : Buffered(other, ops[other], ops'[other])
<1>1. Buffered(client, ops[client], ops'[client])
  BY StartFields DEF Buffered, Extended, BeforeSave, Copying
<1> QED  BY <1>1, StartFields, BufferedAlone

LEMMA BufferedFind ==
    ASSUME TypeInv, NEW client \in Clients,
           Lookup(client) \/ Fetch(client) \/ CheckAccess(client)
    PROVE  \A other \in Clients : Buffered(other, ops[other], ops'[other])
<1>1. ops[client].pc # "idle" /\ ops[client] \in Ops /\ ops \in [Clients -> Ops]
  BY DEF Lookup, Fetch, CheckAccess, At, TypeInv, TypeOK
<1>2. CASE Finish(client)
  BY <1>2, BufferedFinish
<1>3. ASSUME \A other \in Clients \ {client} : ops'[other] = ops[other],
             ops'[client].pc \notin Extended \cup Copying,
             ops'[client].newOwner = ops[client].newOwner
      PROVE  \A other \in Clients : Buffered(other, ops[other], ops'[other])
  <2>1. Buffered(client, ops[client], ops'[client])
    BY <1>1, <1>3 DEF Buffered
  <2> QED  BY <1>3, <2>1, BufferedAlone
<1>4. CASE Lookup(client) /\ ~ Finish(client)
  <2>1. PICK id \in RowIds :
          ops' = [ops EXCEPT ![client].pc = "fetch", ![client].serial = rows[id].serial]
    BY <1>4 DEF Lookup
  <2> QED  BY <1>1, <1>3, <2>1 DEF Ops, Extended, BeforeSave, Copying
<1>5. CASE Fetch(client) /\ ~ Finish(client)
  <2>1. PICK id \in RowIds :
          ops' = [ops EXCEPT ![client].pc = AfterFetch(client, rows[id]),
                             ![client].id = id, ![client].rec = rows[id]]
    BY <1>5 DEF Fetch
  <2>2. AfterFetch(client, rows[id]) \notin Extended \cup Copying
    BY DEF AfterFetch, Extended, BeforeSave, Copying
  <2> QED  BY <1>1, <1>3, <2>1, <2>2 DEF Ops
<1>6. CASE CheckAccess(client) /\ ~ Finish(client)
  <2>1. Goto(client, "parse")
    BY <1>6 DEF CheckAccess
  <2> QED  BY <1>1, <2>1, BufferedGoto DEF Steps, AssignSteps, Extended, BeforeSave, Copying
<1> QED  BY <1>2, <1>4, <1>5, <1>6

LEMMA BufferedLoad ==
    ASSUME TypeInv, NEW client \in Clients,
           \/ client \in Assigners /\ (ParseAndExtend(client) \/ BackupRead(client))
           \/ client \in UnassignCommands /\ RestoreRead(client)
    PROVE  \A other \in Clients : Buffered(other, ops[other], ops'[other])
<1>1. /\ ops[client].pc \in {"parse", "backup_read", "restore_read"}
      /\ ops[client] \in Ops /\ ops \in [Clients -> Ops]
  BY DEF ParseAndExtend, BackupRead, RestoreRead, At, TypeInv, TypeOK
<1>2. CASE Finish(client)
  BY <1>2, BufferedFinish
<1>3. CASE Goto(client, "revoke")
  BY <1>1, <1>3, BufferedGoto DEF Steps, UnassignSteps, Extended, BeforeSave, Copying
<1> DEFINE guid == ops[client].rec.guid
<1>4. CASE client \in Assigners /\ ParseAndExtend(client) /\ ~ Finish(client)
  <2>1. /\ Parses(files[guid]) /\ CanExtend(files[guid]) /\ ops[client].pc = "parse"
        /\ ops' = [ops EXCEPT ![client].pc = "backup_read",
                     ![client].voucher = ExtendVoucher(files[guid], ops[client].newOwner)]
    BY <1>4 DEF ParseAndExtend, Guid, At
  <2>2. /\ ops'[client] = [ops[client] EXCEPT !.pc = "backup_read",
                              !.voucher = ExtendVoucher(files[guid], ops[client].newOwner)]
        /\ \A other \in Clients \ {client} : ops'[other] = ops[other]
    BY <1>1, <2>1
  <2>3. Buffered(client, ops[client], ops'[client])
    BY <1>1, <1>4, <2>1, <2>2 DEF Buffered, Extended, BeforeSave, Copying, Ops
  <2> QED  BY <2>2, <2>3, BufferedAlone
<1>5. CASE client \in Assigners /\ BackupRead(client) /\ ~ Finish(client)
  <2>1. /\ ops[client].pc = "backup_read" /\ files[guid] # NoFile
        /\ ops' = [ops EXCEPT ![client].pc = "backup_open", ![client].data = files[guid]]
    BY <1>5 DEF BackupRead, Guid, At
  <2>2. /\ ops'[client] = [ops[client] EXCEPT !.pc = "backup_open", !.data = files[guid]]
        /\ \A other \in Clients \ {client} : ops'[other] = ops[other]
    BY <1>1, <2>1
  <2>3. Buffered(client, ops[client], ops'[client])
    BY <1>1, <2>1, <2>2 DEF Buffered, Extended, BeforeSave, Copying, Started, Ops
  <2> QED  BY <2>2, <2>3, BufferedAlone
<1>6. CASE /\ client \in UnassignCommands /\ RestoreRead(client) /\ ~ Goto(client, "revoke")
  <2>1. /\ ops[client].pc = "restore_read" /\ backups[guid] # NoFile
        /\ ops' = [ops EXCEPT ![client].pc = "restore_open", ![client].data = backups[guid]]
    BY <1>6 DEF RestoreRead, Guid, At
  <2>2. /\ ops'[client] = [ops[client] EXCEPT !.pc = "restore_open", !.data = backups[guid]]
        /\ \A other \in Clients \ {client} : ops'[other] = ops[other]
    BY <1>1, <2>1
  <2>3. Buffered(client, ops[client], ops'[client])
    BY <1>1, <2>1, <2>2 DEF Buffered, Extended, BeforeSave, Copying, Started, Ops
  <2> QED  BY <2>2, <2>3, BufferedAlone
<1> QED  BY <1>2, <1>3, <1>4, <1>5, <1>6

LEMMA BufferedSteps ==
    ASSUME TypeInv, Next
    PROVE  \A client \in Clients : Buffered(client, ops[client], ops'[client])
<1> DEFINE Kept == \A client \in Clients : Buffered(client, ops[client], ops'[client])
<1> USE DEF Steps, AssignSteps, UnassignSteps, Extended, BeforeSave, Copying
<1>1. ASSUME NEW client \in Assigners, AssignStep(client)
      PROVE  Kept
  <2>1. client \in Clients
    BY DEF Assigners, Clients, Commands
  <2>2. CASE BackupOpen(client) \/ BackupWrite(client) \/ SaveOpen(client) \/ SaveWrite(client)
    BY <2>1, <2>2, BufferedGoto DEF BackupOpen, BackupWrite, SaveOpen, SaveWrite, At
  <2>3. CASE Mark(client) \/ GrantCustodian(client) \/ GrantOwnerKey(client)
    BY <2>1, <2>3, BufferedGoto, BufferedFinish DEF Mark, GrantCustodian, GrantOwnerKey, At
  <2> QED  BY <1>1, <2>1, <2>2, <2>3, BufferedLoad DEF AssignStep
<1>2. ASSUME NEW command \in UnassignCommands, UnassignStep(command)
      PROVE  Kept
  <2>1. command \in Clients
    BY DEF Clients, Commands
  <2>2. CASE Unmark(command) \/ RestoreOpen(command) \/ RestoreWrite(command)
    BY <2>1, <2>2, BufferedGoto DEF Unmark, RestoreOpen, RestoreWrite, At
  <2>3. CASE RemoveBackup(command) \/ RevokeGrants(command)
    BY <2>1, <2>3, BufferedGoto, BufferedFinish DEF RemoveBackup, RevokeGrants, At
  <2> QED  BY <1>2, <2>1, <2>2, <2>3, BufferedLoad DEF UnassignStep
<1>3. ASSUME NEW client \in Clients, StepFails(client)
      PROVE  Kept
  <2>1. ops[client].pc # "idle"
    BY <1>3 DEF StepFails, At
  <2>2. \/ Finish(client)
        \/ \E step \in {"custodian", "owner_key", "revoke"} : Goto(client, step)
    BY <1>3 DEF StepFails, Continuation
  <2> QED  BY <2>1, <2>2, BufferedGoto, BufferedFinish
<1>4. CASE ServerCrash
  BY <1>4 DEF ServerCrash, Buffered, NoOp
<1>5. ASSUME NEW request \in Requests, StartRequest(request) \/ CheckAccess(request)
      PROVE  Kept
  BY <1>5, BufferedStart, BufferedFind DEF Clients
<1>6. ASSUME NEW command \in Commands,
             \/ StartBySerial(command) \/ StartByGuid(command) \/ Lookup(command)
             \/ KillCommand(command)
      PROVE  Kept
  BY <1>6, BufferedStart, BufferedFind, BufferedFinish DEF Clients, KillCommand
<1>7. ASSUME NEW client \in Clients, Fetch(client)
      PROVE  Kept
  BY <1>7, BufferedFind
<1> QED
  BY <1>1, <1>2, <1>3, <1>4, <1>5, <1>6, <1>7 DEF Next, Operation, Disturbance

\* Which operation writes what into the file and the backup of a voucher.
Saves(client, guid) ==
    /\ ops[client].pc = "save_write" /\ Guid(client) = guid
    /\ files'[guid] = ops[client].voucher
    /\ saved'[guid] = saved[guid] \cup {ops[client].newOwner}

Restores(client, guid) ==
    /\ ops[client].pc = "restore_write" /\ Guid(client) = guid
    /\ files'[guid] = ops[client].data

BacksUp(client, guid) ==
    /\ ops[client].pc = "backup_write" /\ Guid(client) = guid
    /\ backups'[guid] = ops[client].data

LEMMA FileSteps ==
    ASSUME TypeInv, Next, NEW guid \in Guids
    PROVE  /\ \/ files'[guid] \in {files[guid], Torn}
              \/ \E client \in Clients : client \in Assigners /\ Saves(client, guid)
              \/ \E client \in Clients : Restores(client, guid)
           /\ \/ backups'[guid] \in {backups[guid], Torn, NoFile}
              \/ \E client \in Clients : BacksUp(client, guid)
           /\ \/ saved'[guid] = saved[guid]
              \/ \E client \in Clients : client \in Assigners /\ Saves(client, guid)
<1>1. CASE UNCHANGED <<files, backups, saved>>
  BY <1>1
<1>2. ASSUME NEW client \in Assigners,
             \/ BackupOpen(client) \/ BackupWrite(client)
             \/ SaveOpen(client) \/ SaveWrite(client)
      PROVE  /\ files'[guid] \in {files[guid], Torn} \/ Saves(client, guid)
             /\ backups'[guid] \in {backups[guid], Torn} \/ BacksUp(client, guid)
             /\ saved'[guid] = saved[guid] \/ Saves(client, guid)
  BY <1>2 DEF BackupOpen, BackupWrite, SaveOpen, SaveWrite, At, TypeInv, TypeOK, Saves, BacksUp
<1>3. ASSUME NEW command \in UnassignCommands,
             RestoreOpen(command) \/ RestoreWrite(command) \/ RemoveBackup(command)
      PROVE  /\ files'[guid] \in {files[guid], Torn} \/ Restores(command, guid)
             /\ backups'[guid] \in {backups[guid], NoFile} /\ saved'[guid] = saved[guid]
  BY <1>3 DEF RestoreOpen, RestoreWrite, RemoveBackup, At, TypeInv, TypeOK, Restores
<1>4. \/ UNCHANGED <<files, backups, saved>>
      \/ \E client \in Assigners : \/ BackupOpen(client) \/ BackupWrite(client)
                                    \/ SaveOpen(client) \/ SaveWrite(client)
      \/ \E command \in UnassignCommands :
            RestoreOpen(command) \/ RestoreWrite(command) \/ RemoveBackup(command)
  BY DEF Next, Operation, Disturbance, StartRequest, CheckAccess, StartBySerial, StartByGuid,
         Lookup, Fetch, StepFails, AssignStep, ParseAndExtend, BackupRead, Mark, GrantCustodian,
         GrantOwnerKey, UnassignStep, Unmark, RestoreRead, RevokeGrants, KillCommand, ServerCrash
<1> QED  BY <1>1, <1>2, <1>3, <1>4 DEF Assigners, Clients, Commands

-------------------------------------------------------------------------------
(***************************************************************************)
(* Files, backups and buffers stay genuine in every interleaving, with     *)
(* crashes and errors as well.                                             *)
(***************************************************************************)
LEMMA GenuineExtendable ==
    ASSUME Own \notin NewOwners, NEW guid \in Guids, saved[guid] \subseteq NewOwners,
           Genuine(guid, files[guid]), Parses(files[guid]), CanExtend(files[guid])
    PROVE  files[guid] = Original(guid)
<1>1. ASSUME NEW customer \in saved[guid], files[guid] = SignedTo(guid, customer)
      PROVE  FALSE
  BY <1>1, SignedFacts, AssignmentAssumption DEF CanExtend
<1>2. files[guid] \notin {NoFile, Torn}
  BY ChainFacts DEF Parses
<1> QED  BY <1>1, <1>2 DEF Genuine

LEMMA GenuineInit == Init => GenuineInv
BY DEF Init, GenuineInv, OpGenuine, Genuine, Original, NoOp, Extended, BeforeSave, Copying

LEMMA GenuineStep ==
    ASSUME Own \notin NewOwners, TypeInv, GenuineInv, Next
    PROVE  GenuineInv'
<1>1. \A guid \in Guids : saved[guid] \subseteq saved'[guid]
  BY SavedGrows
<1>2. ASSUME NEW client \in Clients, client \in Assigners, NEW guid \in Guids,
             Saves(client, guid)
      PROVE  /\ ops[client].newOwner \in NewOwners
             /\ files'[guid] = SignedTo(guid, ops[client].newOwner)
             /\ ops[client].newOwner \in saved'[guid]
  BY <1>2 DEF GenuineInv, OpGenuine, Saves, Guid, Extended
<1>3. ASSUME NEW guid \in Guids
      PROVE  /\ saved'[guid] \subseteq NewOwners
             /\ Genuine(guid, files[guid])' /\ Genuine(guid, backups[guid])'
  <2>1. saved'[guid] \subseteq NewOwners
    BY <1>2, FileSteps DEF GenuineInv, Saves
  <2>2. Genuine(guid, files[guid])'
    <3>1. CASE files'[guid] \in {files[guid], Torn}
      BY <1>1, <3>1 DEF GenuineInv, Genuine, Original, SignedTo
    <3>2. ASSUME NEW client \in Clients, client \in Assigners, Saves(client, guid)
          PROVE  Genuine(guid, files[guid])'
      BY <1>2, <3>2 DEF Genuine, SignedTo
    <3>3. ASSUME NEW client \in Clients, Restores(client, guid)
          PROVE  Genuine(guid, files[guid])'
      BY <1>1, <3>3 DEF GenuineInv, OpGenuine, Restores, Guid, Copying, Genuine, Original, SignedTo
    <3> QED  BY <3>1, <3>2, <3>3, FileSteps
  <2>3. Genuine(guid, backups[guid])'
    <3>1. CASE backups'[guid] \in {backups[guid], Torn, NoFile}
      BY <1>1, <3>1 DEF GenuineInv, Genuine, Original, SignedTo
    <3>2. ASSUME NEW client \in Clients, BacksUp(client, guid)
          PROVE  Genuine(guid, backups[guid])'
      BY <1>1, <3>2 DEF GenuineInv, OpGenuine, BacksUp, Guid, Copying, Genuine, Original, SignedTo
    <3> QED  BY <3>1, <3>2, FileSteps
  <2> QED  BY <2>1, <2>2, <2>3
<1>4. ASSUME NEW client \in Clients
      PROVE  OpGenuine(client, ops[client])'
  <2>1. Buffered(client, ops[client], ops'[client]) /\ OpGenuine(client, ops[client])
    BY BufferedSteps DEF GenuineInv
  <2>2. ops[client].pc \notin Started => ops[client].rec.guid \in Guids
    BY FetchedFacts DEF Guid
  <2>3. client \in Assigners /\ ops'[client].pc # "idle" => ops'[client].newOwner \in NewOwners
    BY <2>1 DEF Buffered, OpGenuine
  <2>4. ASSUME ops'[client].pc \in Extended
        PROVE  ops'[client].voucher = SignedTo(ops'[client].rec.guid, ops'[client].newOwner)
    <3>1. CASE ops[client].pc = "parse" /\ Parses(files[ops[client].rec.guid])
      <4>1. ops[client].rec.guid \in Guids
        BY <2>2, <3>1 DEF Started
      <4> QED
        BY <2>1, <2>4, <3>1, <4>1, GenuineExtendable
        DEF Buffered, Extended, BeforeSave, GenuineInv, SignedTo, Original
    <3>2. CASE ops[client].pc \in Extended
      BY <2>1, <2>4, <3>2 DEF Buffered, OpGenuine, Extended, BeforeSave
    <3> QED  BY <2>1, <2>4, <3>1, <3>2 DEF Buffered
  <2>5. ASSUME ops'[client].pc \in Copying
        PROVE  Genuine(ops[client].rec.guid, ops[client].data)'
    <3>1. ops[client].pc \notin Started /\ ops'[client].rec = ops[client].rec
      BY <2>1, <2>5 DEF Buffered, Copying, Started
    <3>2. ops[client].rec.guid \in Guids
      BY <2>2, <3>1
    <3>3. Genuine(ops[client].rec.guid, ops'[client].data)
      BY <2>1, <2>5, <3>2 DEF Buffered, OpGenuine, GenuineInv
    <3> QED  BY <1>1, <3>1, <3>2, <3>3 DEF Genuine, Original, SignedTo
  <2> QED  BY <2>3, <2>4, <2>5 DEF OpGenuine, SignedTo
<1> QED  BY <1>3, <1>4 DEF GenuineInv

-------------------------------------------------------------------------------
(***************************************************************************)
(* Types.  An attempt in progress has a row, and at "mark" a status.       *)
(***************************************************************************)
PushesOK ==
    \A pusher \in Pushers :
       /\ pushes[pusher].pc # "idle" => pushes[pusher].id \in RowIds
       /\ pushes[pusher].pc = "mark" => pushes[pusher].status \in Statuses

ManagerTypeInv == ManagerTypeOK /\ OpsOK /\ PushesOK

LEMMA IsTypeInv == ManagerTypeInv => TypeInv
BY DEF ManagerTypeInv, ManagerTypeOK, TypeInv

LEMMA ManagerTypeInit == ManagerInit => ManagerTypeInv
<1> SUFFICES ASSUME ManagerInit PROVE ManagerTypeInv
  OBVIOUS
<1>1. TypeOK /\ OpsOK
  BY InitType DEF ManagerInit, TypeInv
<1>2. NoPush \in Pushes /\ NoPush.pc = "idle" /\ NoDownload \in Downloads
  BY DEF NoPush, Pushes, NoDownload, Downloads
<1> QED
  BY <1>1, <1>2 DEF ManagerInit, ManagerTypeInv, ManagerTypeOK, PushesOK

\* What an attempt may become: idle, or well formed.
WellFormed(push) ==
    /\ push \in Pushes
    /\ push.pc = "idle" => push = NoPush
    /\ push.pc = "send" => Parses(push.voucher)
    /\ push.pc # "idle" => push.id \in RowIds
    /\ push.pc = "mark" => push.status \in Statuses

LEMMA PushesChange ==
    ASSUME ManagerTypeInv, NEW pusher \in Pushers,
           \E push : WellFormed(push) /\ pushes' = [pushes EXCEPT ![pusher] = push],
           TypeOK', OpsOK', UNCHANGED downloads, sent' \in [Guids -> SUBSET Chains],
           mixed' \in BOOLEAN
    PROVE  ManagerTypeInv'
<1>1. PICK push : WellFormed(push) /\ pushes' = [pushes EXCEPT ![pusher] = push]
  OBVIOUS
<1>2. /\ pushes' \in [Pushers -> Pushes] /\ pushes'[pusher] = push
      /\ \A other \in Pushers \ {pusher} : pushes'[other] = pushes[other]
  BY <1>1 DEF ManagerTypeInv, ManagerTypeOK, WellFormed
<1> QED
  BY <1>1, <1>2 DEF ManagerTypeInv, ManagerTypeOK, PushesOK, WellFormed, Parses

LEMMA VarsKept ==
    ASSUME ManagerTypeInv, UNCHANGED vars
    PROVE  TypeOK' /\ OpsOK'
BY TypeStep, IsTypeInv DEF TypeInv

LEMMA AttemptType ==
    ASSUME ManagerTypeInv, NEW pusher \in Pushers, NEW id \in RowIds, Attempt(pusher, id)
    PROVE  ManagerTypeInv'
<1> DEFINE push == [NoPush EXCEPT !.pc = "read", !.id = id]
<1>1. WellFormed(push)
  BY DEF WellFormed, NoPush, Pushes
<1>2. mixed' \in BOOLEAN
  BY DEF Attempt
<1> QED  BY <1>1, <1>2, VarsKept, PushesChange DEF Attempt, ManagerTypeInv, ManagerTypeOK

LEMMA PushTypes ==
    ASSUME ManagerTypeInv, NEW pusher \in Pushers, pushes[pusher].pc # "idle"
    PROVE  /\ pushes[pusher] \in Pushes /\ pushes \in [Pushers -> Pushes]
           /\ pushes[pusher].id \in RowIds /\ PushedGuid(pusher) \in Guids
           /\ pushes[pusher].pc = "mark" => pushes[pusher].status \in Statuses
           /\ pushes[pusher].pc = "send" => pushes[pusher].voucher \in Chains
BY DEF ManagerTypeInv, ManagerTypeOK, PushesOK, PushedGuid, TypeOK, Rows, Parses

LEMMA ReadFileType ==
    ASSUME ManagerTypeInv, NEW pusher \in Pushers, ReadFile(pusher)
    PROVE  ManagerTypeInv'
<1>1. /\ pushes[pusher] \in Pushes /\ pushes \in [Pushers -> Pushes]
      /\ pushes[pusher].id \in RowIds
  BY PushTypes DEF ReadFile
<1>2. \E push : WellFormed(push) /\ pushes' = [pushes EXCEPT ![pusher] = push]
  <2> DEFINE file == files[PushedGuid(pusher)]
             read == [pushes[pusher] EXCEPT !.pc = "send", !.voucher = file]
             failed(status) == [pushes[pusher] EXCEPT !.pc = "mark", !.status = status]
  <2>1. CASE Parses(file)
    <3>1. WellFormed(read)
      BY <1>1, <2>1 DEF WellFormed, Pushes, Parses
    <3>2. pushes' = [pushes EXCEPT ![pusher] = read]
      BY <1>1, <2>1 DEF ReadFile
    <3> QED  BY <3>1, <3>2
  <2>2. CASE ~ Parses(file)
    <3>1. PICK status \in {"pending", "failed"} :
            pushes' = [pushes EXCEPT ![pusher].pc = "mark", ![pusher].status = status]
      BY <2>2 DEF ReadFile
    <3>2. pushes' = [pushes EXCEPT ![pusher] = failed(status)]
      BY <1>1, <3>1
    <3>3. WellFormed(failed(status))
      BY <1>1 DEF WellFormed, Pushes, Statuses
    <3> QED  BY <3>2, <3>3
  <2> QED  BY <2>1, <2>2
<1> QED  BY <1>2, VarsKept, PushesChange DEF ReadFile, ManagerTypeInv, ManagerTypeOK

LEMMA SendType ==
    ASSUME ManagerTypeInv, NEW pusher \in Pushers, Send(pusher)
    PROVE  ManagerTypeInv'
<1>1. /\ pushes[pusher] \in Pushes /\ pushes \in [Pushers -> Pushes]
      /\ pushes[pusher].id \in RowIds /\ PushedGuid(pusher) \in Guids
      /\ pushes[pusher].voucher \in Chains
  BY PushTypes DEF Send
<1>2. PICK status \in {"succeeded", "pending", "failed"} :
        pushes' = [pushes EXCEPT ![pusher].pc = "mark", ![pusher].status = status]
  BY DEF Send
<1>3. /\ WellFormed([pushes[pusher] EXCEPT !.pc = "mark", !.status = status])
      /\ pushes' = [pushes EXCEPT ![pusher] =
                      [pushes[pusher] EXCEPT !.pc = "mark", !.status = status]]
  BY <1>1, <1>2 DEF WellFormed, Pushes, Statuses
<1>4. sent' \in [Guids -> SUBSET Chains]
  BY <1>1 DEF Send, ManagerTypeInv, ManagerTypeOK
<1> QED  BY <1>3, <1>4, VarsKept, PushesChange DEF Send, ManagerTypeInv, ManagerTypeOK

LEMMA MarkAttemptType ==
    ASSUME ManagerTypeInv, NEW pusher \in Pushers, MarkAttempt(pusher)
    PROVE  ManagerTypeInv'
<1>1. /\ pushes[pusher] \in Pushes /\ pushes \in [Pushers -> Pushes]
      /\ pushes[pusher].id \in RowIds /\ pushes[pusher].status \in Statuses
  BY PushTypes DEF MarkAttempt
<1>2. /\ rows' \in [RowIds -> Rows]
      /\ \A id \in RowIds : rows'[id].guid = rows[id].guid
  <2>1. /\ rows \in [RowIds -> Rows]
        /\ rows' = [rows EXCEPT ![pushes[pusher].id].status = pushes[pusher].status]
    BY DEF MarkAttempt, ManagerTypeInv, ManagerTypeOK, TypeOK
  <2> QED  BY <1>1, <2>1 DEF Rows
<1>3. TypeOK' /\ OpsOK'
  BY <1>2 DEF MarkAttempt, ManagerTypeInv, ManagerTypeOK, TypeOK, OpsOK
<1>4. \E push : WellFormed(push) /\ pushes' = [pushes EXCEPT ![pusher] = push]
  <2>1. WellFormed(NoPush)
    BY DEF WellFormed, NoPush, Pushes
  <2>2. /\ WellFormed([pushes[pusher] EXCEPT !.pc = "remove"])
        /\ [pushes EXCEPT ![pusher].pc = "remove"] =
              [pushes EXCEPT ![pusher] = [pushes[pusher] EXCEPT !.pc = "remove"]]
    BY <1>1 DEF WellFormed, Pushes
  <2> QED  BY <2>1, <2>2 DEF MarkAttempt
<1> QED  BY <1>3, <1>4, PushesChange DEF MarkAttempt, ManagerTypeInv, ManagerTypeOK

LEMMA RemoveFileType ==
    ASSUME ManagerTypeInv, NEW pusher \in Pushers, RemoveFile(pusher)
    PROVE  ManagerTypeInv'
<1>1. files' \in [Guids -> FileContents]
  BY DEF RemoveFile, ManagerTypeInv, ManagerTypeOK, TypeOK, FileContents
<1>2. TypeOK' /\ OpsOK'
  BY <1>1 DEF RemoveFile, ManagerTypeInv, ManagerTypeOK, TypeOK, OpsOK
<1>3. WellFormed(NoPush)
  BY DEF WellFormed, NoPush, Pushes
<1> QED  BY <1>2, <1>3, PushesChange DEF RemoveFile, ManagerTypeInv, ManagerTypeOK

LEMMA OperationType ==
    ASSUME ManagerTypeInv, OperationStep
    PROVE  ManagerTypeInv'
<1>1. TypeOK' /\ OpsOK'
  BY IsTypeInv, TypeStep DEF OperationStep, Next, TypeInv
<1>2. downloads' \in [NewOwners -> Downloads]
  <2>1. \A customer \in NewOwners :
           [downloads[customer] EXCEPT
              !.raced = @ \/ (Reverting' /\ downloads[customer] # NoDownload)] \in Downloads
    BY DEF ManagerTypeInv, ManagerTypeOK, Downloads
  <2> QED  BY <2>1 DEF OperationStep
<1>3. mixed' \in BOOLEAN
  BY DEF OperationStep
<1> QED
  BY <1>1, <1>2, <1>3 DEF OperationStep, ManagerTypeInv, ManagerTypeOK, PushesOK

LEMMA DownloadType ==
    ASSUME ManagerTypeInv, NEW customer \in NewOwners,
           CheckDownload(customer) \/ LoadFile(customer)
    PROVE  ManagerTypeInv'
<1>1. TypeOK' /\ OpsOK'
  BY VarsKept DEF CheckDownload, LoadFile
<1>2. downloads' \in [NewOwners -> Downloads]
  <2>1. CASE LoadFile(customer)
    BY <2>1 DEF LoadFile, ManagerTypeInv, ManagerTypeOK, Downloads, NoDownload
  <2>2. CASE CheckDownload(customer)
    <3>1. PICK guid \in Guids :
            downloads' = [downloads EXCEPT ![customer] = [guid |-> guid, raced |-> Reverting]]
      BY <2>2 DEF CheckDownload
    <3>2. Reverting \in BOOLEAN
      BY DEF Reverting
    <3> HIDE DEF Reverting
    <3>3. [guid |-> guid, raced |-> Reverting] \in Downloads
      BY <3>2 DEF Downloads
    <3> QED  BY <3>1, <3>3 DEF ManagerTypeInv, ManagerTypeOK
  <2> QED  BY <2>1, <2>2
<1> QED
  BY <1>1, <1>2 DEF CheckDownload, LoadFile, ManagerTypeInv, ManagerTypeOK, PushesOK

\* The steps of the manager, one by one.
LEMMA ManagerSteps ==
    ASSUME ManagerNext
    PROVE  \/ OperationStep
           \/ \E pusher \in Pushers, id \in RowIds :
                 /\ Attempt(pusher, id)
                 /\ pusher \in Retriers \/ rows[id].status = "pending"
           \/ \E pusher \in Pushers :
                 ReadFile(pusher) \/ Send(pusher) \/ MarkAttempt(pusher) \/ RemoveFile(pusher)
           \/ \E customer \in NewOwners : CheckDownload(customer) \/ LoadFile(customer)
BY DEF ManagerNext, PushStep, PickPending, Retry, Pushers

LEMMA ManagerTypeStep == ManagerTypeInv /\ [ManagerNext]_managerVars => ManagerTypeInv'
<1> SUFFICES ASSUME ManagerTypeInv, [ManagerNext]_managerVars PROVE ManagerTypeInv'
  OBVIOUS
<1>1. CASE UNCHANGED managerVars
  <2>1. TypeOK' /\ OpsOK'
    BY <1>1, VarsKept DEF managerVars
  <2> QED
    BY <1>1, <2>1 DEF managerVars, ManagerTypeInv, ManagerTypeOK, PushesOK
<1>2. CASE ManagerNext
  BY <1>2, ManagerSteps, OperationType, AttemptType, ReadFileType, SendType, MarkAttemptType,
     RemoveFileType, DownloadType
<1> QED  BY <1>1, <1>2

\* Assignments, attempts and downloads keep every variable in its type, although
\* MarkAttempt writes its status over whatever the row holds by then.
THEOREM ManagerTypeCorrect == ManagerSpec => []ManagerTypeOK
<1>1. ManagerTypeInv => ManagerTypeOK
  BY DEF ManagerTypeInv
<1> QED  BY <1>1, ManagerTypeInit, ManagerTypeStep, PTL DEF ManagerSpec

-------------------------------------------------------------------------------
(***************************************************************************)
(* What is sent is genuine: it was read from a file that was.              *)
(***************************************************************************)
Reads == \A pusher \in Pushers :
            pushes[pusher].pc = "send" => Genuine(PushedGuid(pusher), pushes[pusher].voucher)

SentInv == GenuineInv /\ SentIsGenuine /\ Reads

LEMMA SentInit == ManagerInit => SentInv
<1> SUFFICES ASSUME ManagerInit PROVE SentInv
  OBVIOUS
<1>1. GenuineInv
  BY GenuineInit DEF ManagerInit
<1> QED  BY <1>1 DEF ManagerInit, SentInv, SentIsGenuine, Reads, NoPush

\* An attempt changes the file at most by deleting it, and no buffer of an operation.
LEMMA AttemptLeavesGenuine ==
    ASSUME GenuineInv, UNCHANGED <<ops, backups, saved>>,
           \A guid \in Guids : files'[guid] \in {files[guid], NoFile}
    PROVE  GenuineInv'
<1>1. ASSUME NEW guid \in Guids
      PROVE  /\ saved'[guid] \subseteq NewOwners
             /\ Genuine(guid, files[guid])' /\ Genuine(guid, backups[guid])'
  BY DEF GenuineInv, Genuine, Original, SignedTo
<1>2. ASSUME NEW client \in Clients
      PROVE  OpGenuine(client, ops[client])'
  BY DEF GenuineInv, OpGenuine, Genuine, Original, SignedTo
<1> QED  BY <1>1, <1>2 DEF GenuineInv

LEMMA ReadsKept ==
    ASSUME ManagerTypeInv, Reads,
           \A guid \in Guids : saved[guid] \subseteq saved'[guid],
           \A id \in RowIds : rows'[id].guid = rows[id].guid,
           NEW pusher \in Pushers, pushes'[pusher] = pushes[pusher]
    PROVE  pushes'[pusher].pc = "send" => Genuine(PushedGuid(pusher), pushes[pusher].voucher)'
<1> SUFFICES ASSUME pushes'[pusher].pc = "send"
             PROVE  Genuine(PushedGuid(pusher), pushes[pusher].voucher)'
  OBVIOUS
<1>1. pushes[pusher].id \in RowIds /\ PushedGuid(pusher) \in Guids
  BY PushTypes
<1>2. PushedGuid(pusher)' = PushedGuid(pusher)
  BY <1>1 DEF PushedGuid
<1> QED  BY <1>1, <1>2 DEF Reads, Genuine, Original, SignedTo

LEMMA SentStep ==
    Own \notin NewOwners /\ ManagerTypeInv /\ SentInv /\ [ManagerNext]_managerVars => SentInv'
<1> SUFFICES ASSUME Own \notin NewOwners, ManagerTypeInv, SentInv, [ManagerNext]_managerVars
             PROVE  SentInv'
  OBVIOUS
<1>1. CASE UNCHANGED managerVars
  BY <1>1 DEF managerVars, vars, SentInv, GenuineInv, OpGenuine, Genuine, SentIsGenuine,
              Reads, PushedGuid, Original, SignedTo
<1>2. CASE OperationStep
  <2>1. TypeInv /\ Next
    BY <1>2, IsTypeInv DEF OperationStep, Next
  <2>2. GenuineInv'
    BY <2>1, GenuineStep DEF SentInv
  <2>3. /\ \A guid \in Guids : saved[guid] \subseteq saved'[guid]
        /\ \A id \in RowIds : rows'[id].guid = rows[id].guid
        /\ pushes' = pushes /\ sent' = sent
    BY <1>2, <2>1, SavedGrows, ColumnsKept DEF SameColumns, OperationStep
  <2>4. SentIsGenuine'
    BY <2>3 DEF SentInv, SentIsGenuine
  <2>5. Reads'
    BY <2>3, ReadsKept DEF SentInv, Reads
  <2> QED  BY <2>2, <2>4, <2>5 DEF SentInv
<1>3. ASSUME NEW pusher \in Pushers, UNCHANGED <<ops, backups, saved>>, SentIsGenuine',
             \A guid \in Guids : files'[guid] \in {files[guid], NoFile},
             \A id \in RowIds : rows'[id].guid = rows[id].guid,
             \A other \in Pushers \ {pusher} : pushes'[other] = pushes[other],
             pushes'[pusher].pc = "send" =>
                Genuine(PushedGuid(pusher), pushes[pusher].voucher)'
      PROVE  SentInv'
  <2>1. GenuineInv'
    BY <1>3, AttemptLeavesGenuine DEF SentInv
  <2>2. Reads'
    BY <1>3, ReadsKept DEF SentInv, Reads
  <2> QED  BY <1>3, <2>1, <2>2 DEF SentInv
<1> USE DEF ManagerTypeInv, ManagerTypeOK
<1>4. ASSUME NEW pusher \in Pushers, NEW id \in RowIds, Attempt(pusher, id)
      PROVE  SentInv'
  BY <1>3, <1>4 DEF Attempt, NoPush, vars, SentInv, SentIsGenuine
<1>5. ASSUME NEW pusher \in Pushers, ReadFile(pusher)
      PROVE  SentInv'
  <2>1. /\ pushes[pusher] \in Pushes /\ pushes[pusher].id \in RowIds
        /\ PushedGuid(pusher) \in Guids
    BY <1>5, PushTypes DEF ReadFile
  <2>2. PushedGuid(pusher)' = PushedGuid(pusher) /\ UNCHANGED vars
    BY <1>5, <2>1 DEF ReadFile, Pushes, PushedGuid, vars
  <2>3. pushes'[pusher].pc = "send" => pushes'[pusher].voucher = files[PushedGuid(pusher)]
    BY <1>5, <2>1 DEF ReadFile, Pushes
  <2>4. Genuine(PushedGuid(pusher), files[PushedGuid(pusher)])
    BY <2>1 DEF SentInv, GenuineInv
  <2>5. pushes'[pusher].pc = "send" => Genuine(PushedGuid(pusher), pushes[pusher].voucher)'
    BY <2>2, <2>3, <2>4 DEF Genuine, Original, SignedTo, vars
  <2> QED  BY <1>3, <1>5, <2>2, <2>5 DEF ReadFile, vars, SentInv, SentIsGenuine
<1>6. ASSUME NEW pusher \in Pushers, Send(pusher)
      PROVE  SentInv'
  <2>1. /\ PushedGuid(pusher) \in Guids /\ pushes[pusher].voucher \in Chains
        /\ pushes[pusher] \in Pushes
    BY <1>6, PushTypes DEF Send
  <2>2. Genuine(PushedGuid(pusher), pushes[pusher].voucher)
    BY <1>6 DEF SentInv, Reads, Send
  <2>3. \/ sent' = sent
        \/ sent' = [sent EXCEPT ![PushedGuid(pusher)] = @ \cup {pushes[pusher].voucher}]
    BY <1>6 DEF Send
  <2>4. saved' = saved /\ pushes'[pusher].pc = "mark"
    BY <1>6, <2>1 DEF Send, vars, Pushes
  <2>5. SentIsGenuine'
    BY <2>1, <2>2, <2>3, <2>4, ChainFacts DEF SentInv, SentIsGenuine, Genuine, Original, SignedTo
  <2> QED  BY <1>3, <1>6, <2>4, <2>5 DEF Send, vars
<1>7. ASSUME NEW pusher \in Pushers, MarkAttempt(pusher) \/ RemoveFile(pusher)
      PROVE  SentInv'
  <2>1. /\ pushes[pusher] \in Pushes /\ pushes'[pusher].pc # "send"
        /\ \A other \in Pushers \ {pusher} : pushes'[other] = pushes[other]
    BY <1>7, PushTypes DEF MarkAttempt, RemoveFile, NoPush, Pushes
  <2>2. /\ \A id \in RowIds : rows'[id].guid = rows[id].guid
        /\ \A guid \in Guids : files'[guid] \in {files[guid], NoFile}
    BY <1>7 DEF MarkAttempt, RemoveFile, TypeOK, Rows
  <2> QED
    BY <1>3, <1>7, <2>1, <2>2 DEF MarkAttempt, RemoveFile, SentInv, SentIsGenuine
<1>8. ASSUME NEW customer \in NewOwners, CheckDownload(customer) \/ LoadFile(customer)
      PROVE  SentInv'
  <2>1. UNCHANGED vars /\ UNCHANGED <<pushes, sent>>
    BY <1>8 DEF CheckDownload, LoadFile
  <2>2. GenuineInv'
    BY <2>1 DEF vars, SentInv, GenuineInv, OpGenuine, Genuine, Original, SignedTo
  <2>3. SentIsGenuine'
    BY <2>1 DEF vars, SentInv, SentIsGenuine
  <2> QED  BY <2>1, <2>2, <2>3 DEF vars, SentInv, Reads, Genuine, PushedGuid, Original, SignedTo
<1> QED  BY <1>1, <1>2, <1>4, <1>5, <1>6, <1>7, <1>8, ManagerSteps

\* Whatever overlaps, a receiver downstream gets the voucher as it was received or
\* signed over once to a customer it was saved for: the attempt sends only a file that
\* parses, and ExtendVoucher refuses a voucher whose tip is a customer's key.
THEOREM SentAlwaysGenuine ==
    ASSUME Own \notin NewOwners
    PROVE  ManagerSpec => []SentIsGenuine
<1>1. ManagerTypeInv /\ SentInv /\ [ManagerNext]_managerVars => SentInv'
  BY SentStep
<1>2. ManagerSpec => [](ManagerTypeInv /\ SentInv)
  BY <1>1, ManagerTypeInit, ManagerTypeStep, SentInit, PTL DEF ManagerSpec
<1>3. SentInv => SentIsGenuine
  BY DEF SentInv
<1> QED  BY <1>2, <1>3, PTL

-------------------------------------------------------------------------------
(***************************************************************************)
(* What a file is deleted for.  As long as nothing was mixed, attempts     *)
(* come one by one and between operations, on rows that are neither        *)
(* assigned nor delivered; the operations never save nothing.              *)
(***************************************************************************)
OpPresent(op) ==
    /\ op.pc \in Extended => op.voucher # NoFile
    /\ op.pc \in Copying => op.data # NoFile

Present == \A client \in Clients : OpPresent(ops[client])

AttemptsApart ==
    \A pusher \in Pushers :
       LET push == pushes[pusher] IN
       push.pc # "idle" =>
          /\ Quiescent
          /\ \A other \in Pushers : pushes[other].pc # "idle" => other = pusher
          /\ push.pc # "remove" => rows[push.id].status \notin {"assigned", "succeeded"}
          /\ push.pc = "mark" => push.status \in {"succeeded", "pending", "failed"}
          /\ push.pc = "remove" => rows[push.id].status = "succeeded"

RecordsTell ==
    \A id \in RowIds : rows[id].assignedTo # NoOne <=> rows[id].status = "assigned"

Recorded(guid) ==
    files[guid] = NoFile =>
       \E id \in RowIds : rows[id].guid = guid /\ rows[id].status = "succeeded"

OpHolds(op) ==
    /\ op.pc \in Saving => files[op.rec.guid] # NoFile
    /\ op.pc = "unmark" => rows[op.id].status # "succeeded"

ApartInv ==
    /\ AttemptsApart
    /\ RecordsTell
    /\ \A guid \in Guids : Recorded(guid)
    /\ \A client \in Clients : OpHolds(ops[client])

HandInv == Present /\ (mixed \/ ApartInv)

LEMMA PresentStep ==
    ASSUME TypeInv, Present, Next
    PROVE  Present'
<1> SUFFICES ASSUME NEW client \in Clients PROVE OpPresent(ops'[client])
  BY DEF Present, OpPresent
<1>1. Buffered(client, ops[client], ops'[client]) /\ OpPresent(ops[client])
  BY BufferedSteps DEF Present
<1>2. ASSUME ops'[client].pc \in Extended
      PROVE  ops'[client].voucher # NoFile
  <2>1. CASE ops[client].pc \in Extended /\ ops'[client].voucher = ops[client].voucher
    BY <1>1, <2>1 DEF OpPresent
  <2>2. CASE /\ ops[client].pc = "parse" /\ client \in Assigners
             /\ Parses(files[ops[client].rec.guid])
             /\ ops'[client].voucher =
                   ExtendVoucher(files[ops[client].rec.guid], ops[client].newOwner)
    <3>1. ops[client].newOwner \in Parties
      BY <2>2, FetchedFacts DEF Started
    <3> QED  BY <2>2, <3>1, ChainFacts DEF Parses
  <2> QED  BY <1>1, <1>2, <2>1, <2>2 DEF Buffered
<1>3. ASSUME ops'[client].pc \in Copying
      PROVE  ops'[client].data # NoFile
  BY <1>1, <1>3 DEF Buffered, OpPresent
<1> QED  BY <1>2, <1>3 DEF OpPresent

\* Only RemoveFile makes a voucher file disappear.
LEMMA FilesStay ==
    ASSUME TypeInv, Present, Next, NEW guid \in Guids, files'[guid] = NoFile
    PROVE  files[guid] = NoFile
<1>1. ASSUME NEW client \in Clients, Saves(client, guid) \/ Restores(client, guid)
      PROVE  FALSE
  BY <1>1 DEF Saves, Restores, Present, OpPresent, Extended, Copying
<1>2. files'[guid] \in {files[guid], Torn}
  BY <1>1, FileSteps
<1> QED  BY <1>2, StoreAssumption

LEMMA HoldsStep ==
    ASSUME TypeInv, Present, Next, \A client \in Clients : OpHolds(ops[client])
    PROVE  \A client \in Clients : OpHolds(ops[client])'
<1> SUFFICES ASSUME NEW client \in Clients PROVE OpHolds(ops[client])'
  OBVIOUS
<1>1. /\ Move(client, ops[client], ops'[client]) /\ OpHolds(ops[client])
      /\ Buffered(client, ops[client], ops'[client])
  BY Moves, BufferedSteps
<1>2. ASSUME ops'[client].pc \in Saving
      PROVE  files'[ops'[client].rec.guid] # NoFile
  <2>1. /\ ops[client].pc \in Saving \cup {"parse"} /\ ops'[client].rec = ops[client].rec
        /\ ops[client].pc = "parse" => ops'[client].pc = "backup_read"
    BY <1>1, <1>2 DEF Move, SameArguments, Saving, BeforeSave, NoOp, UnassignSteps
  <2>2. PICK guid \in Guids : guid = ops[client].rec.guid
    BY <2>1, FetchedFacts DEF Saving, BeforeSave, Started, Guid
  <2>3. CASE ops[client].pc \in Saving
    BY <1>1, <2>1, <2>2, <2>3, FilesStay DEF OpHolds
  <2>4. CASE ops[client].pc = "parse"
    <3>1. Parses(files[guid])
      BY <1>1, <2>1, <2>2, <2>4 DEF Buffered, Extended, BeforeSave
    <3> QED  BY <2>1, <2>2, <3>1, FilesStay, ChainFacts DEF Parses
  <2> QED  BY <2>1, <2>3, <2>4
<1>3. ASSUME ops'[client].pc = "unmark"
      PROVE  rows'[ops'[client].id].status # "succeeded"
  <2>1. /\ ops'[client].id \in RowIds
        /\ rows[ops'[client].id].status # "succeeded"
    <3>1. \/ ops'[client] = ops[client]
          \/ /\ ops'[client].id \in RowIds /\ rows[ops'[client].id].status = "assigned"
      BY <1>1, <1>3 DEF Move, SameArguments, NoOp
    <3>2. CASE ops'[client] = ops[client]
      BY <1>1, <1>3, <3>2, FetchedFacts DEF OpHolds, Started
    <3> QED  BY <3>1, <3>2
  <2> QED  BY <2>1, RowSteps DEF Marks, Unmarks, RestKept
<1> QED  BY <1>2, <1>3 DEF OpHolds

\* A step of an operation, while no attempt is in progress.
LEMMA OperationStaysApart ==
    ASSUME TypeInv, Present, ApartInv, Next, pushes' = pushes, ~ Pushing
    PROVE  ApartInv'
<1>1. AttemptsApart'
  BY DEF AttemptsApart, Pushing
<1>2. \A client \in Clients : OpHolds(ops[client])'
  BY HoldsStep DEF ApartInv
<1>3. RecordsTell'
  <2>1. ASSUME NEW client \in Clients, Marks(client) \/ Unmarks(client)
        PROVE  RecordsTell'
    BY <2>1, StoreAssumption DEF Marks, Unmarks, RestKept, ApartInv, RecordsTell
  <2> QED  BY <2>1, RowSteps DEF ApartInv, RecordsTell
<1>4. ASSUME NEW guid \in Guids, files'[guid] = NoFile
      PROVE  \E id \in RowIds : rows'[id].guid = guid /\ rows'[id].status = "succeeded"
  <2>1. files[guid] = NoFile
    BY <1>4, FilesStay
  <2>2. PICK id \in RowIds : rows[id].guid = guid /\ rows[id].status = "succeeded"
    BY <2>1 DEF ApartInv, Recorded
  <2>3. rows'[id].guid = guid
    BY <2>2, ColumnsKept DEF SameColumns
  <2>4. ASSUME NEW client \in Clients, Marks(client)
        PROVE  rows'[id] = rows[id]
    <3>1. ops[client].id \in RowIds /\ rows[ops[client].id].guid # guid
      BY <2>1, <2>4, FetchedFacts
      DEF Marks, Started, Guid, ApartInv, OpHolds, Saving, BeforeSave
    <3> QED  BY <2>2, <2>4, <3>1 DEF Marks, RestKept
  <2>5. ASSUME NEW client \in Clients, Unmarks(client)
        PROVE  rows'[id] = rows[id]
    BY <2>2, <2>5 DEF Unmarks, RestKept, ApartInv, OpHolds
  <2> QED  BY <2>2, <2>3, <2>4, <2>5, RowSteps
<1> QED  BY <1>1, <1>2, <1>3, <1>4 DEF ApartInv, Recorded

\* An attempt that changes neither rows nor files.
LEMMA AttemptStaysApart ==
    ASSUME ApartInv, UNCHANGED vars, AttemptsApart'
    PROVE  ApartInv'
BY DEF ApartInv, vars, RecordsTell, Recorded, OpHolds

LEMMA BeginsApart ==
    ASSUME ManagerTypeInv, ApartInv, NEW pusher \in Pushers, NEW id \in RowIds,
           Attempt(pusher, id), pusher \in Retriers \/ rows[id].status = "pending",
           ~ Mixes(pusher, id)
    PROVE  ApartInv'
<1>1. /\ Quiescent /\ \A other \in Pushers : pushes[other].pc = "idle"
      /\ rows[id].status \notin {"assigned", "succeeded"}
  BY DEF Mixes, Pushing
<1>2. /\ pushes'[pusher].pc = "read" /\ pushes'[pusher].id = id
      /\ \A other \in Pushers \ {pusher} : pushes'[other].pc = "idle"
      /\ UNCHANGED vars
  BY <1>1 DEF Attempt, NoPush, ManagerTypeInv, ManagerTypeOK
<1>3. Quiescent'
  BY <1>1, <1>2 DEF Quiescent, At, vars
<1>4. AttemptsApart'
  BY <1>1, <1>2, <1>3 DEF AttemptsApart, vars
<1> QED  BY <1>2, <1>4, AttemptStaysApart

LEMMA SendsApart ==
    ASSUME ManagerTypeInv, ApartInv, NEW pusher \in Pushers, ReadFile(pusher) \/ Send(pusher)
    PROVE  ApartInv'
<1>1. /\ pushes[pusher].pc \in {"read", "send"} /\ UNCHANGED vars
      /\ pushes[pusher] \in Pushes /\ pushes \in [Pushers -> Pushes]
  BY PushTypes DEF ReadFile, Send
<1>2. /\ pushes'[pusher].pc \in {"send", "mark"} /\ pushes'[pusher].id = pushes[pusher].id
      /\ pushes'[pusher].pc = "mark" =>
            pushes'[pusher].status \in {"succeeded", "pending", "failed"}
      /\ \A other \in Pushers \ {pusher} : pushes'[other] = pushes[other]
  <2>1. CASE ReadFile(pusher)
    BY <1>1, <2>1 DEF ReadFile, Pushes
  <2>2. CASE Send(pusher)
    <3>1. PICK status \in {"succeeded", "pending", "failed"} :
            pushes' = [pushes EXCEPT ![pusher].pc = "mark", ![pusher].status = status]
      BY <2>2 DEF Send
    <3> QED  BY <1>1, <3>1 DEF Pushes
  <2> QED  BY <2>1, <2>2
<1>3. /\ Quiescent' /\ rows[pushes[pusher].id].status \notin {"assigned", "succeeded"}
      /\ \A other \in Pushers \ {pusher} : pushes[other].pc = "idle"
  BY <1>1 DEF ApartInv, AttemptsApart, Quiescent, At, vars
<1>4. AttemptsApart'
  BY <1>1, <1>2, <1>3 DEF AttemptsApart, vars
<1> QED  BY <1>1, <1>4, AttemptStaysApart

LEMMA MarksApart ==
    ASSUME ManagerTypeInv, ApartInv, NEW pusher \in Pushers, MarkAttempt(pusher)
    PROVE  ApartInv'
<1> DEFINE id == pushes[pusher].id
<1>1. /\ pushes[pusher] \in Pushes /\ pushes \in [Pushers -> Pushes]
      /\ id \in RowIds /\ pushes[pusher].pc = "mark"
  BY PushTypes DEF MarkAttempt
<1>2. /\ Quiescent /\ rows[id].status \notin {"assigned", "succeeded"}
      /\ pushes[pusher].status \in {"succeeded", "pending", "failed"}
      /\ \A other \in Pushers \ {pusher} : pushes[other].pc = "idle"
  BY <1>1 DEF ApartInv, AttemptsApart
<1>3. /\ rows'[id].status = pushes[pusher].status /\ rows'[id].guid = rows[id].guid
      /\ rows'[id].assignedTo = rows[id].assignedTo
      /\ \A other \in RowIds \ {id} : rows'[other] = rows[other]
      /\ ops' = ops /\ files' = files
  BY <1>1 DEF MarkAttempt, ManagerTypeInv, ManagerTypeOK, TypeOK, Rows
<1>4. /\ \/ /\ pushes'[pusher].pc = "remove" /\ pushes'[pusher].id = id
            /\ pushes[pusher].status = "succeeded"
         \/ pushes'[pusher].pc = "idle"
      /\ \A other \in Pushers \ {pusher} : pushes'[other] = pushes[other]
  BY <1>1 DEF MarkAttempt, NoPush, Pushes
<1> HIDE DEF id
<1>5. Quiescent'
  BY <1>2, <1>3 DEF Quiescent, At
<1>6. AttemptsApart'
  BY <1>2, <1>3, <1>4, <1>5 DEF AttemptsApart
<1>7. RecordsTell'
  BY <1>1, <1>2, <1>3 DEF ApartInv, RecordsTell
<1>8. \A guid \in Guids : Recorded(guid)'
  BY <1>2, <1>3 DEF ApartInv, Recorded
<1>9. \A client \in Clients : OpHolds(ops[client])'
  BY <1>2, <1>3 DEF OpHolds, Quiescent, At, Saving, BeforeSave
<1> QED  BY <1>6, <1>7, <1>8, <1>9 DEF ApartInv

LEMMA RemovesApart ==
    ASSUME ManagerTypeInv, ApartInv, NEW pusher \in Pushers, RemoveFile(pusher)
    PROVE  ApartInv'
<1>1. /\ pushes \in [Pushers -> Pushes] /\ pushes[pusher].id \in RowIds
      /\ pushes[pusher].pc = "remove" /\ PushedGuid(pusher) \in Guids
  BY PushTypes DEF RemoveFile
<1>2. /\ Quiescent /\ rows[pushes[pusher].id].status = "succeeded"
      /\ \A other \in Pushers \ {pusher} : pushes[other].pc = "idle"
  BY <1>1 DEF ApartInv, AttemptsApart
<1>3. \A other \in Pushers : pushes'[other].pc = "idle"
  BY <1>1, <1>2 DEF RemoveFile, NoPush
<1>4. AttemptsApart'
  BY <1>3 DEF AttemptsApart
<1>5. /\ rows' = rows /\ ops' = ops
      /\ \A guid \in Guids \ {PushedGuid(pusher)} : files'[guid] = files[guid]
  BY <1>1 DEF RemoveFile, ManagerTypeInv, ManagerTypeOK, TypeOK
<1>6. \A guid \in Guids : Recorded(guid)'
  BY <1>1, <1>2, <1>5 DEF ApartInv, Recorded, PushedGuid
<1>7. RecordsTell' /\ \A client \in Clients : OpHolds(ops[client])'
  BY <1>2, <1>5 DEF ApartInv, RecordsTell, OpHolds, Quiescent, At, Saving, BeforeSave
<1> QED  BY <1>4, <1>6, <1>7 DEF ApartInv

LEMMA HandInit == ManagerInit => HandInv
<1> SUFFICES ASSUME ManagerInit PROVE HandInv
  OBVIOUS
<1>1. /\ \A client \in Clients : ops[client].pc = "idle"
      /\ \A pusher \in Pushers : pushes[pusher].pc = "idle"
  BY DEF ManagerInit, Init, NoOp, NoPush
<1>2. Present /\ \A client \in Clients : OpHolds(ops[client])
  BY <1>1 DEF Present, OpPresent, OpHolds, Extended, Copying, Saving, BeforeSave
<1>3. AttemptsApart
  BY <1>1 DEF AttemptsApart
<1>4. RecordsTell
  <2>1. \A id \in RowIds : rows[id].assignedTo = NoOne
    BY DEF ManagerInit, Init
  <2> QED  BY <2>1, InitUnassigned DEF ManagerInit, RecordsTell
<1>5. \A guid \in Guids : Recorded(guid)
  <2>1. \A guid \in Guids : files[guid] = OriginalOf[guid]
    BY DEF ManagerInit, Init
  <2>2. \A guid \in Guids : \E key \in Parties : OriginalOf[guid] = <<key>>
    BY AssignmentAssumption
  <2> QED  BY <2>1, <2>2, ChainFacts DEF Recorded
<1> QED  BY <1>2, <1>3, <1>4, <1>5 DEF HandInv, ApartInv

LEMMA HandStep == ManagerTypeInv /\ HandInv /\ [ManagerNext]_managerVars => HandInv'
<1> SUFFICES ASSUME ManagerTypeInv, HandInv, [ManagerNext]_managerVars
             PROVE  HandInv'
  OBVIOUS
<1>1. ASSUME ops' = ops
      PROVE  Present'
  BY <1>1 DEF HandInv, Present, OpPresent
<1>2. CASE UNCHANGED managerVars
  <2>1. ASSUME ApartInv
        PROVE  ApartInv'
    BY <1>2, <2>1 DEF managerVars, vars, ApartInv, AttemptsApart, Quiescent, At, RecordsTell,
                      Recorded, OpHolds
  <2> QED  BY <1>1, <1>2, <2>1 DEF HandInv, managerVars, vars
<1>3. CASE OperationStep
  <2>1. TypeInv /\ Next /\ Present /\ pushes' = pushes
    BY <1>3, IsTypeInv DEF OperationStep, Next, HandInv
  <2>2. mixed' \/ (~ Pushing /\ ApartInv)
    BY <1>3 DEF OperationStep, HandInv
  <2> QED  BY <2>1, <2>2, PresentStep, OperationStaysApart DEF HandInv
<1>4. ASSUME NEW pusher \in Pushers, NEW id \in RowIds, Attempt(pusher, id),
             pusher \in Retriers \/ rows[id].status = "pending"
      PROVE  HandInv'
  <2>1. Present' /\ (mixed' \/ (~ Mixes(pusher, id) /\ ApartInv))
    BY <1>1, <1>4 DEF Attempt, vars, HandInv
  <2> QED  BY <1>4, <2>1, BeginsApart DEF HandInv
<1>5. ASSUME NEW pusher \in Pushers,
             ReadFile(pusher) \/ Send(pusher) \/ MarkAttempt(pusher) \/ RemoveFile(pusher)
      PROVE  HandInv'
  <2>1. Present' /\ (mixed' \/ ApartInv)
    BY <1>1, <1>5 DEF ReadFile, Send, MarkAttempt, RemoveFile, vars, HandInv
  <2> QED  BY <1>5, <2>1, SendsApart, MarksApart, RemovesApart DEF HandInv
<1>6. ASSUME NEW customer \in NewOwners, CheckDownload(customer) \/ LoadFile(customer)
      PROVE  HandInv'
  <2>1. UNCHANGED vars /\ pushes' = pushes /\ mixed' = mixed
    BY <1>6 DEF CheckDownload, LoadFile
  <2>2. ASSUME AttemptsApart
        PROVE  AttemptsApart'
    BY <2>1, <2>2 DEF AttemptsApart, Quiescent, At, vars
  <2> QED  BY <1>1, <2>1, <2>2, AttemptStaysApart DEF HandInv, ApartInv, vars
<1> QED  BY <1>2, <1>3, <1>4, <1>5, <1>6, ManagerSteps

LEMMA HandHolds == ManagerSpec => []HandInv
BY ManagerTypeInit, ManagerTypeStep, HandInit, HandStep, PTL DEF ManagerSpec

\* A voucher file disappears only when an attempt has delivered it, and the row that
\* says so keeps saying it: no operation takes up a delivered row or the row of a
\* voucher whose file is gone, whatever runs between them.
THEOREM DeletedStaysRecorded == ManagerSpec => []DeletedIsRecorded
<1>1. HandInv => DeletedIsRecorded
  BY DEF HandInv, ApartInv, Recorded, DeletedIsRecorded
<1> QED  BY <1>1, HandHolds, PTL

\* A row names a customer exactly while its status is "assigned": neither the attempts
\* between the operations nor unassigning leave one without the other.
THEOREM StatusKeepsTelling == ManagerSpec => []StatusTellsCustody
<1>1. HandInv => StatusTellsCustody
  BY DEF HandInv, ApartInv, RecordsTell, StatusTellsCustody
<1> QED  BY <1>1, HandHolds, PTL

-------------------------------------------------------------------------------
(***************************************************************************)
(* What a customer downloads.  Whoever holds an owner_key grant finds the  *)
(* voucher signed over to it, or none, unless an unassignment is about to  *)
(* take the grant away.  This does not depend on when attempts are made.   *)
(***************************************************************************)

\* The customers neither assign vouchers themselves nor are owners on record.
OnlyCustomers ==
    /\ NewOwners \cap (Callers \cup {Global, CliOperator}) = {}
    /\ \A id \in RowIds : OwnerOf[id] \notin NewOwners

Reverts(guid) ==
    \E command \in UnassignCommands : ops[command].pc \in Reverted /\ Guid(command) = guid

Holds(customer, guid) == <<customer, "owner_key">> \in grants[guid]

SignedOrGone(customer, guid) == files[guid] \in {NoFile, Torn, SignedTo(guid, customer)}

\* Until its last step an assignment knows that nobody holds a grant.
OpClaims(op) ==
    LET guid == op.rec.guid IN
    /\ op.pc # "idle" => op.caller \notin NewOwners
    /\ op.pc \in Saving \cup Late => \A customer \in NewOwners : ~ Holds(customer, guid)
    /\ op.pc \in Late => files[guid] \in {NoFile, SignedTo(guid, op.newOwner)}

ClaimInv ==
    /\ Alone
    /\ \A id \in RowIds : rows[id].owner \notin NewOwners
    /\ \A guid \in Guids, customer \in NewOwners :
          /\ <<customer, "custodian">> \notin grants[guid]
          /\ Holds(customer, guid) => SignedOrGone(customer, guid) \/ Reverts(guid)
    /\ \A client \in Clients : OpClaims(ops[client])

\* A download that was not raced still has the grant it was let through for.
Entitles(customer) ==
    LET guid == downloads[customer].guid IN
    guid # NoOne /\ ~ downloads[customer].raced => Holds(customer, guid) /\ ~ Reverting

DownloadInv == ClaimInv /\ \A customer \in NewOwners : Entitles(customer)

LEMMA DownloadInit == OnlyCustomers /\ ManagerInit => DownloadInv
<1> SUFFICES ASSUME OnlyCustomers, ManagerInit PROVE DownloadInv
  OBVIOUS
<1>1. \A client \in Clients : ops[client].pc = "idle"
  BY DEF ManagerInit, Init, NoOp
<1>2. \A id \in RowIds : rows[id].owner = OwnerOf[id]
  BY DEF ManagerInit, Init
<1>3. /\ \A guid \in Guids : grants[guid] = {}
      /\ \A customer \in NewOwners : downloads[customer].guid = NoOne
  BY DEF ManagerInit, Init, NoDownload
<1>4. Alone /\ \A client \in Clients : OpClaims(ops[client])
  BY <1>1 DEF Alone, OpClaims, Saving, BeforeSave, Late
<1> QED  BY <1>2, <1>3, <1>4 DEF OnlyCustomers, DownloadInv, ClaimInv, Holds, Entitles

\* Which operation gives and takes the grants of a voucher.
GivesCustodian(client, guid) ==
    /\ ops[client].pc = "custodian" /\ Guid(client) = guid
    /\ grants'[guid] = grants[guid] \cup {<<ops[client].caller, "custodian">>}

GivesOwnerKey(client, guid) ==
    /\ ops[client].pc = "owner_key" /\ Guid(client) = guid
    /\ grants'[guid] = grants[guid] \cup {<<ops[client].newOwner, "owner_key">>}
    /\ files' = files /\ ops'[client].pc = "idle"

Revokes(client, guid) ==
    /\ ops[client].pc = "revoke" /\ Guid(client) = guid
    /\ grants'[guid] = {}

LEMMA GrantSteps ==
    ASSUME TypeInv, Next, NEW guid \in Guids
    PROVE  \/ grants'[guid] = grants[guid]
           \/ \E client \in Clients : GivesCustodian(client, guid) \/ GivesOwnerKey(client, guid)
           \/ \E command \in UnassignCommands : Revokes(command, guid)
<1>1. ASSUME NEW client \in Assigners, GrantCustodian(client)
      PROVE  grants'[guid] = grants[guid] \/ GivesCustodian(client, guid)
  BY <1>1 DEF GrantCustodian, InsertAccessGrant, GivesCustodian, At, TypeInv, TypeOK
<1>2. ASSUME NEW client \in Assigners, client \in Clients, GrantOwnerKey(client)
      PROVE  grants'[guid] = grants[guid] \/ GivesOwnerKey(client, guid)
  <2>1. ops'[client].pc = "idle"
    BY <1>2, FinishType DEF GrantOwnerKey, TypeInv, NoOp
  <2> QED  BY <1>2, <2>1 DEF GrantOwnerKey, InsertAccessGrant, GivesOwnerKey, At, TypeInv, TypeOK
<1>3. ASSUME NEW command \in UnassignCommands, RevokeGrants(command)
      PROVE  grants'[guid] = grants[guid] \/ Revokes(command, guid)
  BY <1>3 DEF RevokeGrants, RemoveAccessGrantsForVoucher, Revokes, At, TypeInv, TypeOK
<1> QED  BY <1>1, <1>2, <1>3, GrantWrites DEF Assigners, Clients, Commands

\* An unassignment that has come past its first update goes on until it revokes.
LEMMA RevertEnds ==
    ASSUME TypeInv, Operation, NEW command \in UnassignCommands, ops[command].pc \in Reverted
    PROVE  \/ ops'[command].pc \in Reverted /\ ops'[command].rec = ops[command].rec
           \/ grants'[Guid(command)] = {}
<1>1. PICK client \in Clients :
        Acts(client) /\ \A other \in Clients \ {client} : ops'[other] = ops[other]
  BY OneActs
<1>2. /\ command \in Clients /\ command \notin Assigners /\ command \notin Requests
      /\ ops[command].pc \notin Started \cup {"unmark", "access"}
  BY AssignmentAssumption DEF Clients, Commands, Assigners, Reverted, UnassignSteps, Started
<1>3. CASE client # command
  BY <1>1, <1>2, <1>3
<1>4. CASE UnassignStep(command)
  <2>1. CASE RevokeGrants(command)
    <3>1. Guid(command) \in Guids
      BY <1>2, FetchedFacts
    <3> QED  BY <2>1, <3>1 DEF RevokeGrants, RemoveAccessGrantsForVoucher, TypeInv, TypeOK
  <2>2. CASE RestoreOpen(command) \/ RestoreWrite(command) \/ RemoveBackup(command)
    BY <1>2, <2>2, GotoFields
    DEF RestoreOpen, RestoreWrite, RemoveBackup, Reverted, UnassignSteps, Steps
  <2>3. CASE RestoreRead(command)
    <3>1. \/ Goto(command, "revoke")
          \/ \E data : ops' = [ops EXCEPT ![command].pc = "restore_open", ![command].data = data]
      BY <2>3 DEF RestoreRead
    <3>2. ops[command] \in Ops /\ ops \in [Clients -> Ops]
      BY <1>2 DEF TypeInv, TypeOK
    <3> QED  BY <1>2, <3>1, <3>2 DEF Goto, Ops, Reverted, UnassignSteps
  <2> QED  BY <1>2, <1>4, <2>1, <2>2, <2>3 DEF UnassignStep, Unmark, At
<1>5. CASE client = command /\ ~ UnassignStep(command)
  BY <1>1, <1>2, <1>5
  DEF Acts, StartBySerial, StartByGuid, MayStart, Lookup, Fetch, At, Started
<1> QED  BY <1>3, <1>4, <1>5

\* The steps at which a client writes the file of a voucher.
LEMMA FileWriters ==
    ASSUME TypeInv, Operation, NEW guid \in Guids
    PROVE  \/ files'[guid] = files[guid]
           \/ \E client \in Clients :
                 Guid(client) = guid /\ ops[client].pc \in {"save_open", "save_write"}
           \/ \E command \in UnassignCommands :
                 /\ Guid(command) = guid /\ ops[command].pc \in Reverted
                 /\ ops'[command].pc \in Reverted /\ ops'[command].rec = ops[command].rec
<1>1. ASSUME NEW client \in Assigners, SaveOpen(client) \/ SaveWrite(client)
      PROVE  \/ files'[guid] = files[guid]
             \/ Guid(client) = guid /\ ops[client].pc \in {"save_open", "save_write"}
  BY <1>1 DEF SaveOpen, SaveWrite, At, TypeInv, TypeOK
<1>2. ASSUME NEW command \in UnassignCommands, RestoreOpen(command) \/ RestoreWrite(command)
      PROVE  \/ files'[guid] = files[guid]
             \/ /\ Guid(command) = guid /\ ops[command].pc \in Reverted
                /\ ops'[command].pc \in Reverted /\ ops'[command].rec = ops[command].rec
  <2>1. command \in Clients
    BY DEF Clients, Commands
  <2>2. ops'[command].pc \in Reverted /\ ops'[command].rec = ops[command].rec
    BY <1>2, <2>1, GotoFields DEF RestoreOpen, RestoreWrite, Reverted, UnassignSteps, Steps
  <2>3. ops[command].pc \in Reverted /\ (files'[guid] = files[guid] \/ Guid(command) = guid)
    BY <1>2 DEF RestoreOpen, RestoreWrite, At, Reverted, UnassignSteps, TypeInv, TypeOK
  <2> QED  BY <2>2, <2>3
<1>3. \/ files' = files
      \/ \E client \in Assigners : SaveOpen(client) \/ SaveWrite(client)
      \/ \E command \in UnassignCommands : RestoreOpen(command) \/ RestoreWrite(command)
  BY DEF Operation, StartRequest, CheckAccess, StartBySerial, StartByGuid, Lookup, Fetch,
         AssignStep, ParseAndExtend, BackupRead, BackupOpen, BackupWrite, Mark, GrantCustodian,
         GrantOwnerKey, UnassignStep, Unmark, RestoreRead, RemoveBackup, RevokeGrants
<1> QED  BY <1>1, <1>2, <1>3 DEF Assigners, Clients, Commands

\* No step but the grants of an assignment and the revocation changes who holds one.
LEMMA HeldSince ==
    ASSUME TypeInv, Next, NEW guid \in Guids, NEW customer \in NewOwners, Holds(customer, guid)'
    PROVE  \/ Holds(customer, guid)
           \/ \E client \in Clients :
                 GivesOwnerKey(client, guid) /\ ops[client].newOwner = customer
BY GrantSteps DEF Holds, GivesCustodian, GivesOwnerKey, Revokes

LEMMA HeldUntil ==
    ASSUME TypeInv, Next, NEW guid \in Guids, NEW customer \in NewOwners, Holds(customer, guid)
    PROVE  \/ Holds(customer, guid)'
           \/ \E command \in UnassignCommands : Revokes(command, guid)
BY GrantSteps DEF Holds, GivesCustodian, GivesOwnerKey

\* A voucher that this service can still extend is signed over to nobody.
LEMMA ExtendableUnclaimed ==
    ASSUME Own \notin NewOwners, GenuineInv, ClaimInv, NEW guid \in Guids,
           Parses(files[guid]), CanExtend(files[guid]), ~ Reverts(guid)
    PROVE  \A customer \in NewOwners : ~ Holds(customer, guid)
<1>1. files[guid] = Original(guid)
  BY GenuineExtendable DEF GenuineInv
<1>2. ASSUME NEW customer \in NewOwners
      PROVE  ~ SignedOrGone(customer, guid)
  BY <1>1, <1>2, SignedFacts, AssignmentAssumption DEF SignedOrGone
<1> QED  BY <1>2 DEF ClaimInv

\* What the client that acts knows of the grants and of the file.
LEMMA ClaimsStep ==
    ASSUME Own \notin NewOwners, OnlyCustomers, TypeInv, GenuineInv, ClaimInv, Operation,
           NEW client \in Clients,
           \A other \in Clients \ {client} : ops[other].pc = "idle"
    PROVE  OpClaims(ops[client])'
<1>1. /\ Move(client, ops[client], ops'[client]) /\ Buffered(client, ops[client], ops'[client])
      /\ OpClaims(ops[client]) /\ OpGenuine(client, ops[client])
  BY Moves, BufferedSteps DEF ClaimInv, GenuineInv, Next
<1>2. ops'[client].pc # "idle" => ops'[client].caller \notin NewOwners
  BY <1>1 DEF Move, SameArguments, OpClaims, OnlyCustomers, NoOp, UnassignSteps
<1>3. ASSUME ops'[client].pc \in Saving \cup Late
      PROVE  /\ \A customer \in NewOwners : ~ Holds(customer, ops[client].rec.guid)'
             /\ ops'[client].pc \in Late =>
                   files'[ops'[client].rec.guid] \in
                      {NoFile, SignedTo(ops'[client].rec.guid, ops'[client].newOwner)}
  <2>1. /\ ops'[client].rec = ops[client].rec /\ ops'[client].newOwner = ops[client].newOwner
        /\ ops[client].pc \in Saving \cup Late \cup {"parse"}
        /\ ops[client].pc = "parse" => ops'[client].pc = "backup_read"
    BY <1>1, <1>3 DEF Move, SameArguments, Saving, BeforeSave, Late, NoOp, UnassignSteps
  <2>2. PICK guid \in Guids : guid = ops[client].rec.guid
    BY <2>1, FetchedFacts DEF Saving, BeforeSave, Late, Started, Guid
  <2>3. ~ Reverts(guid)
    BY <2>1 DEF Reverts, Reverted, UnassignSteps, Saving, BeforeSave, Late, Clients, Commands
  <2>4. \A customer \in NewOwners : ~ Holds(customer, guid)
    <3>1. CASE ops[client].pc = "parse"
      <4>1. Parses(files[guid]) /\ CanExtend(files[guid])
        BY <1>1, <2>1, <2>2, <3>1 DEF Buffered, Extended, BeforeSave
      <4> QED  BY <2>3, <4>1, ExtendableUnclaimed
    <3> QED  BY <1>1, <2>1, <2>2, <3>1 DEF OpClaims
  <2>5. ASSUME NEW other \in Clients, GivesOwnerKey(other, guid)
        PROVE  FALSE
    BY <1>3, <2>5 DEF GivesOwnerKey, Saving, BeforeSave, Late
  <2>6. \A customer \in NewOwners : ~ Holds(customer, guid)'
    BY <2>4, <2>5, HeldSince DEF Next
  <2>7. ASSUME ops'[client].pc \in Late
        PROVE  files'[guid] \in {NoFile, SignedTo(guid, ops[client].newOwner)}
    <3>1. CASE ops[client].pc = "save_write"
      <4>1. files' = [files EXCEPT ![guid] = ops[client].voucher]
        BY <1>1, <2>2, <2>7, <3>1 DEF Move, SameArguments, Late, NoOp, UnassignSteps
      <4>2. ops[client].voucher = SignedTo(guid, ops[client].newOwner)
        BY <1>1, <2>2, <3>1 DEF OpGenuine, Extended
      <4> QED  BY <4>1, <4>2 DEF TypeInv, TypeOK
    <3>2. CASE ops[client].pc \in Late
      <4>1. files'[guid] = files[guid]
        BY <2>3, <3>2, FileWriters DEF Late, Reverts
      <4> QED  BY <1>1, <2>2, <3>2, <4>1 DEF OpClaims
    <3>3. ops[client].pc \in Late \cup {"save_write"}
      BY <1>1, <2>1, <2>7 DEF Move, SameArguments, Late, Saving, BeforeSave, NoOp, UnassignSteps
    <3> QED  BY <3>1, <3>2, <3>3
  <2> QED  BY <2>1, <2>2, <2>6, <2>7
<1> QED  BY <1>2, <1>3 DEF OpClaims, SignedTo

LEMMA ClaimStep ==
    ASSUME OneAtATime, OnlyCustomers, TypeInv, GenuineInv, ClaimInv, Operation
    PROVE  ClaimInv'
<1>1. Own \notin NewOwners /\ Exclusive /\ Next
  BY DEF OneAtATime, Next
<1>2. PICK client \in Clients : \A other \in Clients \ {client} :
         ops[other].pc = "idle" /\ ops'[other].pc = "idle"
  BY <1>1, OneActsAlone DEF ClaimInv, OthersIdle
<1>3. Alone'
  BY <1>1, OneActsAlone DEF ClaimInv
<1>4. \A id \in RowIds : rows'[id].owner \notin NewOwners
  BY <1>1, ColumnsKept DEF SameColumns, ClaimInv
<1>5. \A other \in Clients : OpClaims(ops[other])'
  <2>1. ASSUME NEW other \in Clients \ {client}
        PROVE  OpClaims(ops[other])'
    BY <1>2, <2>1 DEF OpClaims, Saving, BeforeSave, Late
  <2> QED  BY <1>1, <1>2, <2>1, ClaimsStep
<1>6. ASSUME NEW guid \in Guids, NEW customer \in NewOwners
      PROVE  <<customer, "custodian">> \notin grants'[guid]
  <2>1. ASSUME NEW other \in Clients, GivesCustodian(other, guid)
        PROVE  <<customer, "custodian">> \notin grants'[guid]
    BY <2>1 DEF GivesCustodian, ClaimInv, OpClaims
  <2> QED  BY <1>1, <2>1, GrantSteps DEF GivesOwnerKey, Revokes, ClaimInv
<1>7. ASSUME NEW guid \in Guids, NEW customer \in NewOwners, Holds(customer, guid)'
      PROVE  SignedOrGone(customer, guid)' \/ Reverts(guid)'
  <2>1. CASE ~ Holds(customer, guid)
    <3>1. PICK other \in Clients :
            GivesOwnerKey(other, guid) /\ ops[other].newOwner = customer
      BY <1>1, <1>7, <2>1, HeldSince
    <3>2. files'[guid] \in {NoFile, SignedTo(guid, customer)}
      BY <3>1 DEF GivesOwnerKey, ClaimInv, OpClaims, Late, Guid
    <3> QED  BY <3>2 DEF SignedOrGone, SignedTo
  <2>2. CASE Holds(customer, guid) /\ Reverts(guid)
    <3>1. PICK command \in UnassignCommands :
            ops[command].pc \in Reverted /\ Guid(command) = guid
      BY <2>2 DEF Reverts
    <3>2. ops'[command].pc \in Reverted /\ ops'[command].rec = ops[command].rec
      BY <1>7, <3>1, RevertEnds DEF Holds
    <3> QED  BY <3>1, <3>2 DEF Reverts, Guid
  <2>3. CASE Holds(customer, guid) /\ SignedOrGone(customer, guid)
    <3>1. CASE files'[guid] = files[guid]
      BY <2>3, <3>1 DEF SignedOrGone, SignedTo
    <3>2. ASSUME NEW other \in Clients, Guid(other) = guid,
                 ops[other].pc \in {"save_open", "save_write"}
          PROVE  FALSE
      BY <2>3, <3>2 DEF ClaimInv, OpClaims, Guid, Saving, BeforeSave
    <3>3. ASSUME NEW command \in UnassignCommands, Guid(command) = guid,
                 ops'[command].pc \in Reverted, ops'[command].rec = ops[command].rec
          PROVE  Reverts(guid)'
      BY <3>3 DEF Reverts, Guid
    <3> QED  BY <3>1, <3>2, <3>3, FileWriters
  <2> QED  BY <2>1, <2>2, <2>3 DEF ClaimInv
<1> QED  BY <1>3, <1>4, <1>5, <1>6, <1>7 DEF ClaimInv

\* Attempts leave grants and operations alone, and only ever delete a file.
LEMMA AttemptLeavesClaims ==
    ASSUME ClaimInv, UNCHANGED <<ops, grants>>,
           \A id \in RowIds : rows'[id].owner = rows[id].owner,
           \A guid \in Guids : files'[guid] \in {files[guid], NoFile},
           TypeInv
    PROVE  ClaimInv'
<1>1. \A guid \in Guids, customer \in NewOwners :
         /\ <<customer, "custodian">> \notin grants'[guid]
         /\ Holds(customer, guid)' => SignedOrGone(customer, guid)' \/ Reverts(guid)'
  BY DEF ClaimInv, Holds, SignedOrGone, SignedTo, Reverts, Guid
<1>2. ASSUME NEW client \in Clients
      PROVE  OpClaims(ops[client])'
  <2>1. ops[client].pc \in Late => ops[client].rec.guid \in Guids
    BY FetchedFacts DEF Late, Started, Guid
  <2>2. OpClaims(ops[client])
    BY DEF ClaimInv
  <2> QED  BY <2>1, <2>2 DEF OpClaims, Holds, SignedTo
<1>3. Alone'
  BY DEF ClaimInv, Alone
<1> QED  BY <1>1, <1>2, <1>3 DEF ClaimInv

LEMMA EntitlesStep ==
    ASSUME ManagerTypeInv, OperationStep, NEW customer \in NewOwners, Entitles(customer)
    PROVE  Entitles(customer)'
<1>1. downloads[customer] \in Downloads /\ TypeInv /\ Next
  BY IsTypeInv DEF ManagerTypeInv, ManagerTypeOK, OperationStep, Next
<1>2. downloads'[customer] = [downloads[customer] EXCEPT
                                !.raced = @ \/ (Reverting' /\ downloads[customer] # NoDownload)]
  BY DEF OperationStep
<1>3. downloads'[customer].guid = downloads[customer].guid
  BY <1>1, <1>2 DEF Downloads
<1>4. downloads'[customer].raced =
         (downloads[customer].raced \/ (Reverting' /\ downloads[customer] # NoDownload))
  BY <1>1, <1>2 DEF Downloads
<1> SUFFICES ASSUME downloads[customer].guid # NoOne, ~ downloads'[customer].raced
             PROVE  Holds(customer, downloads[customer].guid)' /\ ~ Reverting'
  BY <1>3 DEF Entitles, Holds
<1>5. downloads[customer] # NoDownload
  BY DEF NoDownload
<1>6. ~ downloads[customer].raced /\ ~ Reverting'
  BY <1>4, <1>5
<1>7. PICK guid \in Guids : guid = downloads[customer].guid
  BY <1>1 DEF Downloads
<1>8. Holds(customer, guid) /\ ~ Reverting
  BY <1>6, <1>7 DEF Entitles
<1>9. ASSUME NEW command \in UnassignCommands, Revokes(command, guid)
      PROVE  FALSE
  BY <1>8, <1>9 DEF Revokes, Reverting, UnassignSteps
<1> QED  BY <1>1, <1>3, <1>6, <1>7, <1>8, <1>9, HeldUntil DEF Holds

\* The access check lets a customer through for its owner_key grant and nothing else.
LEMMA CheckEntitles ==
    ASSUME ManagerTypeInv, DownloadInv, NEW customer \in NewOwners, CheckDownload(customer)
    PROVE  \A other \in NewOwners : Entitles(other)'
<1>1. PICK guid \in Guids :
        /\ HasAccessByGUID(rows, grants, guid, customer)
        /\ downloads' = [downloads EXCEPT ![customer] = [guid |-> guid, raced |-> Reverting]]
  BY DEF CheckDownload
<1>2. UNCHANGED vars /\ downloads \in [NewOwners -> Downloads]
  BY DEF CheckDownload, ManagerTypeInv, ManagerTypeOK
<1>3. Holds(customer, guid)
  BY <1>1 DEF HasAccessByGUID, GrantTypes, DownloadInv, ClaimInv, Holds
<1>4. /\ downloads'[customer].guid = guid /\ downloads'[customer].raced = Reverting
      /\ \A other \in NewOwners \ {customer} : downloads'[other] = downloads[other]
  BY <1>1, <1>2
<1>5. Reverting' = Reverting
  BY <1>2 DEF Reverting, vars
<1>6. Entitles(customer)'
  BY <1>2, <1>3, <1>4, <1>5 DEF Entitles, Holds, vars
<1>7. ASSUME NEW other \in NewOwners \ {customer}
      PROVE  Entitles(other)'
  BY <1>2, <1>4, <1>5, <1>7 DEF DownloadInv, Entitles, Holds, vars
<1> QED  BY <1>6, <1>7

LEMMA DownloadStep ==
    ASSUME OneAtATime, OnlyCustomers, ManagerTypeInv, SentInv, DownloadInv,
           [ManagerNext]_managerVars
    PROVE  DownloadInv'
<1>1. TypeInv /\ GenuineInv /\ ClaimInv
  BY IsTypeInv DEF SentInv, DownloadInv
<1>2. ASSUME UNCHANGED vars
      PROVE  ClaimInv'
  BY <1>1, <1>2, AttemptLeavesClaims DEF vars
<1>3. ASSUME UNCHANGED <<ops, grants, downloads>>
      PROVE  \A customer \in NewOwners : Entitles(customer)'
  BY <1>3 DEF DownloadInv, Entitles, Holds, Reverting
<1>4. CASE UNCHANGED managerVars
  BY <1>2, <1>3, <1>4 DEF managerVars, vars, DownloadInv
<1>5. CASE OperationStep
  BY <1>1, <1>5, ClaimStep, EntitlesStep DEF OperationStep, DownloadInv
<1>6. ASSUME NEW pusher \in Pushers, NEW id \in RowIds, Attempt(pusher, id)
      PROVE  DownloadInv'
  BY <1>2, <1>3, <1>6 DEF Attempt, vars, DownloadInv
<1>7. ASSUME NEW pusher \in Pushers,
             ReadFile(pusher) \/ Send(pusher) \/ MarkAttempt(pusher) \/ RemoveFile(pusher)
      PROVE  DownloadInv'
  <2>1. UNCHANGED <<ops, grants, downloads>>
    BY <1>7 DEF ReadFile, Send, MarkAttempt, RemoveFile, vars
  <2>2. \A guid \in Guids : files'[guid] \in {files[guid], NoFile}
    BY <1>1, <1>7 DEF ReadFile, Send, MarkAttempt, RemoveFile, vars, TypeInv, TypeOK
  <2>3. \A id \in RowIds : rows'[id].owner = rows[id].owner
    <3>1. CASE MarkAttempt(pusher)
      BY <1>1, <3>1 DEF MarkAttempt, TypeInv, TypeOK, Rows
    <3> QED  BY <1>7, <3>1 DEF ReadFile, Send, RemoveFile, vars
  <2> QED  BY <1>1, <1>3, <2>1, <2>2, <2>3, AttemptLeavesClaims DEF DownloadInv
<1>8. ASSUME NEW customer \in NewOwners, CheckDownload(customer)
      PROVE  DownloadInv'
  BY <1>2, <1>8, CheckEntitles DEF CheckDownload, DownloadInv
<1>9. ASSUME NEW customer \in NewOwners, LoadFile(customer)
      PROVE  DownloadInv'
  <2>1. /\ UNCHANGED vars /\ downloads'[customer] = NoDownload
        /\ \A other \in NewOwners \ {customer} : downloads'[other] = downloads[other]
    BY <1>9 DEF LoadFile, ManagerTypeInv, ManagerTypeOK
  <2>2. Entitles(customer)'
    BY <2>1 DEF Entitles, NoDownload
  <2>3. ASSUME NEW other \in NewOwners \ {customer}
        PROVE  Entitles(other)'
    BY <2>1, <2>3 DEF DownloadInv, Entitles, Holds, Reverting, vars
  <2> QED  BY <1>2, <2>1, <2>2, <2>3 DEF DownloadInv
<1> QED  BY <1>4, <1>5, <1>6, <1>7, <1>8, <1>9, ManagerSteps

\* What an entitled customer finds when it reads the file.
LEMMA EntitledReads ==
    ASSUME ManagerTypeInv, DownloadInv, NEW customer \in NewOwners,
           downloads[customer].guid # NoOne, ~ downloads[customer].raced,
           Parses(files[downloads[customer].guid])
    PROVE  files[downloads[customer].guid] = SignedTo(downloads[customer].guid, customer)
<1>1. PICK guid \in Guids : guid = downloads[customer].guid
  BY DEF ManagerTypeInv, ManagerTypeOK, Downloads
<1>2. Holds(customer, guid) /\ ~ Reverting
  BY <1>1 DEF DownloadInv, Entitles
<1>3. SignedOrGone(customer, guid)
  BY <1>2 DEF DownloadInv, ClaimInv, Reverts, Reverted, Reverting
<1> QED  BY <1>1, <1>3, ChainFacts DEF SignedOrGone, Parses

\* A customer downloads the voucher signed over to it, or none: between the access
\* check and the read nothing but an unassignment can turn the file back.  This needs
\* one operation at a time, since a second assignment may be saving over the file of
\* the first, and customers who are neither owners on record nor callers of the assign
\* API, who have access to a voucher for other reasons than its having been signed over.
THEOREM DownloadsAreTheirs ==
    ASSUME OneAtATime, OnlyCustomers
    PROVE  ManagerSpec => GotIsTheirs
<1>1. Own \notin NewOwners
  BY DEF OneAtATime
<1>2. ManagerInit => ManagerTypeInv /\ SentInv /\ DownloadInv
  BY ManagerTypeInit, SentInit, DownloadInit
<1>3. ManagerTypeInv /\ SentInv /\ DownloadInv /\ [ManagerNext]_managerVars
         => (ManagerTypeInv /\ SentInv /\ DownloadInv)'
  BY <1>1, ManagerTypeStep, SentStep, DownloadStep
<1>4. ManagerTypeInv /\ DownloadInv =>
         \A customer \in NewOwners :
            LET guid == downloads[customer].guid IN
            /\ guid # NoOne /\ downloads'[customer].guid = NoOne
            /\ ~ downloads[customer].raced
            /\ Parses(files[guid])
            => files[guid] = ExtendVoucher(OriginalOf[guid], customer)
  BY EntitledReads DEF SignedTo
<1> QED  BY <1>2, <1>3, <1>4, PTL DEF ManagerSpec, GotIsTheirs

-------------------------------------------------------------------------------
(***************************************************************************)
(* What the worker forwards.  As long as nothing was mixed, a voucher that *)
(* is signed over has an assigned row, its newest, unless the operation in *)
(* progress is turning it; an attempt that reads the file for the newest   *)
(* row of its voucher therefore reads the original.  Unlike CustodyLedger, *)
(* this has to allow for voucher files that were deleted.                  *)
(***************************************************************************)

\* The rows of one voucher have one serial number, so that the newest row of the
\* serial number, which an assignment marks, is the newest of its voucher.  The serial
\* number is a form value of the upload, so a sender could break this.
SerialFollowsGuid ==
    \A id, other \in RowIds : GuidOf[id] = GuidOf[other] => SerialOf[id] = SerialOf[other]

Columns == \A id \in RowIds : rows[id].guid = GuidOf[id] /\ rows[id].serial = SerialOf[id]

Newest(id) == NewestByGuid(rows, rows[id].guid, id)
Signatures(guid) == {SignedTo(guid, key) : key \in NewOwners}
Turning == {"save_write", "mark", "restore_read", "restore_open", "restore_write"}

RowKeeps(id) ==
    rows[id].status = "assigned" =>
       /\ Newest(id)
       /\ backups[rows[id].guid] = Original(rows[id].guid)
       /\ files[rows[id].guid] \in {NoFile} \cup Signatures(rows[id].guid)

FileKeeps(guid) ==
    \/ files[guid] \in {NoFile, Original(guid)}
    \/ ~ Unassigned(guid)
    \/ \E client \in Clients : ops[client].pc \in Turning /\ Guid(client) = guid

OpKeeps(op) ==
    LET guid == op.rec.guid IN
    /\ op.pc \notin Started => Newest(op.id)
    /\ op.pc \in BeforeSave \cup {"remove_backup", "revoke"} => files[guid] = Original(guid)
    /\ op.pc \in Copying => op.data = Original(guid)
    /\ op.pc \in Turning \cup {"save_open"} => backups[guid] = Original(guid)
    /\ op.pc = "save_write" => files[guid] = Torn
    /\ op.pc = "mark" => files[guid] \in Signatures(guid)
    /\ op.pc \in Reverted \cup {"mark"} => Unassigned(guid)
    /\ op.pc = "unmark" => rows[op.id].status = "assigned"

KeepInv ==
    /\ \A id \in RowIds : RowKeeps(id)
    /\ \A guid \in Guids : FileKeeps(guid)
    /\ \A client \in Clients : OpKeeps(ops[client])

PushKeeps(pusher) ==
    \/ pushes[pusher].voucher = NoFile
    \/ ~ NewestByGuid(rows, PushedGuid(pusher), pushes[pusher].id)
    \/ pushes[pusher].voucher = Original(PushedGuid(pusher))

ForwardInv ==
    /\ Columns /\ Alone
    /\ mixed \/ (KeepInv /\ \A pusher \in Pushers : PushKeeps(pusher))

LEMMA ForwardInit == ManagerInit => ForwardInv
<1> SUFFICES ASSUME ManagerInit PROVE ForwardInv
  OBVIOUS
<1>1. Columns
  BY DEF ManagerInit, Init, Columns
<1>2. \A client \in Clients : ops[client].pc = "idle"
  BY DEF ManagerInit, Init, NoOp
<1>3. Alone /\ \A client \in Clients : OpKeeps(ops[client])
  BY <1>2 DEF Alone, OpKeeps, Started, BeforeSave, Copying, Turning, Reverted, UnassignSteps
<1>4. \A id \in RowIds : RowKeeps(id)
  BY InitUnassigned DEF ManagerInit, RowKeeps
<1>5. \A guid \in Guids : FileKeeps(guid)
  BY DEF ManagerInit, Init, FileKeeps, Original
<1>6. \A pusher \in Pushers : PushKeeps(pusher)
  BY DEF ManagerInit, NoPush, PushKeeps
<1> QED  BY <1>1, <1>3, <1>4, <1>5, <1>6 DEF ForwardInv, KeepInv

\* A row or a file that is not signed over tells that no row is assigned, and an
\* assigned row is the only one of its voucher.
LEMMA KeptUnassigned ==
    ASSUME KeepInv, NEW guid \in Guids, files[guid] \in {Original(guid), Torn}
    PROVE  Unassigned(guid)
<1>1. files[guid] \notin {NoFile} \cup Signatures(guid)
  BY SignedFacts, AssignmentAssumption, StoreAssumption DEF Signatures
<1> QED  BY <1>1 DEF KeepInv, RowKeeps, Unassigned

LEMMA KeptAlone ==
    ASSUME KeepInv, NEW id \in RowIds, rows[id].status = "assigned",
           NEW other \in RowIds, rows[other].guid = rows[id].guid, rows[other].status = "assigned"
    PROVE  other = id
BY StoreAssumption DEF KeepInv, RowKeeps, Newest, NewestByGuid

\* A step that leaves rows, files and backups alone.
LEMMA KeepsOperation ==
    ASSUME KeepInv, NEW client \in Clients, OthersIdle(client),
           UNCHANGED <<rows, files, backups>>,
           ops[client].pc \notin Turning, OpKeeps(ops[client])'
    PROVE  KeepInv'
<1>1. \A id \in RowIds : RowKeeps(id)'
  BY DEF KeepInv, RowKeeps, Newest, Original, Signatures, SignedTo
<1>2. ASSUME NEW guid \in Guids
      PROVE  FileKeeps(guid)'
  <2>1. files[guid] \in {NoFile, Original(guid)} \/ ~ Unassigned(guid)
    BY DEF KeepInv, FileKeeps, OthersIdle, Turning
  <2> QED  BY <2>1 DEF FileKeeps, Unassigned, Original
<1>3. ASSUME NEW other \in Clients \ {client}
      PROVE  OpKeeps(ops[other])'
  BY <1>3 DEF OthersIdle, OpKeeps, Started, BeforeSave, Copying, Turning, Reverted, UnassignSteps
<1> QED  BY <1>1, <1>2, <1>3 DEF KeepInv

\* A step that changes rows, file and backup of one voucher.
LEMMA KeepsTurn ==
    ASSUME TypeInv, KeepInv, NEW client \in Clients, OthersIdle(client),
           NEW guid \in Guids, Guid(client) = guid,
           \A other \in Guids \ {guid} :
              files'[other] = files[other] /\ backups'[other] = backups[other],
           \A id \in RowIds : /\ rows'[id].guid = rows[id].guid
                              /\ rows[id].guid # guid => rows'[id] = rows[id],
           \A id \in RowIds : rows[id].guid = guid => RowKeeps(id)',
           FileKeeps(guid)', OpKeeps(ops[client])'
    PROVE  KeepInv'
<1>1. ASSUME NEW id \in RowIds
      PROVE  RowKeeps(id)'
  <2>1. CASE rows[id].guid # guid
    <3>1. RowKeeps(id) /\ rows[id].guid \in Guids
      BY DEF KeepInv, TypeInv, TypeOK, Rows
    <3>2. Newest(id)' <=> Newest(id)
      BY DEF Newest, NewestByGuid
    <3> QED  BY <2>1, <3>1, <3>2 DEF RowKeeps, Original, Signatures, SignedTo
  <2> QED  BY <2>1
<1>2. ASSUME NEW other \in Guids \ {guid}
      PROVE  FileKeeps(other)'
  <2>1. files[other] \in {NoFile, Original(other)} \/ ~ Unassigned(other)
    BY DEF KeepInv, FileKeeps, OthersIdle, Turning
  <2>2. Unassigned(other)' <=> Unassigned(other)
    BY DEF Unassigned
  <2> QED  BY <2>1, <2>2 DEF FileKeeps, Original
<1>3. ASSUME NEW other \in Clients \ {client}
      PROVE  OpKeeps(ops[other])'
  BY <1>3 DEF OthersIdle, OpKeeps, Started, BeforeSave, Copying, Turning, Reverted, UnassignSteps
<1> QED  BY <1>1, <1>2, <1>3 DEF KeepInv

\* The steps that begin and end an operation.
LEMMA KeepsBoundary ==
    ASSUME KeepInv, NEW client \in Clients, OthersIdle(client),
           UNCHANGED <<rows, files, backups>>,
           ops[client].pc \notin Turning, ops'[client].pc \in Started
    PROVE  KeepInv'
<1>1. OpKeeps(ops[client])'
  BY DEF OpKeeps, Started, BeforeSave, Copying, Turning, Reverted, UnassignSteps
<1> QED  BY <1>1, KeepsOperation

\* The row that an operation fetches is the newest of its voucher.
LEMMA KeepsFetch ==
    ASSUME SerialFollowsGuid, TypeInv, Columns, KeepInv, NEW client \in Clients, OthersIdle(client),
           Fetch(client)
    PROVE  KeepInv'
<1>1. UNCHANGED <<rows, files, backups>> /\ ops[client].pc = "fetch" /\ ops[client] \in Ops
  BY DEF Fetch, At, TypeInv, TypeOK
<1>2. CASE Finish(client)
  <2>1. ops'[client].pc = "idle"
    BY <1>2, FinishType DEF TypeInv, NoOp
  <2> QED  BY <1>1, <2>1, KeepsBoundary DEF Started, Turning
<1>3. CASE ~ Finish(client)
  <2>1. PICK id \in RowIds :
          /\ NewestBySerial(rows, ops[client].serial, id)
          /\ AfterFetch(client, rows[id]) # "idle"
          /\ ops' = [ops EXCEPT ![client].pc = AfterFetch(client, rows[id]),
                                ![client].id = id, ![client].rec = rows[id]]
    BY <1>3 DEF Fetch
  <2> DEFINE step == AfterFetch(client, rows[id])
  <2>2. /\ step \in {"unmark", "access", "parse"}
        /\ step = "unmark" => rows[id].status = "assigned"
    BY <2>1 DEF AfterFetch
  <2>3. ops' = [ops EXCEPT ![client].pc = step, ![client].id = id, ![client].rec = rows[id]]
    BY <2>1
  <2> HIDE DEF step
  <2>4. ops'[client].pc = step /\ ops'[client].id = id
    BY <1>1, <2>3 DEF TypeInv, TypeOK, Ops
  <2>5. Newest(id)
    BY <2>1 DEF SerialFollowsGuid, Columns, Newest, NewestBySerial, NewestByGuid
  <2>6. OpKeeps(ops[client])'
    BY <1>1, <2>2, <2>4, <2>5 DEF OpKeeps, Newest, BeforeSave, Copying, Turning, Reverted, UnassignSteps
  <2> QED  BY <1>1, <2>6, KeepsOperation DEF Turning
<1> QED  BY <1>2, <1>3

\* What a client past its fetch knows, with the voucher and the row it names.
LEMMA KeptByClient ==
    ASSUME TypeInv, KeepInv, NEW client \in Clients, ops[client].pc \notin Started
    PROVE  /\ OpKeeps(ops[client]) /\ Newest(ops[client].id)
           /\ ops[client].id \in RowIds /\ rows[ops[client].id].guid = Guid(client)
           /\ Guid(client) \in Guids /\ Guid(client) = ops[client].rec.guid
BY FetchedFacts DEF KeepInv, OpKeeps, Guid

LEMMA KeepsGoing ==
    ASSUME TypeInv, KeepInv, NEW client \in Clients, OthersIdle(client),
           UNCHANGED <<rows, files, backups>>,
           ops[client].pc \in {"access", "custodian"},
           NEW step \in {"parse", "owner_key"}, Goto(client, step)
    PROVE  KeepInv'
<1>1. ops[client].pc \notin Started /\ step \in Steps
  BY DEF Started, Steps, AssignSteps
<1>2. /\ ops'[client].pc = step /\ ops'[client].id = ops[client].id
      /\ ops'[client].rec = ops[client].rec
  BY <1>1, GotoFields
<1>3. Newest(ops[client].id)
  BY <1>1, KeptByClient
<1>4. OpKeeps(ops[client])'
  BY <1>2, <1>3 DEF OpKeeps, Newest, BeforeSave, Copying, Turning, Reverted, UnassignSteps
<1> QED  BY <1>4, KeepsOperation DEF Turning

\* Only the original can be extended, and it is what is backed up.
LEMMA KeepsReading ==
    ASSUME Own \notin NewOwners, TypeInv, GenuineInv, KeepInv, NEW client \in Assigners,
           client \in Clients, OthersIdle(client),
           ParseAndExtend(client) \/ BackupRead(client)
    PROVE  KeepInv'
<1>1. /\ UNCHANGED <<rows, files, backups>> /\ ops[client] \in Ops
      /\ ops[client].pc \in {"parse", "backup_read"} /\ ops[client].pc \notin Started
  BY DEF ParseAndExtend, BackupRead, At, Started, TypeInv, TypeOK
<1>2. PICK guid \in Guids : guid = Guid(client) /\ guid = ops[client].rec.guid
  BY <1>1, KeptByClient
<1>3. OpKeeps(ops[client]) /\ Newest(ops[client].id)
  BY <1>1, KeptByClient
<1>4. CASE Finish(client)
  <2>1. ops'[client].pc = "idle"
    BY <1>4, FinishType DEF TypeInv, NoOp
  <2> QED  BY <1>1, <2>1, KeepsBoundary DEF Started, Turning
<1>5. CASE ParseAndExtend(client) /\ ~ Finish(client)
  <2>1. PICK voucher : ops' = [ops EXCEPT ![client].pc = "backup_read", ![client].voucher = voucher]
    BY <1>5 DEF ParseAndExtend
  <2>2. /\ ops'[client].pc = "backup_read" /\ ops'[client].id = ops[client].id
        /\ ops'[client].rec = ops[client].rec
    BY <1>1, <2>1 DEF TypeInv, TypeOK, Ops
  <2>3. files[guid] = Original(guid)
    BY <1>2, <1>5, GenuineExtendable DEF ParseAndExtend, GenuineInv
  <2>4. OpKeeps(ops[client])'
    BY <1>1, <1>2, <1>3, <2>2, <2>3
    DEF OpKeeps, Newest, Copying, Turning, Reverted, UnassignSteps, Original
  <2> QED  BY <1>1, <2>4, KeepsOperation DEF Turning
<1>6. CASE BackupRead(client) /\ ~ Finish(client)
  <2>1. ops' = [ops EXCEPT ![client].pc = "backup_open", ![client].data = files[guid]]
    BY <1>2, <1>6 DEF BackupRead
  <2>2. /\ ops'[client].pc = "backup_open" /\ ops'[client].id = ops[client].id
        /\ ops'[client].rec = ops[client].rec /\ ops'[client].data = files[guid]
    BY <1>1, <2>1 DEF TypeInv, TypeOK, Ops
  <2>3. files[guid] = Original(guid)
    BY <1>2, <1>3, <1>6 DEF BackupRead, At, OpKeeps, BeforeSave
  <2>4. OpKeeps(ops[client])'
    BY <1>1, <1>2, <1>3, <2>2, <2>3 DEF OpKeeps, Newest, Turning, Reverted, UnassignSteps, Original
  <2> QED  BY <1>1, <2>4, KeepsOperation DEF Turning
<1> QED  BY <1>4, <1>5, <1>6

\* A step that writes the file or the backup of a voucher without assigned rows.
LEMMA KeepsWrite ==
    ASSUME TypeInv, KeepInv, NEW client \in Clients, OthersIdle(client), rows' = rows,
           NEW guid \in Guids, Guid(client) = guid, Unassigned(guid),
           \A other \in Guids \ {guid} :
              files'[other] = files[other] /\ backups'[other] = backups[other],
           \/ files'[guid] = Original(guid)
           \/ ops'[client].pc \in Turning /\ Guid(client)' = guid,
           OpKeeps(ops[client])'
    PROVE  KeepInv'
<1>1. \A id \in RowIds : rows[id].guid = guid => RowKeeps(id)'
  BY DEF Unassigned, RowKeeps
<1>2. FileKeeps(guid)'
  BY DEF FileKeeps, Original
<1> QED  BY <1>1, <1>2, KeepsTurn

LEMMA KeepsBackup ==
    ASSUME TypeInv, KeepInv, NEW client \in Assigners, client \in Clients, OthersIdle(client),
           BackupOpen(client) \/ BackupWrite(client)
    PROVE  KeepInv'
<1>1. PICK step \in {"backup_write", "save_open"} :
        /\ Goto(client, step) /\ step \in Steps
        /\ step = "save_open" => BackupWrite(client)
  BY DEF BackupOpen, BackupWrite, Steps, AssignSteps
<1>2. /\ ops[client].pc \in {"backup_open", "backup_write"} /\ ops[client].pc \notin Started
      /\ rows' = rows /\ files' = files
  BY DEF BackupOpen, BackupWrite, At, Started
<1>3. PICK guid \in Guids : guid = Guid(client) /\ guid = ops[client].rec.guid
  BY <1>2, KeptByClient
<1>4. /\ ops'[client].pc = step /\ ops'[client].id = ops[client].id
      /\ ops'[client].rec = ops[client].rec /\ ops'[client].data = ops[client].data
  BY <1>1, GotoFields
<1>5. OpKeeps(ops[client]) /\ Newest(ops[client].id)
  BY <1>2, KeptByClient
<1>6. files[guid] = Original(guid) /\ ops[client].data = Original(guid)
  BY <1>2, <1>3, <1>5 DEF OpKeeps, BeforeSave, Copying
<1>7. /\ \A other \in Guids \ {guid} : backups'[other] = backups[other]
      /\ step = "save_open" => backups'[guid] = Original(guid)
  BY <1>1, <1>3, <1>6 DEF BackupOpen, BackupWrite, TypeInv, TypeOK
<1>8. OpKeeps(ops[client])'
  BY <1>2, <1>3, <1>4, <1>5, <1>6, <1>7
  DEF OpKeeps, Newest, Turning, Copying, Reverted, UnassignSteps, Original
<1>9. Unassigned(guid)
  BY <1>6, KeptUnassigned
<1> QED  BY <1>2, <1>3, <1>6, <1>7, <1>8, <1>9, KeepsWrite

LEMMA KeepsSave ==
    ASSUME TypeInv, GenuineInv, KeepInv, NEW client \in Assigners, client \in Clients,
           OthersIdle(client), SaveOpen(client) \/ SaveWrite(client)
    PROVE  KeepInv'
<1>1. PICK step \in {"save_write", "mark"} :
        /\ Goto(client, step) /\ step \in Steps
        /\ step = "save_write" => SaveOpen(client)
        /\ step = "mark" => SaveWrite(client)
  BY DEF SaveOpen, SaveWrite, Steps, AssignSteps
<1>2. /\ ops[client].pc \in {"save_open", "save_write"} /\ ops[client].pc \notin Started
      /\ rows' = rows /\ backups' = backups
  BY DEF SaveOpen, SaveWrite, At, Started
<1>3. PICK guid \in Guids : guid = Guid(client) /\ guid = ops[client].rec.guid
  BY <1>2, KeptByClient
<1>4. /\ ops'[client].pc = step /\ ops'[client].id = ops[client].id
      /\ ops'[client].rec = ops[client].rec
  BY <1>1, GotoFields
<1>5. OpKeeps(ops[client]) /\ Newest(ops[client].id)
  BY <1>2, KeptByClient
<1>6. files[guid] \in {Original(guid), Torn} /\ backups[guid] = Original(guid)
  BY <1>2, <1>3, <1>5 DEF OpKeeps, BeforeSave, Turning
<1>7. Unassigned(guid)
  BY <1>6, KeptUnassigned
<1>8. ops[client].voucher \in Signatures(guid)
  BY <1>2, <1>3 DEF GenuineInv, OpGenuine, Extended, BeforeSave, Signatures
<1>9. /\ \A other \in Guids \ {guid} : files'[other] = files[other]
      /\ step = "save_write" => files'[guid] = Torn
      /\ step = "mark" => files'[guid] \in Signatures(guid)
  BY <1>1, <1>3, <1>8 DEF SaveOpen, SaveWrite, TypeInv, TypeOK
<1>10. OpKeeps(ops[client])'
  <2>1. Newest(ops[client].id)' /\ Unassigned(guid)' /\ backups'[guid] = Original(guid)
    BY <1>2, <1>4, <1>5, <1>6, <1>7 DEF Newest, Unassigned
  <2>2. CASE step = "save_write"
    BY <1>3, <1>4, <1>9, <2>1, <2>2
    DEF OpKeeps, BeforeSave, Copying, Reverted, UnassignSteps, Original
  <2>3. CASE step = "mark"
    <3>1. files'[guid] \in Signatures(guid)'
      BY <1>9, <2>3 DEF Signatures, SignedTo
    <3> QED
      BY <1>3, <1>4, <2>1, <2>3, <3>1
      DEF OpKeeps, BeforeSave, Copying, Reverted, UnassignSteps, Original, Unassigned
  <2> QED  BY <1>1, <2>2, <2>3
<1>11. ops'[client].pc \in Turning /\ Guid(client)' = guid
  BY <1>3, <1>4 DEF Turning, Guid
<1> QED  BY <1>2, <1>3, <1>7, <1>9, <1>10, <1>11, KeepsWrite

\* The assignment records the customer in the newest row, the one the worker looks at.
LEMMA KeepsMark ==
    ASSUME TypeInv, KeepInv, NEW client \in Assigners, client \in Clients, OthersIdle(client),
           Mark(client)
    PROVE  KeepInv'
<1>1. /\ ops[client].pc = "mark" /\ ops[client].pc \notin Started /\ Goto(client, "custodian")
      /\ files' = files /\ backups' = backups
  BY DEF Mark, At, Started
<1>2. PICK guid \in Guids : guid = Guid(client) /\ guid = ops[client].rec.guid
  BY <1>1, KeptByClient
<1>3. /\ ops'[client].pc = "custodian" /\ ops'[client].id = ops[client].id
      /\ ops'[client].rec = ops[client].rec
  BY <1>1, GotoFields DEF Steps, AssignSteps
<1>4. /\ OpKeeps(ops[client]) /\ Newest(ops[client].id) /\ ops[client].id \in RowIds
      /\ rows[ops[client].id].guid = guid
  BY <1>1, <1>2, KeptByClient
<1>5. ops[client].newOwner \in Parties /\ ops[client].caller \in Parties
  BY <1>1, FetchedFacts
<1>6. /\ rows'[ops[client].id].status = "assigned"
      /\ \A id \in RowIds \ {ops[client].id} : rows'[id] = rows[id]
      /\ \A id \in RowIds : rows'[id].guid = rows[id].guid
  BY <1>4, <1>5, MarkFacts DEF Mark, TypeInv, TypeOK
<1>7. Unassigned(guid) /\ files[guid] \in Signatures(guid) /\ backups[guid] = Original(guid)
  BY <1>1, <1>2, <1>4 DEF OpKeeps, Turning
<1>8. Newest(ops[client].id)'
  BY <1>3, <1>4, <1>6 DEF Newest, NewestByGuid
<1>9. ASSUME NEW id \in RowIds, rows[id].guid = guid
      PROVE  RowKeeps(id)'
  <2>1. CASE id = ops[client].id
    BY <1>1, <1>3, <1>6, <1>7, <1>8, <1>9, <2>1 DEF RowKeeps, Signatures, SignedTo, Original
  <2>2. CASE id # ops[client].id
    BY <1>6, <1>7, <1>9, <2>2 DEF RowKeeps, Unassigned
  <2> QED  BY <2>1, <2>2
<1>10. FileKeeps(guid)'
  BY <1>4, <1>6 DEF FileKeeps, Unassigned
<1>11. OpKeeps(ops[client])'
  BY <1>3, <1>8 DEF OpKeeps, Started, BeforeSave, Copying, Turning, Reverted, UnassignSteps
<1>12. \A id \in RowIds : rows[id].guid # guid => rows'[id] = rows[id]
  BY <1>4, <1>6
<1> QED  BY <1>1, <1>2, <1>6, <1>9, <1>10, <1>11, <1>12, KeepsTurn

\* Unassigning finds the signed voucher of the row it read, and its backup.
LEMMA KeepsUnmark ==
    ASSUME TypeInv, KeepInv, NEW command \in UnassignCommands, command \in Clients,
           OthersIdle(command), Unmark(command)
    PROVE  KeepInv'
<1>1. /\ ops[command].pc = "unmark" /\ ops[command].pc \notin Started
      /\ Goto(command, "restore_read") /\ files' = files /\ backups' = backups
  BY DEF Unmark, At, Started
<1>2. PICK guid \in Guids : guid = Guid(command) /\ guid = ops[command].rec.guid
  BY <1>1, KeptByClient
<1>3. /\ ops'[command].pc = "restore_read" /\ ops'[command].id = ops[command].id
      /\ ops'[command].rec = ops[command].rec
  BY <1>1, GotoFields DEF Steps, UnassignSteps
<1>4. /\ OpKeeps(ops[command]) /\ Newest(ops[command].id) /\ ops[command].id \in RowIds
      /\ rows[ops[command].id].guid = guid
  BY <1>1, <1>2, KeptByClient
<1>5. rows[ops[command].id].status = "assigned" /\ RowKeeps(ops[command].id)
  BY <1>1, <1>4 DEF OpKeeps, KeepInv
<1>6. backups[guid] = Original(guid)
  BY <1>4, <1>5 DEF RowKeeps
<1>7. /\ rows'[ops[command].id].status # "assigned"
      /\ \A id \in RowIds \ {ops[command].id} : rows'[id] = rows[id]
      /\ \A id \in RowIds : rows'[id].guid = rows[id].guid
  <2>1. RestoreStatus(ops[command].rec) \in {"pending", "no_destination"}
    BY DEF RestoreStatus
  <2> QED  BY <1>4, <2>1, UnmarkFacts DEF Unmark, TypeInv, TypeOK
<1>8. Unassigned(guid)'
  BY <1>4, <1>5, <1>7, KeptAlone DEF Unassigned
<1>9. \A id \in RowIds : rows[id].guid = guid => RowKeeps(id)'
  BY <1>7, <1>8 DEF RowKeeps, Unassigned
<1>10. FileKeeps(guid)'
  BY <1>2, <1>3 DEF FileKeeps, Turning, Guid
<1>11. Newest(ops[command].id)'
  BY <1>3, <1>4, <1>7 DEF Newest, NewestByGuid
<1>12. OpKeeps(ops[command])'
  BY <1>1, <1>2, <1>3, <1>6, <1>8, <1>11
  DEF OpKeeps, BeforeSave, Copying, Unassigned, Original
<1>13. \A id \in RowIds : rows[id].guid # guid => rows'[id] = rows[id]
  BY <1>4, <1>7
<1> QED  BY <1>1, <1>2, <1>7, <1>9, <1>10, <1>12, <1>13, KeepsTurn

\* The backup is there, so that the original is back when the operation ends.
LEMMA KeepsRestore ==
    ASSUME TypeInv, KeepInv, NEW command \in UnassignCommands, command \in Clients,
           OthersIdle(command),
           \/ RestoreRead(command) \/ RestoreOpen(command)
           \/ RestoreWrite(command) \/ RemoveBackup(command)
    PROVE  KeepInv'
<1>1. /\ ops[command].pc \in {"restore_read", "restore_open", "restore_write", "remove_backup"}
      /\ ops[command].pc \notin Started /\ ops[command] \in Ops /\ rows' = rows
  BY DEF RestoreRead, RestoreOpen, RestoreWrite, RemoveBackup, At, Started, TypeInv, TypeOK
<1>2. PICK guid \in Guids : guid = Guid(command) /\ guid = ops[command].rec.guid
  BY <1>1, KeptByClient
<1>3. OpKeeps(ops[command]) /\ Newest(ops[command].id)
  BY <1>1, KeptByClient
<1>4. Unassigned(guid)
  BY <1>1, <1>2, <1>3 DEF OpKeeps, Reverted, UnassignSteps
<1>5. \A other \in Guids \ {guid} :
         files'[other] = files[other] /\ backups'[other] = backups[other]
  BY <1>2 DEF RestoreRead, RestoreOpen, RestoreWrite, RemoveBackup, TypeInv, TypeOK
<1>6. ASSUME NEW step \in {"restore_open", "restore_write", "remove_backup", "revoke"},
             ops'[command].pc = step, ops'[command].id = ops[command].id,
             ops'[command].rec = ops[command].rec,
             step \in {"restore_open", "restore_write"} =>
                ops'[command].data = Original(guid) /\ backups'[guid] = Original(guid),
             step \in {"remove_backup", "revoke"} => files'[guid] = Original(guid)
      PROVE  KeepInv'
  <2>1. Unassigned(guid)' /\ Newest(ops[command].id)'
    BY <1>1, <1>3, <1>4, <1>6 DEF Unassigned, Newest
  <2>2. OpKeeps(ops[command])'
    BY <1>2, <1>6, <2>1 DEF OpKeeps, BeforeSave, Copying, Turning, Unassigned, Original
  <2>3. \/ ops'[command].pc \in Turning /\ Guid(command)' = guid
        \/ files'[guid] = Original(guid)
    BY <1>2, <1>6 DEF Turning, Guid
  <2> QED  BY <1>1, <1>2, <1>4, <1>5, <2>2, <2>3, KeepsWrite
<1>7. CASE RestoreRead(command)
  <2>1. backups[guid] = Original(guid)
    BY <1>2, <1>3, <1>7 DEF OpKeeps, Turning, RestoreRead, At
  <2>2. backups[guid] # NoFile
    BY <2>1, SignedFacts, AssignmentAssumption, StoreAssumption
  <2>3. ops' = [ops EXCEPT ![command].pc = "restore_open", ![command].data = backups[guid]]
    BY <1>2, <1>7, <2>2 DEF RestoreRead
  <2>4. /\ ops'[command].pc = "restore_open" /\ ops'[command].id = ops[command].id
        /\ ops'[command].rec = ops[command].rec /\ ops'[command].data = backups[guid]
    BY <1>1, <2>3 DEF TypeInv, TypeOK, Ops
  <2> QED  BY <1>6, <1>7, <2>1, <2>4 DEF RestoreRead
<1>8. CASE RestoreOpen(command)
  <2>1. backups[guid] = Original(guid) /\ ops[command].data = Original(guid)
    BY <1>2, <1>3, <1>8 DEF OpKeeps, Turning, Copying, RestoreOpen, At
  <2>2. /\ ops'[command].pc = "restore_write" /\ ops'[command].id = ops[command].id
        /\ ops'[command].rec = ops[command].rec /\ ops'[command].data = ops[command].data
    BY <1>8, GotoFields DEF RestoreOpen, Steps, UnassignSteps
  <2> QED  BY <1>6, <1>8, <2>1, <2>2 DEF RestoreOpen
<1>9. CASE RestoreWrite(command)
  <2>1. ops[command].data = Original(guid)
    BY <1>2, <1>3, <1>9 DEF OpKeeps, Copying, RestoreWrite, At
  <2>2. /\ ops'[command].pc = "remove_backup" /\ ops'[command].id = ops[command].id
        /\ ops'[command].rec = ops[command].rec
    BY <1>9, GotoFields DEF RestoreWrite, Steps, UnassignSteps
  <2>3. files'[guid] = Original(guid)
    BY <1>2, <1>9, <2>1 DEF RestoreWrite, TypeInv, TypeOK
  <2> QED  BY <1>6, <2>2, <2>3
<1>10. CASE RemoveBackup(command)
  <2>1. files[guid] = Original(guid)
    BY <1>2, <1>3, <1>10 DEF OpKeeps, RemoveBackup, At
  <2>2. /\ ops'[command].pc = "revoke" /\ ops'[command].id = ops[command].id
        /\ ops'[command].rec = ops[command].rec
    BY <1>10, GotoFields DEF RemoveBackup, Steps, UnassignSteps
  <2> QED  BY <1>6, <1>10, <2>1, <2>2 DEF RemoveBackup
<1> QED  BY <1>7, <1>8, <1>9, <1>10

LEMMA KeepsEnds ==
    ASSUME TypeInv, KeepInv, NEW client \in Clients, OthersIdle(client),
           \/ client \in Requests /\ StartRequest(client)
           \/ client \in Commands /\ (StartBySerial(client) \/ StartByGuid(client))
           \/ client \in Commands /\ Lookup(client)
           \/ client \in Requests /\ CheckAccess(client) /\ Finish(client)
           \/ GrantOwnerKey(client) \/ RevokeGrants(client)
    PROVE  KeepInv'
<1>1. UNCHANGED <<rows, files, backups>> /\ ops[client].pc \notin Turning
  BY DEF StartRequest, StartBySerial, StartByGuid, MayStart, Lookup, CheckAccess, GrantOwnerKey,
         RevokeGrants, At, Turning
<1>2. CASE Finish(client)
  <2>1. ops'[client].pc = "idle"
    BY <1>2, FinishType DEF TypeInv, NoOp
  <2> QED  BY <1>1, <2>1, KeepsBoundary DEF Started
<1>3. CASE Lookup(client) /\ ~ Finish(client)
  <2>1. PICK id \in RowIds :
          ops' = [ops EXCEPT ![client].pc = "fetch", ![client].serial = rows[id].serial]
    BY <1>3 DEF Lookup
  <2>2. ops'[client].pc = "fetch"
    BY <2>1 DEF TypeInv, TypeOK, Ops
  <2> QED  BY <1>1, <2>2, KeepsBoundary DEF Started
<1>4. CASE \/ client \in Requests /\ StartRequest(client)
           \/ client \in Commands /\ (StartBySerial(client) \/ StartByGuid(client))
  <2>1. ops'[client].pc \in {"fetch", "lookup"}
    BY <1>4, StartFields
  <2> QED  BY <1>1, <2>1, KeepsBoundary DEF Started
<1> QED  BY <1>2, <1>3, <1>4 DEF GrantOwnerKey, RevokeGrants

\* Every step of an operation that runs alone.
LEMMA KeepsStep ==
    ASSUME OneAtATime, SerialFollowsGuid, TypeInv, GenuineInv, Columns, Alone, KeepInv, Operation
    PROVE  KeepInv'
<1>1. PICK client \in Clients : Acts(client) /\ OthersIdle(client)
  BY OneActsAlone DEF OneAtATime
<1>2. CASE \/ client \in Requests /\ (StartRequest(client) \/ CheckAccess(client))
           \/ client \in Commands
                 /\ (StartBySerial(client) \/ StartByGuid(client) \/ Lookup(client))
  <2>1. CASE client \in Requests /\ CheckAccess(client) /\ ~ Finish(client)
    <3>1. /\ UNCHANGED <<rows, files, backups>> /\ ops[client].pc = "access"
          /\ Goto(client, "parse")
      BY <2>1 DEF CheckAccess, At
    <3> QED  BY <1>1, <3>1, KeepsGoing
  <2> QED  BY <1>1, <1>2, <2>1, KeepsEnds
<1>3. CASE Fetch(client)
  BY <1>1, <1>3, KeepsFetch
<1>4. CASE client \in Assigners /\ AssignStep(client)
  <2>1. CASE GrantCustodian(client)
    <3>1. /\ UNCHANGED <<rows, files, backups>> /\ ops[client].pc = "custodian"
          /\ Goto(client, "owner_key")
      BY <2>1 DEF GrantCustodian, At
    <3> QED  BY <1>1, <3>1, KeepsGoing
  <2>2. CASE GrantOwnerKey(client)
    BY <1>1, <2>2, KeepsEnds
  <2> QED
    BY <1>1, <1>4, <2>1, <2>2, KeepsReading, KeepsBackup, KeepsSave, KeepsMark
    DEF AssignStep, OneAtATime
<1>5. CASE client \in UnassignCommands /\ UnassignStep(client)
  <2>1. CASE RevokeGrants(client)
    BY <1>1, <2>1, KeepsEnds
  <2> QED  BY <1>1, <1>5, <2>1, KeepsUnmark, KeepsRestore DEF UnassignStep
<1> QED  BY <1>1, <1>2, <1>3, <1>4, <1>5 DEF Acts

LEMMA KeepsUnchanged ==
    ASSUME KeepInv, UNCHANGED vars
    PROVE  KeepInv'
<1>1. \A id \in RowIds : RowKeeps(id)'
  BY DEF KeepInv, vars, RowKeeps, Newest, Original, Signatures, SignedTo
<1>2. \A guid \in Guids : FileKeeps(guid)'
  <2> SUFFICES ASSUME NEW guid \in Guids PROVE FileKeeps(guid)'
    OBVIOUS
  <2>1. FileKeeps(guid)
    BY DEF KeepInv
  <2>2. (\E client \in Clients : ops[client].pc \in Turning /\ Guid(client) = guid)
           => \E client \in Clients : (ops[client].pc \in Turning /\ Guid(client) = guid)'
    BY DEF vars, Guid
  <2>3. Unassigned(guid)' <=> Unassigned(guid)
    BY DEF vars, Unassigned
  <2> QED  BY <2>1, <2>2, <2>3 DEF vars, FileKeeps, Original
<1>3. ASSUME NEW client \in Clients
      PROVE  OpKeeps(ops[client])'
  <2>1. OpKeeps(ops[client])
    BY DEF KeepInv
  <2> QED  BY <2>1 DEF vars, OpKeeps, Newest, Unassigned, Original, Signatures, SignedTo
<1> QED  BY <1>1, <1>2, <1>3 DEF KeepInv

\* An attempt that no operation overlaps writes a status other than "assigned" over
\* one, or deletes a file.
LEMMA KeepsAttempt ==
    ASSUME KeepInv, Quiescent, UNCHANGED <<ops, backups>>,
           \A guid \in Guids : files'[guid] \in {files[guid], NoFile},
           \A id \in RowIds :
              /\ rows'[id].guid = rows[id].guid
              /\ rows'[id].status = "assigned" <=> rows[id].status = "assigned",
           \A id \in RowIds : rows[id].guid \in Guids
    PROVE  KeepInv'
<1>1. \A client \in Clients : ops[client].pc = "idle" /\ ops'[client].pc = "idle"
  BY DEF Quiescent, At
<1>2. ASSUME NEW id \in RowIds
      PROVE  RowKeeps(id)'
  <2>1. Newest(id)' <=> Newest(id)
    BY DEF Newest, NewestByGuid
  <2> QED  BY <2>1 DEF KeepInv, RowKeeps, Original, Signatures, SignedTo
<1>3. ASSUME NEW guid \in Guids
      PROVE  FileKeeps(guid)'
  <2>1. files[guid] \in {NoFile, Original(guid)} \/ ~ Unassigned(guid)
    BY <1>1 DEF KeepInv, FileKeeps, Turning
  <2>2. Unassigned(guid)' <=> Unassigned(guid)
    BY DEF Unassigned
  <2> QED  BY <2>1, <2>2 DEF FileKeeps, Original
<1>4. \A client \in Clients : OpKeeps(ops[client])'
  BY <1>1 DEF OpKeeps, Started, BeforeSave, Copying, Turning, Reverted, UnassignSteps
<1> QED  BY <1>2, <1>3, <1>4 DEF KeepInv

\* What an attempt has read stays the original, whatever it goes on to.
LEMMA PushStays ==
    ASSUME ManagerTypeInv, NEW pusher \in Pushers, PushKeeps(pusher),
           \A id \in RowIds : rows'[id].guid = rows[id].guid,
           pushes'[pusher].id = pushes[pusher].id,
           pushes'[pusher].voucher = pushes[pusher].voucher
    PROVE  PushKeeps(pusher)'
<1>1. CASE pushes[pusher].pc = "idle"
  <2>1. pushes[pusher].voucher = NoFile
    BY <1>1 DEF ManagerTypeInv, ManagerTypeOK, NoPush
  <2> QED  BY <2>1 DEF PushKeeps
<1>2. CASE pushes[pusher].pc # "idle"
  <2>1. pushes[pusher].id \in RowIds
    BY <1>2, PushTypes
  <2>2. PushedGuid(pusher)' = PushedGuid(pusher)
    BY <2>1 DEF PushedGuid
  <2>3. NewestByGuid(rows, PushedGuid(pusher), pushes[pusher].id)'
           <=> NewestByGuid(rows, PushedGuid(pusher), pushes[pusher].id)
    BY <2>1, <2>2 DEF NewestByGuid
  <2> QED  BY <2>2, <2>3 DEF PushKeeps, Original
<1> QED  BY <1>1, <1>2

\* The row of an attempt is not assigned.  When it is the newest of its voucher, no
\* other is, and nobody is turning the voucher: what parses is the original.
LEMMA ReadsOriginals ==
    ASSUME ManagerTypeInv, ApartInv, KeepInv, NEW pusher \in Pushers, PushKeeps(pusher),
           ReadFile(pusher)
    PROVE  PushKeeps(pusher)'
<1>1. /\ pushes[pusher].pc = "read" /\ pushes[pusher] \in Pushes /\ rows' = rows
      /\ pushes \in [Pushers -> Pushes] /\ pushes[pusher].id \in RowIds
      /\ PushedGuid(pusher) \in Guids
  BY PushTypes DEF ReadFile, vars
<1>2. PICK guid \in Guids : guid = PushedGuid(pusher)
  BY <1>1
<1>3. Quiescent /\ rows[pushes[pusher].id].status # "assigned"
  BY <1>1 DEF ApartInv, AttemptsApart
<1>4. CASE Parses(files[guid])
  <2>1. pushes' = [pushes EXCEPT ![pusher].pc = "send", ![pusher].voucher = files[guid]]
    BY <1>2, <1>4 DEF ReadFile
  <2>2. pushes'[pusher].id = pushes[pusher].id /\ pushes'[pusher].voucher = files[guid]
    BY <1>1, <2>1 DEF Pushes
  <2>3. PushedGuid(pusher)' = guid
    BY <1>1, <1>2, <2>2 DEF PushedGuid
  <2>4. ASSUME NewestByGuid(rows, guid, pushes[pusher].id)
        PROVE  files[guid] = Original(guid)
    <3>1. files[guid] # NoFile
      BY <1>4, ChainFacts DEF Parses
    <3>2. Unassigned(guid)
      <4> SUFFICES ASSUME NEW id \in RowIds, rows[id].guid = guid, rows[id].status = "assigned"
                   PROVE  FALSE
        BY DEF Unassigned
      <4>1. NewestByGuid(rows, guid, id)
        BY DEF KeepInv, RowKeeps, Newest
      <4>2. id = pushes[pusher].id
        <5>1. /\ id <= pushes[pusher].id /\ pushes[pusher].id <= id
              /\ pushes[pusher].id \in RowIds
          BY <2>4, <4>1 DEF NewestByGuid
        <5>2. id \in Nat /\ pushes[pusher].id \in Nat
          BY <5>1, StoreAssumption
        <5> QED  BY <5>1, <5>2
      <4> QED  BY <1>3, <4>2
    <3>3. \A client \in Clients : ops[client].pc = "idle"
      BY <1>3 DEF Quiescent, At
    <3> QED  BY <3>1, <3>2, <3>3 DEF KeepInv, FileKeeps, Turning
  <2> QED  BY <1>1, <2>2, <2>3, <2>4 DEF PushKeeps, Original
<1>5. CASE ~ Parses(files[guid])
  <2>1. PICK status \in {"pending", "failed"} :
          pushes' = [pushes EXCEPT ![pusher].pc = "mark", ![pusher].status = status]
    BY <1>2, <1>5 DEF ReadFile
  <2>2. /\ pushes'[pusher].id = pushes[pusher].id
        /\ pushes'[pusher].voucher = pushes[pusher].voucher
    BY <1>1, <2>1 DEF Pushes
  <2> QED  BY <1>1, <2>2, PushStays
<1> QED  BY <1>4, <1>5

LEMMA ForwardsOperation ==
    ASSUME OneAtATime, SerialFollowsGuid, ManagerTypeInv, SentInv, ForwardInv, OperationStep
    PROVE  ForwardInv'
<1>1. TypeInv /\ Operation /\ Next /\ Exclusive /\ pushes' = pushes
  BY IsTypeInv DEF OperationStep, Next, OneAtATime
<1>2. \A id \in RowIds : SameColumns(id)
  BY <1>1, ColumnsKept
<1>3. Columns'
  BY <1>2 DEF SameColumns, ForwardInv, Columns
<1>4. Alone'
  BY <1>1, OneActsAlone DEF ForwardInv
<1>5. mixed' \/ (~ Pushing /\ KeepInv)
  BY DEF OperationStep, ForwardInv
<1>6. KeepInv => KeepInv'
  BY <1>1, KeepsStep DEF ForwardInv, SentInv
<1>7. ~ Pushing => \A pusher \in Pushers : PushKeeps(pusher)'
  BY <1>1 DEF Pushing, ManagerTypeInv, ManagerTypeOK, NoPush, PushKeeps
<1> QED  BY <1>3, <1>4, <1>5, <1>6, <1>7 DEF ForwardInv

\* The parts of the invariant that an attempt or a download cannot disturb.
LEMMA ForwardsApart ==
    ASSUME ForwardInv, ops' = ops, mixed => mixed',
           \A id \in RowIds : rows'[id].guid = rows[id].guid /\ rows'[id].serial = rows[id].serial,
           ~ mixed' => KeepInv' /\ \A pusher \in Pushers : PushKeeps(pusher)'
    PROVE  ForwardInv'
<1>1. Columns' /\ Alone'
  BY DEF ForwardInv, Columns, Alone
<1> QED  BY <1>1 DEF ForwardInv

LEMMA ForwardsAttempt ==
    ASSUME ManagerTypeInv, ForwardInv, NEW pusher \in Pushers, NEW id \in RowIds,
           Attempt(pusher, id)
    PROVE  ForwardInv'
<1>1. UNCHANGED vars /\ rows' = rows /\ ops' = ops /\ (mixed => mixed')
  BY DEF Attempt, vars
<1>2. ASSUME ~ mixed'
      PROVE  KeepInv' /\ \A other \in Pushers : PushKeeps(other)'
  <2>1. KeepInv /\ \A other \in Pushers : PushKeeps(other)
    BY <1>1, <1>2 DEF ForwardInv
  <2>2. KeepInv'
    BY <1>1, <2>1, KeepsUnchanged
  <2>3. /\ pushes'[pusher].voucher = NoFile
        /\ \A other \in Pushers \ {pusher} : pushes'[other] = pushes[other]
    BY DEF Attempt, NoPush, ManagerTypeInv, ManagerTypeOK
  <2>4. PushKeeps(pusher)'
    BY <2>3 DEF PushKeeps
  <2> QED  BY <1>1, <2>1, <2>2, <2>3, <2>4, PushStays
<1> QED  BY <1>1, <1>2, ForwardsApart

LEMMA ForwardsPush ==
    ASSUME ManagerTypeInv, HandInv, ForwardInv, NEW pusher \in Pushers,
           ReadFile(pusher) \/ Send(pusher) \/ MarkAttempt(pusher) \/ RemoveFile(pusher)
    PROVE  ForwardInv'
<1>1. /\ pushes[pusher] \in Pushes /\ pushes \in [Pushers -> Pushes]
      /\ pushes[pusher].id \in RowIds /\ PushedGuid(pusher) \in Guids
      /\ pushes[pusher].pc # "idle"
  BY PushTypes DEF ReadFile, Send, MarkAttempt, RemoveFile
<1>2. /\ UNCHANGED <<ops, backups, mixed>>
      /\ ReadFile(pusher) \/ Send(pusher) => UNCHANGED vars
      /\ MarkAttempt(pusher) => files' = files
      /\ RemoveFile(pusher) => rows' = rows
  BY DEF ReadFile, Send, MarkAttempt, RemoveFile, vars
<1>3. \A id \in RowIds : rows'[id].guid = rows[id].guid /\ rows'[id].serial = rows[id].serial
  <2>1. CASE MarkAttempt(pusher)
    BY <1>1, <2>1 DEF MarkAttempt, ManagerTypeInv, ManagerTypeOK, TypeOK, Rows
  <2> QED  BY <1>2, <2>1 DEF vars
<1>4. ASSUME ~ mixed
      PROVE  KeepInv' /\ \A other \in Pushers : PushKeeps(other)'
  <2>1. ApartInv /\ KeepInv /\ \A other \in Pushers : PushKeeps(other)
    BY <1>4 DEF HandInv, ForwardInv
  <2>2. KeepInv'
    <3>1. CASE ReadFile(pusher) \/ Send(pusher)
      BY <1>2, <2>1, <3>1, KeepsUnchanged
    <3>2. CASE MarkAttempt(pusher) \/ RemoveFile(pusher)
      <4>1. Quiescent
        BY <1>1, <2>1 DEF ApartInv, AttemptsApart
      <4>2. \A guid \in Guids : files'[guid] \in {files[guid], NoFile}
        BY <1>1, <1>2, <3>2 DEF RemoveFile, ManagerTypeInv, ManagerTypeOK, TypeOK
      <4>3. \A id \in RowIds : rows'[id].status = "assigned" <=> rows[id].status = "assigned"
        <5>1. CASE MarkAttempt(pusher)
          <6>1. /\ rows[pushes[pusher].id].status # "assigned"
                /\ pushes[pusher].status # "assigned"
            BY <1>1, <2>1, <5>1 DEF ApartInv, AttemptsApart, MarkAttempt
          <6> QED
            BY <1>1, <5>1, <6>1 DEF MarkAttempt, ManagerTypeInv, ManagerTypeOK, TypeOK, Rows
        <5> QED  BY <1>2, <3>2, <5>1
      <4>4. \A id \in RowIds : rows[id].guid \in Guids
        BY DEF ManagerTypeInv, ManagerTypeOK, TypeOK, Rows
      <4> QED  BY <1>2, <1>3, <2>1, <4>1, <4>2, <4>3, <4>4, KeepsAttempt
    <3> QED  BY <3>1, <3>2
  <2>3. \A other \in Pushers \ {pusher} : pushes'[other] = pushes[other]
    BY <1>1 DEF ReadFile, Send, MarkAttempt, RemoveFile
  <2>4. PushKeeps(pusher)'
    <3>1. CASE ReadFile(pusher)
      BY <2>1, <3>1, ReadsOriginals
    <3>2. CASE pushes' = [pushes EXCEPT ![pusher] = NoPush]
      <4>1. pushes'[pusher].voucher = NoFile
        BY <1>1, <3>2 DEF NoPush
      <4> QED  BY <4>1 DEF PushKeeps
    <3>3. CASE \/ Send(pusher)
               \/ pushes' = [pushes EXCEPT ![pusher].pc = "remove"]
      <4>1. /\ pushes'[pusher].id = pushes[pusher].id
            /\ pushes'[pusher].voucher = pushes[pusher].voucher
        BY <1>1, <3>3 DEF Send, Pushes
      <4> QED  BY <1>3, <2>1, <4>1, PushStays
    <3> QED  BY <3>1, <3>2, <3>3 DEF MarkAttempt, RemoveFile
  <2> QED  BY <1>3, <2>1, <2>2, <2>3, <2>4, PushStays
<1> QED  BY <1>2, <1>3, <1>4, ForwardsApart

LEMMA ForwardStep ==
    /\ OneAtATime /\ SerialFollowsGuid /\ ManagerTypeInv /\ SentInv /\ HandInv /\ ForwardInv
    /\ [ManagerNext]_managerVars
    => ForwardInv'
<1> SUFFICES ASSUME OneAtATime, SerialFollowsGuid, ManagerTypeInv, SentInv, HandInv, ForwardInv,
                    [ManagerNext]_managerVars
             PROVE  ForwardInv'
  OBVIOUS
<1>1. ASSUME UNCHANGED vars, pushes' = pushes, mixed' = mixed
      PROVE  ForwardInv'
  <2>1. rows' = rows /\ ops' = ops
    BY <1>1 DEF vars
  <2>2. KeepInv => KeepInv'
    BY <1>1, KeepsUnchanged
  <2>3. ASSUME NEW pusher \in Pushers, PushKeeps(pusher)
        PROVE  PushKeeps(pusher)'
    BY <1>1, <2>1, <2>3, PushStays
  <2> QED  BY <1>1, <2>1, <2>2, <2>3, ForwardsApart DEF ForwardInv
<1>2. CASE UNCHANGED managerVars
  BY <1>1, <1>2 DEF managerVars
<1>3. ASSUME NEW customer \in NewOwners, CheckDownload(customer) \/ LoadFile(customer)
      PROVE  ForwardInv'
  BY <1>1, <1>3 DEF CheckDownload, LoadFile
<1> QED
  BY <1>2, <1>3, ManagerSteps, ForwardsOperation, ForwardsAttempt, ForwardsPush

\* When the operators run one operation at a time, an assignment takes the voucher from
\* the worker: whatever the worker reads to forward, for the newest row of a voucher,
\* is the voucher as it was received, never that of a customer.  Two assignments that
\* overlap may restore a signed voucher as the original, and with two serial numbers
\* for one voucher the row that is marked need not be the newest.
THEOREM WorkerSendsOriginals ==
    ASSUME OneAtATime, SerialFollowsGuid
    PROVE  ManagerSpec => []WorkerForwardsOriginals
<1>1. /\ ManagerTypeInv /\ SentInv /\ [ManagerNext]_managerVars => SentInv'
      /\ ManagerTypeInv /\ SentInv /\ HandInv /\ ForwardInv /\ [ManagerNext]_managerVars
            => ForwardInv'
  BY SentStep, ForwardStep DEF OneAtATime
<1>2. ManagerSpec => []ForwardInv
  BY <1>1, ManagerTypeInit, ManagerTypeStep, SentInit, HandInit, HandStep, ForwardInit, PTL
  DEF ManagerSpec
<1>3. ForwardInv => WorkerForwardsOriginals
  BY DEF ForwardInv, PushKeeps, WorkerForwardsOriginals, Original, Pushers
<1> QED  BY <1>2, <1>3, PTL
===============================================================================
