----------------------------- MODULE VoucherManager -----------------------------
(***************************************************************************)
(* Assignment, delivery and download of the same vouchers.                 *)
(*                                                                         *)
(* The assign requests and commands and the unassign commands of           *)
(* VoucherAssignment share the rows and the voucher files with the retry   *)
(* worker and `vouchers retry` commands, which forward a voucher and       *)
(* record the attempt (voucher_push_service.go), and with the customers    *)
(* who download it through the pull service (voucher_pull_store.go).       *)
(* Nothing locks a voucher for any of them.  Crashes and errors are left   *)
(* to the modules of the parts, VoucherAssignment and VoucherDelivery.     *)
(***************************************************************************)
EXTENDS VoucherAssignment

CONSTANTS
    Worker,              \* the retry worker
    Retriers,            \* slots for `vouchers retry` processes
    DeleteAfterSuccess   \* push_service.delete_after_success

ASSUME ManagerAssumption ==
    /\ Worker \notin Retriers
    /\ DeleteAfterSuccess \in BOOLEAN

Pushers == {Worker} \cup Retriers

VARIABLES
    pushes,     \* the local state of every delivery attempt
    downloads,  \* the local state of every customer's download
    sent,       \* what the receivers downstream were sent
    mixed       \* history: see Mixes

managerVars == <<vars, pushes, downloads, sent, mixed>>

-------------------------------------------------------------------------------
Pushes == [pc: {"idle", "read", "send", "mark", "remove"},
           id: RowIds \cup {NoOne},
           voucher: Chains \cup {NoFile},     \* what was read from the file
           status: Statuses \cup {NoOne}]     \* the status the attempt ends with

NoPush == [pc |-> "idle", id |-> NoOne, voucher |-> NoFile, status |-> NoOne]

Downloads == [guid: Guids \cup {NoOne},       \* the access check has passed for it
              raced: BOOLEAN]                 \* history: an unassignment was under way

NoDownload == [guid |-> NoOne, raced |-> FALSE]

ManagerTypeOK ==
    /\ TypeOK
    /\ pushes \in [Pushers -> Pushes]
    /\ downloads \in [NewOwners -> Downloads]
    /\ sent \in [Guids -> SUBSET Chains]
    /\ mixed \in BOOLEAN
    /\ \A pusher \in Pushers :
          /\ pushes[pusher].pc = "idle" => pushes[pusher] = NoPush
          /\ pushes[pusher].pc = "send" => Parses(pushes[pusher].voucher)

ManagerInit ==
    /\ Init
    /\ pushes = [pusher \in Pushers |-> NoPush]
    /\ downloads = [customer \in NewOwners |-> NoDownload]
    /\ sent = [guid \in Guids |-> {}]
    /\ mixed = FALSE

Pushing == \E pusher \in Pushers : pushes[pusher].pc # "idle"
PushedGuid(pusher) == rows[pushes[pusher].id].guid

\* An assignment or unassignment in progress together with an attempt, two attempts
\* together, or an attempt by hand on a row that is assigned or delivered: MarkAttempt
\* writes its status over whatever is there.
Mixes(pusher, id) ==
    \/ ~ Quiescent
    \/ Pushing
    \/ pusher \in Retriers /\ rows[id].status \in {"assigned", "succeeded"}

-------------------------------------------------------------------------------
(***************************************************************************)
(* A delivery attempt: AttemptRecord and the two callers that pick a row.  *)
(***************************************************************************)
Attempt(pusher, id) ==
    /\ pushes[pusher].pc = "idle"
    /\ rows[id].hasDestination
    /\ pushes' = [pushes EXCEPT ![pusher] = [NoPush EXCEPT !.pc = "read", !.id = id]]
    /\ mixed' = (mixed \/ Mixes(pusher, id))
    /\ UNCHANGED <<vars, downloads, sent>>

\* Mutant of PickPending: the query has no condition on the status.
PickAny == \E id \in RowIds : Attempt(Worker, id)

\* The worker attempts the rows that PendingForRetry returns.
PickPending == \E id \in RowIds : rows[id].status = "pending" /\ Attempt(Worker, id)

\* `vouchers retry' attempts the newest row of the GUID, whatever its status.
Retry(command) ==
    \E guid \in Guids, id \in RowIds : NewestByGuid(rows, guid, id) /\ Attempt(command, id)

\* Mutant of ReadFile: a file that is there is sent without being parsed.
ReadUnparsed(pusher) ==
    LET file == files[PushedGuid(pusher)] IN
    /\ pushes[pusher].pc = "read"
    /\ IF file # NoFile
         THEN pushes' = [pushes EXCEPT ![pusher].pc = "send", ![pusher].voucher = file]
         ELSE \E status \in {"pending", "failed"} :
                 pushes' = [pushes EXCEPT ![pusher].pc = "mark", ![pusher].status = status]
    /\ UNCHANGED <<vars, downloads, sent, mixed>>

\* A file that is missing or does not parse is an error like one of the network: the
\* row stays pending until the last attempt.
ReadFile(pusher) ==
    LET file == files[PushedGuid(pusher)] IN
    /\ pushes[pusher].pc = "read"
    /\ IF Parses(file)
         THEN pushes' = [pushes EXCEPT ![pusher].pc = "send", ![pusher].voucher = file]
         ELSE \E status \in {"pending", "failed"} :
                 pushes' = [pushes EXCEPT ![pusher].pc = "mark", ![pusher].status = status]
    /\ UNCHANGED <<vars, downloads, sent, mixed>>

\* The request may be lost, refused or received, and the response may be lost.
Send(pusher) ==
    /\ pushes[pusher].pc = "send"
    /\ \E received \in BOOLEAN, status \in {"succeeded", "pending", "failed"} :
          /\ status = "succeeded" => received
          /\ sent' = IF received
                       THEN [sent EXCEPT ![PushedGuid(pusher)] = @ \cup {pushes[pusher].voucher}]
                       ELSE sent
          /\ pushes' = [pushes EXCEPT ![pusher].pc = "mark", ![pusher].status = status]
    /\ UNCHANGED <<vars, downloads, mixed>>

\* Mutant of MarkAttempt: the file is deleted whatever the outcome.
MarkAndRemove(pusher) ==
    /\ pushes[pusher].pc = "mark"
    /\ rows' = [rows EXCEPT ![pushes[pusher].id].status = pushes[pusher].status]
    /\ pushes' = IF DeleteAfterSuccess
                   THEN [pushes EXCEPT ![pusher].pc = "remove"]
                   ELSE [pushes EXCEPT ![pusher] = NoPush]
    /\ UNCHANGED <<grants, files, backups, ops, saved, downloads, sent, mixed>>

MarkAttempt(pusher) ==
    /\ pushes[pusher].pc = "mark"
    /\ rows' = [rows EXCEPT ![pushes[pusher].id].status = pushes[pusher].status]
    /\ pushes' = IF pushes[pusher].status = "succeeded" /\ DeleteAfterSuccess
                   THEN [pushes EXCEPT ![pusher].pc = "remove"]
                   ELSE [pushes EXCEPT ![pusher] = NoPush]
    /\ UNCHANGED <<grants, files, backups, ops, saved, downloads, sent, mixed>>

RemoveFile(pusher) ==
    /\ pushes[pusher].pc = "remove"
    /\ files' = [files EXCEPT ![PushedGuid(pusher)] = NoFile]
    /\ pushes' = [pushes EXCEPT ![pusher] = NoPush]
    /\ UNCHANGED <<rows, grants, backups, ops, saved, downloads, sent, mixed>>

PushStep ==
    \/ PickPending
    \/ \E command \in Retriers : Retry(command)
    \/ \E pusher \in Pushers :
          ReadFile(pusher) \/ Send(pusher) \/ MarkAttempt(pusher) \/ RemoveFile(pusher)

-------------------------------------------------------------------------------
(***************************************************************************)
(* A customer's download: GetVoucher.                                      *)
(***************************************************************************)
Reverting == \E command \in UnassignCommands :
                ops[command].pc \in UnassignSteps \ {"unmark"}

CheckDownload(customer) ==
    /\ downloads[customer] = NoDownload
    /\ \E guid \in Guids :
          /\ \E id \in RowIds : rows[id].guid = guid
          /\ HasAccessByGUID(rows, grants, guid, customer)
          /\ downloads' = [downloads EXCEPT ![customer] = [guid |-> guid, raced |-> Reverting]]
    /\ UNCHANGED <<vars, pushes, sent, mixed>>

\* The file is read as it is now; the customer gets it if it parses.
LoadFile(customer) ==
    /\ downloads[customer] # NoDownload
    /\ downloads' = [downloads EXCEPT ![customer] = NoDownload]
    /\ UNCHANGED <<vars, pushes, sent, mixed>>

-------------------------------------------------------------------------------
\* A step of an assignment or an unassignment.
OperationStep ==
    /\ Operation
    /\ mixed' = (mixed \/ Pushing)
    /\ downloads' = [customer \in NewOwners |->
                       [downloads[customer] EXCEPT
                          !.raced = @ \/ (Reverting' /\ downloads[customer] # NoDownload)]]
    /\ UNCHANGED <<pushes, sent>>

ManagerNext ==
    \/ OperationStep
    \/ PushStep
    \/ \E customer \in NewOwners : CheckDownload(customer) \/ LoadFile(customer)

ManagerSpec == ManagerInit /\ [][ManagerNext]_managerVars

-------------------------------------------------------------------------------
(***************************************************************************)
(* Properties.                                                             *)
(***************************************************************************)

\* A receiver downstream is only ever sent the voucher as it was received, or signed
\* over to a customer it was saved for: never a file that is being written, or one
\* that two assignments extended.
SentIsGenuine ==
    \A guid \in Guids : \A voucher \in sent[guid] :
        \/ voucher = OriginalOf[guid]
        \/ \E customer \in saved[guid] : voucher = ExtendVoucher(OriginalOf[guid], customer)

\* Assigning takes the voucher from the worker: what the worker has read to forward
\* to the configured destination is not the voucher of a customer, unless an attempt
\* met an assignment in progress or was made on an assigned row by hand, or the row
\* is an older one of the voucher: an assignment only marks the newest.
WorkerForwardsOriginals ==
    \/ mixed
    \/ pushes[Worker].voucher = NoFile
    \/ ~ NewestByGuid(rows, PushedGuid(Worker), pushes[Worker].id)
    \/ pushes[Worker].voucher = OriginalOf[PushedGuid(Worker)]

\* Between operations and attempts, the status of a row tells whether it has a
\* customer, with the same exceptions: a row that lost its status "assigned" but
\* not its customer cannot be unassigned any more.
StatusTellsCustody ==
    Quiescent /\ ~ Pushing /\ ~ mixed
      => \A id \in RowIds : rows[id].assignedTo # NoOne <=> rows[id].status = "assigned"

\* "the database is the only record of what was sent" (PRODUCTION_CONSIDERATIONS.md:62):
\* the row of a voucher whose file was deleted says that it was delivered, with the
\* same exceptions.
DeletedIsRecorded ==
    ~ mixed => \A guid \in Guids : files[guid] = NoFile =>
                   \E id \in RowIds : rows[id].guid = guid /\ rows[id].status = "succeeded"

\* A customer who downloads gets the voucher signed over to it, although the access
\* check and the read are two steps, unless an unassignment came in between.
GotIsTheirs ==
    [][\A customer \in NewOwners :
         LET guid == downloads[customer].guid IN
         /\ guid # NoOne /\ downloads'[customer].guid = NoOne
         /\ ~ downloads[customer].raced
         /\ Parses(files[guid])
         => files[guid] = ExtendVoucher(OriginalOf[guid], customer)]_managerVars
===============================================================================
