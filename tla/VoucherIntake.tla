----------------------------- MODULE VoucherIntake -----------------------------
(***************************************************************************)
(* Receiving vouchers: POST /api/v1/vouchers (voucher_receiver_handler.go) *)
(* and the pipeline goroutine it starts, up to the row it creates          *)
(* (voucher_pipeline.go).                                                  *)
(*                                                                         *)
(* Requests run concurrently, in goroutines of one server.  A request that *)
(* fails authentication, parsing or the check of the manufacturer's key    *)
(* changes nothing and is left out.  The others check that there is no     *)
(* file of the GUID yet, write <guid>.fdoov.tmp, a path that all requests  *)
(* for one GUID share, and rename it.  Paths name inodes here: os.WriteFile *)
(* truncates the inode the path names now, or creates one, and writes to   *)
(* that inode even when another request has renamed it since.              *)
(***************************************************************************)
EXTENDS Integers, FiniteSets

CONSTANTS
    Guids,
    Uploads,        \* requests; each is one upload of one voucher
    OwnerKeys,      \* the owner keys an uploaded voucher may be signed over to
    NextOwner,      \* the key owner_signover resolves to
    SignoverMode,   \* owner_signover.mode: "none" (''), "static" or "dynamic"
    OneAtATime,     \* the vouchers whose uploads do not overlap
    Failures,       \* TRUE: statements and file operations may return errors
    Crashes,        \* TRUE: the server may die at any point
    NoInode, Partial

ASSUME IntakeAssumption ==
    /\ SignoverMode \in {"none", "static", "dynamic"}
    /\ OneAtATime \subseteq Guids
    /\ Failures \in BOOLEAN /\ Crashes \in BOOLEAN
    /\ NoInode \notin Uploads
    /\ Partial \notin OwnerKeys \cup {NextOwner}

VARIABLES
    temp,       \* the inode <guid>.fdoov.tmp names
    file,       \* the inode <guid>.fdoov names
    content,    \* what an inode holds: a voucher, known by its owner key, or Partial
    rows,       \* voucher_transmissions
    ops,        \* the local state of every request and its pipeline goroutine
    audited,    \* the uploads in voucher_receiver_audit
    accepted,   \* the uploads answered with 200
    stored,     \* history: the uploads that were renamed into the directory,
    gone,       \* those of a voucher that was deleted after its delivery,
    overlooked  \* and those let through by an error of the check, with a voucher there

history == <<stored, gone, overlooked>>
vars == <<temp, file, content, rows, ops, audited, accepted, history>>

-------------------------------------------------------------------------------
(***************************************************************************)
(* State.  An inode is named by the upload that created it.                *)
(***************************************************************************)
Inodes == Uploads \cup {NoInode}
HandlerSteps == {"stat", "open", "write", "rename", "remove", "audit", "reply"}
PipelineSteps == {"owner", "create"}

Ops == [pc: {"new", "done"} \cup HandlerSteps \cup PipelineSteps,
        guid: Guids,
        key: OwnerKeys,                        \* the owner key of the voucher
        owner: OwnerKeys \cup {NextOwner},     \* ownerKeyFingerprint
        inode: Inodes]                         \* the open temporary file

Rows == [upload: Uploads, guid: Guids, owner: OwnerKeys \cup {NextOwner},
         routed: BOOLEAN]

At(upload, step) == ops[upload].pc = step
Goto(upload, step) == ops' = [ops EXCEPT ![upload].pc = step]
Guid(upload) == ops[upload].guid

TypeOK ==
    /\ temp \in [Guids -> Inodes] /\ file \in [Guids -> Inodes]
    /\ content \in [Uploads -> OwnerKeys \cup {Partial}]
    /\ rows \subseteq Rows
    /\ ops \in [Uploads -> Ops]
    /\ audited \subseteq Uploads /\ accepted \subseteq Uploads
    /\ stored \subseteq Uploads /\ gone \subseteq Uploads /\ overlooked \subseteq Uploads

\* What each request will carry is chosen at the start.
Init ==
    /\ temp = [guid \in Guids |-> NoInode]
    /\ file = [guid \in Guids |-> NoInode]
    /\ content = [upload \in Uploads |-> Partial]
    /\ rows = {}
    /\ \E guid \in [Uploads -> Guids], key \in [Uploads -> OwnerKeys] :
          ops = [upload \in Uploads |->
                   [pc |-> "new", guid |-> guid[upload], key |-> key[upload],
                    owner |-> key[upload], inode |-> NoInode]]
    /\ audited = {}
    /\ accepted = {}
    /\ stored = {} /\ gone = {} /\ overlooked = {}

-------------------------------------------------------------------------------
(***************************************************************************)
(* ServeHTTP and saveVoucher.                                              *)
(***************************************************************************)
Receive(upload) ==
    /\ At(upload, "new")
    /\ Guid(upload) \in OneAtATime =>
          \A other \in Uploads : Guid(other) = Guid(upload) => ops[other].pc \notin HandlerSteps
    /\ Goto(upload, "stat")
    /\ UNCHANGED <<temp, file, content, rows, audited, accepted, history>>

\* Mutant of Stat: the path of the temporary file is checked.
StatTemp(upload) ==
    /\ At(upload, "stat")
    /\ Goto(upload, IF temp[Guid(upload)] = NoInode THEN "open" ELSE "done")
    /\ UNCHANGED <<temp, file, content, rows, audited, accepted, history>>

\* os.Stat: 409 if the voucher is there.  An error other than that it does not
\* exist is StepFails.
Stat(upload) ==
    /\ At(upload, "stat")
    /\ Goto(upload, IF file[Guid(upload)] = NoInode THEN "open" ELSE "done")
    /\ UNCHANGED <<temp, file, content, rows, audited, accepted, history>>

\* Mutant of OpenTemp: the voucher is written to its final path at once.
OpenFile(upload) ==
    LET inode == IF file[Guid(upload)] = NoInode THEN upload ELSE file[Guid(upload)] IN
    /\ At(upload, "open")
    /\ file' = [file EXCEPT ![Guid(upload)] = inode]
    /\ temp' = [temp EXCEPT ![Guid(upload)] = inode]
    /\ content' = [content EXCEPT ![inode] = Partial]
    /\ ops' = [ops EXCEPT ![upload].pc = "write", ![upload].inode = inode]
    /\ UNCHANGED <<rows, audited, accepted, history>>

OpenTemp(upload) ==
    LET inode == IF temp[Guid(upload)] = NoInode THEN upload ELSE temp[Guid(upload)] IN
    /\ At(upload, "open")
    /\ temp' = [temp EXCEPT ![Guid(upload)] = inode]
    /\ content' = [content EXCEPT ![inode] = Partial]
    /\ ops' = [ops EXCEPT ![upload].pc = "write", ![upload].inode = inode]
    /\ UNCHANGED <<file, rows, audited, accepted, history>>

\* Mutant of WriteTemp: the file is opened for appending.
AppendTemp(upload) ==
    LET inode == ops[upload].inode IN
    /\ At(upload, "write")
    /\ content' = [content EXCEPT ![inode] =
                     IF @ = Partial THEN ops[upload].key ELSE Partial]
    /\ Goto(upload, "rename")
    /\ UNCHANGED <<temp, file, rows, audited, accepted, history>>

\* Written over another voucher, the result may be a mixture of the two.
WriteTemp(upload) ==
    LET inode == ops[upload].inode IN
    /\ At(upload, "write")
    /\ \E result \in {ops[upload].key, Partial} :
          /\ result = Partial => content[inode] \notin {Partial, ops[upload].key}
          /\ content' = [content EXCEPT ![inode] = result]
    /\ Goto(upload, "rename")
    /\ UNCHANGED <<temp, file, rows, audited, accepted, history>>

Rename(upload) ==
    LET guid == Guid(upload) IN
    /\ At(upload, "rename")
    /\ IF temp[guid] = NoInode
         THEN Goto(upload, "remove") /\ UNCHANGED <<temp, file, stored>>
         ELSE /\ file' = [file EXCEPT ![guid] = temp[guid]]
              /\ temp' = [temp EXCEPT ![guid] = NoInode]
              /\ stored' = stored \cup {upload}
              /\ Goto(upload, "audit")
    /\ UNCHANGED <<content, rows, audited, accepted, gone, overlooked>>

\* Mutant of RemoveTemp: the voucher's path is removed instead.
RemoveFile(upload) ==
    /\ At(upload, "remove")
    /\ file' = [file EXCEPT ![Guid(upload)] = NoInode]
    /\ Goto(upload, "done")
    /\ UNCHANGED <<temp, content, rows, audited, accepted, history>>

\* After a failed rename; the path may name another request's file by now.
RemoveTemp(upload) ==
    /\ At(upload, "remove")
    /\ temp' = [temp EXCEPT ![Guid(upload)] = NoInode]
    /\ Goto(upload, "done")
    /\ UNCHANGED <<file, content, rows, audited, accepted, history>>

\* LogReceivedVoucher; its error is only logged.
Audit(upload) ==
    /\ At(upload, "audit")
    /\ audited' = audited \cup {upload}
    /\ Goto(upload, "reply")
    /\ UNCHANGED <<temp, file, content, rows, accepted, history>>

\* The pipeline goroutine is started and the request answered with 200.
Reply(upload) ==
    /\ At(upload, "reply")
    /\ accepted' = accepted \cup {upload}
    /\ Goto(upload, "owner")
    /\ UNCHANGED <<temp, file, content, rows, audited, history>>

-------------------------------------------------------------------------------
(***************************************************************************)
(* ProcessVoucher.                                                         *)
(***************************************************************************)

\* The next owner's key replaces the fingerprint of the owner in the voucher.
SignOver(upload) ==
    ops' = [ops EXCEPT ![upload].pc = "create", ![upload].owner = NextOwner]

\* A static DID or key that cannot be resolved ends the pipeline.
StaticOwner(upload) ==
    /\ SignoverMode = "static"
    /\ SignOver(upload) \/ Goto(upload, "done")

\* Mutant of DynamicOwner: a failing callback ends the pipeline, too.
DynamicOrStop(upload) ==
    /\ SignoverMode = "dynamic"
    /\ SignOver(upload) \/ Goto(upload, "done")

\* GetOwnerKey runs the callback: without a key (it fails, takes too long, or
\* answers an error or a DID that cannot be resolved) the owner stays.
DynamicOwner(upload) ==
    /\ SignoverMode = "dynamic"
    /\ SignOver(upload) \/ Goto(upload, "create")

ResolveOwner(upload) ==
    /\ At(upload, "owner")
    /\ \/ SignoverMode = "none" /\ Goto(upload, "create")
       \/ StaticOwner(upload)
       \/ DynamicOwner(upload)
    /\ UNCHANGED <<temp, file, content, rows, audited, accepted, history>>

\* Mutant of CreatePending: the record is built without OwnerKeyFingerprint.
CreateWithoutOwner(upload) ==
    /\ At(upload, "create")
    /\ \E routed \in BOOLEAN :
          rows' = rows \cup {[upload |-> upload, guid |-> Guid(upload),
                              owner |-> "", routed |-> routed]}
    /\ Goto(upload, "done")
    /\ UNCHANGED <<temp, file, content, audited, accepted, history>>

\* SignVoucher changes nothing here: the voucher it returns is discarded.  The
\* row is created with or without a destination.
CreatePending(upload) ==
    /\ At(upload, "create")
    /\ \E routed \in BOOLEAN :
          rows' = rows \cup {[upload |-> upload, guid |-> Guid(upload),
                              owner |-> ops[upload].owner, routed |-> routed]}
    /\ Goto(upload, "done")
    /\ UNCHANGED <<temp, file, content, audited, accepted, history>>

-------------------------------------------------------------------------------
(***************************************************************************)
(* Errors and crashes.                                                     *)
(***************************************************************************)
AfterError(step) ==
    CASE step = "stat" -> "open"        \* only a nil error is a duplicate
      [] step = "rename" -> "remove"
      [] step = "audit" -> "reply"
      [] OTHER -> "done"

StepFails(upload) ==
    /\ Failures
    /\ ops[upload].pc \in {"stat", "open", "write", "rename", "remove", "audit", "create"}
    /\ Goto(upload, AfterError(ops[upload].pc))
    /\ overlooked' = overlooked \cup
          {failed \in {upload} : At(failed, "stat") /\ file[Guid(failed)] # NoInode}
    /\ \/ UNCHANGED content
       \/ /\ At(upload, "write")       \* after a part of the voucher was written
          /\ content' = [content EXCEPT ![ops[upload].inode] = Partial]
    /\ UNCHANGED <<temp, file, rows, audited, accepted, stored, gone>>

\* All goroutines are gone; nothing resumes a pipeline after the restart.
ServerCrash ==
    /\ Crashes
    /\ ops' = [upload \in Uploads |->
                 IF At(upload, "new") THEN ops[upload] ELSE [ops[upload] EXCEPT !.pc = "done"]]
    /\ UNCHANGED <<temp, file, content, rows, audited, accepted, history>>

-------------------------------------------------------------------------------
(***************************************************************************)
(* The delivery of a voucher that has a row and a destination ends in the  *)
(* removal of its file when delete_after_success is set.  When and how     *)
(* often a row is delivered is the subject of VoucherDelivery: here it may *)
(* happen at any time.  The GUID is free for another upload then.          *)
(***************************************************************************)
DeleteDelivered ==
    /\ \E row \in rows :
          /\ row.routed /\ file[row.guid] # NoInode
          /\ file' = [file EXCEPT ![row.guid] = NoInode]
          /\ gone' = gone \cup {upload \in stored : Guid(upload) = row.guid}
    /\ UNCHANGED <<temp, content, rows, ops, audited, accepted, stored, overlooked>>

-------------------------------------------------------------------------------
HandlerStep(upload) ==
    \/ Stat(upload) \/ OpenTemp(upload) \/ WriteTemp(upload) \/ Rename(upload)
    \/ RemoveTemp(upload) \/ Audit(upload) \/ Reply(upload)

PipelineStep(upload) == ResolveOwner(upload) \/ CreatePending(upload)

Next ==
    \/ \E upload \in Uploads :
          Receive(upload) \/ HandlerStep(upload) \/ PipelineStep(upload) \/ StepFails(upload)
    \/ DeleteDelivered
    \/ ServerCrash

\* Goroutines run to their end; nobody has to upload anything.
Fairness == \A upload \in Uploads : WF_vars(HandlerStep(upload) \/ PipelineStep(upload))

Spec == Init /\ [][Next]_vars /\ Fairness

-------------------------------------------------------------------------------
(***************************************************************************)
(* Properties.                                                             *)
(***************************************************************************)

\* A row is only ever created for a voucher that is in the directory, and stays
\* with it until it is deleted after its delivery: the rename comes before the
\* pipeline, and racing requests, errors and crashes never take the file away.
RowHasFile ==
    \A row \in rows : row.upload \in gone \/ file[row.guid] # NoInode

\* What a crashed or failed upload has left in the temporary file never gets into
\* the directory: a voucher whose uploads do not overlap is whole there, also when
\* one of them was let through by an error of its check.
Whole(guid) == file[guid] # NoInode => content[file[guid]] # Partial

StoredWhole == \A guid \in OneAtATime : Whole(guid)

\* The uploads whose voucher was put into the directory and not deleted since, and
\* whether that of a row is the one that is there: no other upload of the GUID was
\* let through by an error and has replaced it.
Holders(guid) == {upload \in stored \ gone : Guid(upload) = guid}

Current(row) ==
    /\ row.upload \in Holders(row.guid)
    /\ Holders(row.guid) \cap overlooked \subseteq {row.upload}

\* The owner a row may record for a voucher: the one in the voucher, or the one it
\* is to be signed over to.
Recordable(owner, key) ==
    owner = key \/ (SignoverMode # "none" /\ owner = NextOwner)

\* Its row names the owner of the voucher in the directory (or the next owner when
\* owner_signover is set), not one that an upload carried which failed, was
\* rejected, or was delivered and deleted before.
RowNamesOwner ==
    \A row \in rows :
       row.guid \in OneAtATime /\ Current(row) => Recordable(row.owner, content[file[row.guid]])

\* It is accepted once (TODO.md:267 "POST returns 409 Conflict for duplicate
\* voucher submissions"), even if it is uploaded again after an error or while
\* its pipeline runs: an upload is only accepted beside another one after the
\* delivery and deletion of that one, or when os.Stat could not tell.
AcceptedOnce ==
    \A upload, other \in accepted \ (gone \cup overlooked) :
       Guid(upload) = Guid(other) /\ Guid(upload) \in OneAtATime => upload = other

\* voucher_receiver_handler.go:320: the owner on record scopes the Pull API to
\* "vouchers signed over to their key".  The code does not keep this when
\* owner_signover is set: see the run owner_not_signed.
RowNamesStoredOwner ==
    \A row \in rows :
       row.guid \in OneAtATime /\ Current(row) => row.owner = content[file[row.guid]]

\* README.md:83 "Store vouchers to database and filesystem": when nothing is in
\* progress, an accepted voucher has a row.  The code does not keep this: see the
\* run unrecorded_voucher.
StoredInDatabase ==
    (\A upload \in Uploads : ops[upload].pc \in {"new", "done"}) =>
       \A upload \in accepted : \E row \in rows : row.guid = Guid(upload)
===============================================================================
