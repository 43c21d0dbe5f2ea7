# A TLA+ development of the FDO voucher manager

The voucher manager (`src/`, Go, one binary) receives FDO ownership vouchers
over HTTP, stores them, forwards them to the next owner, lets owners pull them,
and assigns them to customers.  The HTTP server and every CLI command are
**separate processes** on one SQLite database and one voucher directory.  Every
SQL statement is atomic and every file operation is a system call of its own,
but nothing in the code spans two of them: no SQL transaction covers two
statements, no lock is held across a read and the write that depends on it, and
no statement that writes a row checks the state the row is in.  What the system
promises therefore depends on interleavings, on errors between steps and on
crashes.  That is what is modelled here.

## 1. The system's parts

| Part | Source | State | Operations | Correct when |
|---|---|---|---|---|
| Transmission store | `voucher_transmission_store.go` | tables `voucher_transmissions`, `voucher_access_grants` | one SQL statement each: `CreatePending`, `MarkAttempt`, `PendingForRetry`, `Fetch*`, `MarkAssigned`, `MarkUnassigned`, grants | the status of a row tells what happened to the voucher |
| File store | `voucher_file_store.go` | `<guid>.fdoov`, `<guid>.fdoov.preassign` | `SaveVoucher`, `BackupVoucher`, `RestoreVoucher`, all with `os.WriteFile` (truncate, then write) | the original voucher is never lost |
| Receiver | `voucher_receiver_handler.go` | the voucher file and `<guid>.fdoov.tmp` | `POST /api/v1/vouchers`: authenticate, check for a duplicate, save, start the pipeline | an accepted voucher is stored whole, once, and gets a row |
| Pipeline | `voucher_pipeline.go` | none of its own | next owner's key, sign over, destination, `CreatePending`, first push | the row describes the stored voucher |
| Push service, client | `voucher_push_service.go`, `voucher_push_client.go` | a token cache | `AttemptRecord`: push, classify the error, `MarkAttempt`, delete the file | `succeeded` only when delivered; nothing is lost |
| Retry worker | `voucher_retry_worker.go` | the batch it has read | `processBatch` every interval | a pending voucher is delivered or given up in the end |
| Assignment | `voucher_assign_handler.go`, `voucher_assign_cli.go` | none of its own | `POST /assign`, `vouchers assign`, `vouchers unassign` | one customer per voucher; unassign is a full revert |
| Destination resolver | `voucher_destination.go` | none | callback, partner, DID, static URL, in this order | |
| Pull service, client | `voucher_pull_store.go`, `pull_service_setup.go`, `pull_command.go` | session tokens in the memory of the server (`pullTokenStore`); the client's list | authenticate, list (paged), download | each owner gets all of and only its vouchers |
| Status and list API | `voucher_status_handler.go`, `voucher_list_handler.go` | none | reads only | same access as the pull service |
| Partners | `partner_store.go`, `partner_refresh_worker.go`, `partner_command.go` | table `partners` | add, update, delete, refresh of DID documents | trust and push URL follow the partner's DID document |
| Tokens, identities | `voucher_receiver_tokens.go`, `token_identity.go` | receiver tokens, the audit log | issue, validate, delete | a token is valid until it expires or is deleted |
| Owner key | `did_minting_setup.go`, `key_utils.go` | the key file | load, generate, export at every start of the server | the key stays the one vouchers were made out to |
| External services | `owner_key_service.go`, `ove_extra_data_service.go`, `voucher_signing_service.go`, `did_resolver.go`, `external_executor.go` | none | commands and HTTP calls that answer, fail or time out | |

How they interact: the receiver writes the file and starts a goroutine of the
pipeline, which creates the row and makes the first push; the retry worker and
`vouchers retry` push the same rows from snapshots they have read; the assignment
handlers and commands rewrite the same files and rows; push with
`delete_after_success` removes the files; the pull service reads files, rows and grants
while all this goes on, and exists only if the start of the server came to an owner
key, which the commands that sign read from the key file by themselves.  All of them meet
only in the database and the directory.

### What is hard here

- **Check, then act.**  `assignVoucher` checks the status of a row it fetched and
  updates it six steps later; `ServeHTTP` checks a path and renames to it four
  steps later; `AttemptRecord` writes back a status and a count computed from a
  copy that may be minutes old.  No test in the repository runs two of these at
  once.
- **Files rewritten in place.**  `os.WriteFile` truncates first: a reader sees an
  empty voucher, a crash leaves one.  Only the receiver uses a temporary file, and
  all uploads of one GUID share its path.
- **Errors that end an operation and errors that are only logged.**  Which is which
  decides whether a record can run ahead of the file it describes.
- **Crashes.**  Nothing is journalled and nothing looks for half-done operations at
  the start.
- **A lossy network.**  A voucher the receiver stored is sent again if the answer
  got lost, and then refused with 409.
- **Progress.**  The retry worker works through limited batches in a fixed order, and
  a pull through pages the server does not tell apart.
- **Lists taken over time.**  A pull is many requests, and the next one starts from a
  time stamp; rows, grants and files change in between, behind that time too.

The file PROJECT.json lists each hazard with its line and with the properties
that would fail.

## 2. The modules

| Module | Models | Status |
|---|---|---|
| `VoucherStore` | the values the processes share: rows, grants, voucher files, and what one SQL statement or voucher-library call does to them (no variables) | done |
| `VoucherAssignment` | `POST /assign`, `vouchers assign`, `vouchers unassign` on that store | done |
| `CustodyLedger` | abstract: one customer per voucher, signed over before it is recorded | done |
| `VoucherAssignmentProofs` | theorems about `VoucherAssignment` | done |
| `CustodyLedgerProofs` | the proof that `VoucherAssignment` implements `CustodyLedger` | done |
| `VoucherIntake` | the receiver and the pipeline up to the new row | done |
| `VoucherIntakeProofs` | theorems about `VoucherIntake` | done |
| `VoucherDelivery` | first push, retry worker, `vouchers retry` | done |
| `VoucherDeliveryProofs` | theorems about `VoucherDelivery` | done |
| `PartnerTrust` | the partners table between commands, the start of the server and the refresh worker; the partner lookup of the destination resolver | done |
| `PartnerTrustProofs` | theorems about `PartnerTrust` | done |
| `OwnerKey` | the owner key of the server and its file over starts, stops and interrupted exports | done |
| `OwnerKeyProofs` | theorems about `OwnerKey` | done |
| `PullService` | lists and downloads of customers while vouchers arrive, are granted, revoked and deleted, tokens expire and the server restarts; extends `OwnerKey` | done |
| `PullServiceProofs` | theorems about `PullService` | done |
| `VoucherManager` | `VoucherAssignment` composed with delivery attempts and downloads of the same vouchers | done |
| `VoucherManagerProofs` | theorems about `VoucherManager` | done |
| `UndisturbedAssignment`, `UndisturbedIntake` | `VoucherAssignment` and `VoucherIntake` with a history variable: has anything failed so far? | done |
| `MCAssignment`, `MCRecovery`, `MCIntake`, `MCDelivery`, `MCPartners`, `MCPull`, `MCManager` | small instances for TLC | done |

### Plan

What is left, in this order:

1. `AuthTokens`: receiver tokens, their expiry and deletion, the trust of partners that
   was checked when a token was issued, and the token cache of the push client.
2. `Backoff`: the 64-bit arithmetic of `backoffDuration`, as a pure function against a
   reference.

Every invariant and every safety property of steps that a passing run checks is proved; what
is left for proof are refinements not stated yet, such as an abstract register of
deliveries that `VoucherDelivery` implements.

## 3. How the models correspond to the code

Common to all: a *client* is one goroutine or one process; its local state is a
record in `ops` with a program counter `pc`, the name of the next statement or
system call it will perform.  One action is one such step, together with the
computation that follows it up to the next step.  A step that returns an error is
`StepFails`; where the client goes then is what the code does with that error.
`ServerCrash` ends all goroutines of the server at once, `KillCommand` one command.
Tables and files are only changed by steps and survive crashes.  SQLite runs one
statement at a time, so a statement is atomic; a statement that fails because the
database is busy is one of the errors of `StepFails`.

Messages are left out unless they decide something: signatures, CBOR and PEM,
device information, HTTP answers other than "accepted", logging.  A voucher is
the sequence of keys it was signed over to, or (in `VoucherIntake`) the key of its
owner; keys, serial numbers and GUIDs are model values.

### VoucherStore and VoucherAssignment

| State | Code |
|---|---|
| `rows` | `voucher_transmissions`: the columns assignment reads or writes |
| `grants` | `voucher_access_grants`: a set per GUID (`INSERT OR IGNORE`, `UNIQUE`) |
| `files`, `backups` | `<guid>.fdoov`, `<guid>.fdoov.preassign`; `Torn` is the truncated file |
| `ops` | the local variables of `assignVoucher`, `assignVoucherCLI`, `vouchersUnassignCmd` |
| `saved` | history: the customers each voucher was ever completely saved for |

| Action | Code |
|---|---|
| `StartRequest`, `StartBySerial`, `StartByGuid` | the arguments of a request or a command; the new owner's key was resolved |
| `Lookup`, `Fetch` | `FetchLatestByGUID`, `FetchBySerial`, and the checks made on the row they return |
| `CheckAccess` | `HasAccessByGUID`, the owner's own access, the status check |
| `ParseAndExtend` | `ParseVoucherFile`, `fdo.ExtendVoucher` (fails unless this service's key is at the tip) |
| `BackupRead/Open/Write`, `SaveOpen/Write` | `BackupVoucher`, `SaveVoucher`, with the two halves of `os.WriteFile` |
| `Mark`, `GrantCustodian`, `GrantOwnerKey` | `MarkAssigned`, `InsertAccessGrant` twice |
| `Unmark`, `RestoreRead/Open/Write`, `RemoveBackup`, `RevokeGrants` | `vouchers unassign` |

A request for several serial numbers runs the same steps for each in turn and
carries nothing over, so it is a sequence of operations.  `Exclusive` restricts the
model to operators that run one operation at a time; the properties that need this
say so.  Initial rows are those the receiver and the retry worker produce.

### VoucherIntake

| State | Code |
|---|---|
| `temp`, `file` | the inodes `<guid>.fdoov.tmp` and `<guid>.fdoov` name |
| `content` | what an inode holds: the owner key of a whole voucher, or `Partial` |
| `rows` | the rows `CreatePending` has written |
| `audited`, `accepted` | `voucher_receiver_audit`; the uploads answered with 200 |
| `stored`, `gone`, `overlooked` | history: the uploads renamed into the directory, those whose voucher was deleted after its delivery, and those that a failing `os.Stat` let through although a voucher was there |

`Receive` is a request that has passed authentication, parsing and the trust
checks; `Stat`, `OpenTemp`, `WriteTemp`, `Rename`, `RemoveTemp` are the system calls
of `ServeHTTP` and `saveVoucher`; `Audit` is `LogReceivedVoucher`; `Reply` starts the
pipeline; `ResolveOwner` (with `StaticOwner` and `DynamicOwner`) and `CreatePending` are the pipeline.  `StepFails` includes `os.Stat`: the handler takes every
error but nil for "not there" and goes on to save.  `DeleteDelivered` is what
`delete_after_success` does to the file of a row with a destination, at any time.  Paths and inodes are
kept apart because two uploads of one GUID open the same path, and the one that is
renamed first is still written by the other.  `OneAtATime` is the set of vouchers
whose uploads do not overlap; uploads of different vouchers always may.

### VoucherDelivery

| State | Code |
|---|---|
| `rows` | `voucher_transmissions`: status, attempts, whether there is a destination and a retry time |
| `stored` | the voucher files |
| `delivered` | external: what the receiver downstream has stored |
| `ops` | the copy of the row, its count, the outcome; the worker's batch |
| `faults` | the number of crashes and failed local steps, bounded by `MaxFaults` |

`CreatePending` is the end of the pipeline; `Poll` and `NextRecord` are
`processBatch`; `RetryCommand` is `vouchers retry`; `ReadFile`, `Send`, `Mark`,
`DeleteFile` are `AttemptRecord` with `Push`.  The receiver is modelled from what
`Push` makes of its answers: 2xx `ok`, 429, 5xx and a lost message `transient`,
other 4xx `permanent`, and 409 for a voucher it already has.  `Elapse` is the passing
of `retry_after`.

### PartnerTrust

| State | Code |
|---|---|
| `published` | external: the version of the document of each DID |
| `partners` | table `partners`; `stale` compares `did_document_fetched_at` with `max_age` |
| `worker` | the list `refreshAll` has read, and what `refreshPartner` found out so far |
| `ops` | a `partners add` command between resolving the DID and the INSERT |
| `used` | history: the ids that were given to partners |

A key or an endpoint is named by where it comes from: a version of a DID's document, or
the administrator.  `StartAdd` and `Insert` are `partners add`, `Remove` is `partners
remove`, `Bootstrap` is the start of the server; `List`, `NextPartner`, `Resolve`,
`FetchRaw`, `UpdateDIDDocument` are one cycle of the worker, `Age` the passing of
`max_age`.  The worker only runs with `did_cache` enabled, which the model assumes.
A `did:key` never changes and is not refreshed: such a partner counts as one enrolled by
its key.  The capabilities `can_supply` and `can_receive` are written once and decide
nothing here.

### OwnerKey and PullService

| State | Code |
|---|---|
| `config` | `key_management.import_key_file`, `key_management.first_time_init`, `did_minting.key_export_path` |
| `keyFile` | the file at `key_export_path`; `TornKeyFile` is the truncated one |
| `server` | how far the start has come, and `ownerKey` in `runServer` |
| `minted`, `published` | the key pairs that exist; history: those served in a DID document |
| `rows`, `grants`, `stored` | what the pull service reads: `voucher_transmissions` in the order of `created_at`, `voucher_access_grants`, the directory |
| `torn` | the files an assignment or unassignment has truncated and not written yet |
| `sessions` | the tokens in `pullTokenStore` that have not expired |
| `pulls` | the local variables of `runPullCommand`, one command at a time for each customer, and what the customer has from earlier ones |

`LoadImported`, `LoadPersisted`, `LoadUnreadable` and `Generate` are the modes of
`loadOrGenerateOwnerKey`; `ExportOpen`, `ExportWrite`, `ExportFails` are `exportPrivateKey`
and what the start makes of its result; `Stop` is a shutdown or a death anywhere.
`Authenticate` is the FDOKeyAuth handshake; `ListPage` is one request of the list loop with
`PullVoucherStore.List`; `FetchLatest`, `CheckGrants` and `LoadFile` are the two statements
of `GetVoucher` and the read of the file, which fails if it is missing or does not parse.
`RequestFails` is an error of any of them, of the request or of the local write: `Miss`
is what the command makes of a failed download, it goes on with the next voucher.
`ListFails` and `Finish` are the ends it can come to.  A pull with `-list` stops before the
downloads and is left out.
`Arrive`, `Insert`, `InsertFails`, `Grant`, `Revoke`, `Rewrite`, `Rewritten`, `RemoveFile`,
`Expire`, `StopServing` are the other modules' actions as far as the pull service sees them.
The history `disturbed` of a pull collects the vouchers whose download they or a failing
request have interfered with.  A row is `stamped` when
`CreatePending` has taken its `created_at` and `visible` when the INSERT is done; a time is
the position in that order.  `Others` are owners who never pull.

### VoucherManager

Adds to the state of `VoucherAssignment`: `pushes` (the local state of each delivery attempt
of the retry worker and of `vouchers retry`), `downloads` (a customer between the two
halves of `GetVoucher`), `sent` (what receivers downstream were sent) and the history
`mixed`: an attempt overlapped an operation or another attempt, or was made by hand on a row
that is assigned or delivered.  `PickPending` and `Retry` choose the row; `ReadFile`, `Send`,
`MarkAttempt`, `RemoveFile` are `AttemptRecord`.  The count of attempts, which
`VoucherDelivery` is about, is left out: a failed attempt leaves the row pending or failed.
Crashes and errors are left to the modules of the parts.

## 4. The runs

| Run | Question | Distinct states |
|---|---|---|
| `assign_races` | Can racing assignments, errors and crashes let a record or a grant run ahead of the file, or a stranger become custodian? | 850 000 |
| `assign_recovery` | One operation at a time, crashing and failing anywhere: does the original survive, and is this the custody ledger? As long as nothing fails, do row, file, backup and grants agree after every sequence of operations? | 244 000 |
| `intake_races` | Overlapping, failing and dying uploads, with delivered vouchers deleted in between: does every row keep its file until then, and is what is in the directory whole, accepted once, and described by its row, but for uploads let through by a failing `os.Stat`? As long as nothing fails, do overlapping retransmissions converge, and does every accepted upload get its row? | 1.0 million |
| `delivery_races` | Racing pushes of one voucher, with crashes: is `succeeded` always true, is a file ever deleted too early, is a pending row under its limit, and is every voucher with a destination delivered or given up in the end? | 205 000 |
| `partner_refresh` | Additions, removals, refreshes and new documents in any order: does what is trusted and routed by come from one document of the partner's own DID, never an older one, and is it current in the end? | 294 000 |
| `pull_service` | Is one identity served and used whatever the starts do? Is a list without `has_more` complete, do incremental pulls add up, do all views of the access agree, does a pull end if it fits on a page, and does what happens to one voucher (its file is rewritten, its request fails, its access goes) ever cost another its download? | 1.2 million |
| `manager` | Assignment, delivery and download of one voucher: is only a genuine voucher sent, does the worker keep off what is assigned, do rows tell the truth, does each customer get its own? | 4.3 million |

Each of these passes.  Five runs show where the code does less than the
documentation says, each with a counterexample of a few steps:

| Run | What happens | The documentation |
|---|---|---|
| `assign_twice` | two overlapping assignments pass the status check; the second overwrites the customer of the first, whose signed voucher is what the file keeps or loses | README.md:213 |
| `no_destination_starves` | rows without destination keep `retry_after` NULL and come first in each batch; as many as the batch has places hide every other retry | README.md:258 |
| `unrecorded_voucher` | a static sign-over target that cannot be resolved ends the pipeline before the row is created; the sender has its 200 and gets 409 from then on | README.md:83 |
| `owner_not_signed` | the row names the next owner, but the voucher `SignVoucher` returns is discarded and the file keeps the one received | voucher_receiver_handler.go:320 |
| `pull_never_ends` | `List` never reads the continuation token: with more vouchers than the page limit every request returns the first page and says there is more, and the loop of the pull command goes on for ever | tests/TUTORIAL-E2E-DID-PUSH-PULL.md:504 |

### Bounds, and why they are enough

- *Clients.*  Every hazard above is a race of two operations on one voucher: the
  runs have one request and one command, three uploads, or two pipelines with the
  worker and a command.  A slot is reused, so any number of operations happen one
  after the other.  The invariants of the racing runs are proved for any number of
  clients (section 5).  `assign_races` has no unassign command; the proofs have.
- *Vouchers and rows.*  Operations touch one GUID and the rows that carry it:
  `assign_recovery` has a voucher received twice, one made out to another key, and a
  GUID without a row.  Its rows start as `pending` (`assign_races` also starts from the
  other states): assignment tells only `assigned` from the rest.
- *Keys.*  Two customers tell a swap from a repetition; a reseller, a manufacturer
  and the service itself are the owners a row can have.
- *Uploads.*  Three uploads of one voucher, one of which may carry another owner: one that
  is stored, one that fails or is let through, one that comes after.  Of uploads that do not
  overlap any number of steps may fail and any number of crashes come; uploads that overlap meet one error or
  crash, which keeps the run within a million states.  The proofs have no such bound.
- *`MaxAttempts` 2 or 3* (default 5) *and `BatchSize` 1 or 2* (5 to 50): enough for a
  first, a further and a last attempt, and for batches that are empty, full and too
  small.  The proofs have no such bound.
- *`MaxFaults` 1 or 2* in `VoucherDelivery` only: the number of attempts of a row whose
  count is never written back is otherwise unbounded.  The proofs take any value.
- *Partners.*  Two ids, one of which is in the config file and may be used again, two
  DIDs with two versions each, and two commands, so that a removal and an addition can
  overlap one refresh.
- *Pulls.*  The state of the key and that of the vouchers only meet in "there is a pull
  service": `MCPull` runs all settings and starts of the server without vouchers, and the
  vouchers with an imported key, whose server stops and starts as well.  Two vouchers, two
  rows and a page of one give an exactly full page, one row too many, and a row older than
  a filter.  One file is being rewritten at a time, and the voucher that arrives first is
  always `g1`, which loses nothing since the two are interchangeable.  The vouchers rest
  while the server is down, when nobody reads them, and a pull with `-until` starts from
  the beginning.  `pull_never_ends`
  runs without failures, so that the loop is the only thing that keeps a pull from ending.
  Three key pairs are one imported and two generated; when they are used up
  the server cannot start any more, which is why `pull_service` does not check deadlock.
- *`manager`.*  One voucher that was uploaded twice and so has two rows, both new, with a
  destination (attempts bring about the other states); one operator, a request and an
  unassign command by serial number in any order and number, the worker and one `vouchers retry`, two
  interchangeable customers who download.
- Calls of `vouchers retry` in `VoucherDelivery` are one per slot, since repeated use would make the
  number of attempts unbounded.

### Fairness

`VoucherIntake`, `VoucherDelivery`, `PartnerTrust` and `PullService` state fairness, and only
liveness properties use it.  Goroutines run to their end: every call they make returns
(a statement that finds the database busy fails, the HTTP client has a timeout).  The worker's
ticker fires again and again and its batch is finite, so `Poll` and `NextRecord` are
weakly fair; so are the steps of the refresh worker; time passes, so `Elapse` and `Age` are.  A pull command that was started goes on by itself,
whatever the server answers: its list request gets a page or, without a server or a session,
an error that ends it.  That the server is up or a token lives is not
assumed.  Nothing obliges anybody to send a request
or to run a command, and errors and crashes are never fair.  `VoucherAssignment` and `VoucherManager` have
no fairness: after an interrupted operation somebody has to act, and the question
is what he finds.

Deadlock is not checked in the intake, delivery, partner and pull runs: when all uploads are
processed, all rows are final or there is no partner left to refresh the system rests.

## 5. The proofs

All theorems hold for every value of the constants that satisfies the assumption
of the module (`StoreAssumption`, `AssignmentAssumption`, `IntakeAssumption`,
`DeliveryAssumption`, `PartnerAssumption`, `OwnerKeyAssumption`, `PullAssumption`): that the keys, files and slots that play different roles are
different values, that the columns and settings have their types, and that
`max_attempts`, the batch size and the page limit are not 0.

What may fail differs between them.  `VoucherAssignment`, `VoucherIntake` and `VoucherDelivery`
allow errors at each step that returns one and crashes anywhere; `PartnerTrust` failing
resolutions, fetches and updates and restarts; `OwnerKey` failing exports and deaths at any point;
`PullService` failing statements, reads, requests and inserts, expiring tokens and stops of
the server.  `VoucherManager` has neither errors nor crashes, except that files may not parse
and sends may fail: what its theorems say of interrupted operations follows from nothing here,
but for `SentAlwaysGenuine`, whose invariant is kept by the crashes and errors of
`VoucherAssignment` too.  `SettledUnlessDisturbed` and `RetransmissionsConverge` are about
behaviours in which nothing has failed so far, in a specification where things do fail.

**`VoucherAssignmentProofs`.**  `TypeCorrect`, `CustodyIsBacked` (`CustodyFollowsSave`)
and `CustodiansAreEntitled` (`CustodiansEntitled`).  The two
properties are not inductive: that a record names only
customers whose voucher was saved depends on what the client that writes the record
has done before.  `OpsOK` says which steps each kind of client takes and that the copy
of the row it works with names the GUID of the row; `CustodyInv` and
`EntitledInv` add what a client at a step must already have achieved.  Since `saved`
only grows and no step of another client changes the rest, these facts survive every
interleaving: the ordering inside one operation is enough, and no lock is needed.

**`CustodyLedgerProofs`.**  `OriginalSurvives` (`OriginalRecoverable`), `AssignedStaysBacked`
(`AssignedIsBacked`) and `AssignmentImplementsLedger` (`ImplementsLedger`), under the
assumption `OneAtATime`: one operation at a time, and none assigns to this service's own key.
Any number of vouchers, rows and operations, each of which may fail or die at any step.
`LedgerInv` says that the file of a voucher is the original, or torn or signed over
while the backup is the original (`FileOK`), that a voucher has at most one assigned
row, which agrees with both (`RowOK`), and what the one operation in progress knows at
each step (`OpOK`).  The step that matters is `ParseAndExtend`: only a file that is the original
can be extended, so `BackupRead`, with nobody else at work, backs up the original.
An interrupted operation leaves a state that says nothing of `ops`, which is why
`FileOK` must hold without it.  For the refinement, `Entries` reads the ledger off rows and files;
`SaveWrite`, `Mark`, `Unmark` and `RestoreOpen` are the steps `SignOver`, `Record`,
`Release` and `TakeBack`, and all others leave it unchanged.

`UndisturbedSettles` (`SettledUnlessDisturbed`), under the same assumption, adds the grants and
the end of the operations.  `LedgerInv` cannot give it, since an interrupted operation keeps `LedgerInv` and
settles nothing.  `CalmInv` holds as long as nothing was disturbed: a voucher is `Balanced`
(unassigned with original, no backup and no grants, or assigned with one owner_key grant)
unless the one operation in progress is `Midway` through changing it, and that operation
knows what it still has to do (`OpMidway`).  Its last step balances the voucher.

**`VoucherIntakeProofs`.**  `TypeCorrect`, `RowsHaveFiles` (`RowHasFile`), `NothingTorn`
(`StoredWhole`), `NoDuplicateAccepted` (`AcceptedOnce`), `RowsNameOwners` (`RowNamesOwner`), and
`RowsNameStoredOwners` where no sign-over is configured.  The
invariant rests on two facts.  An inode is only ever named by the paths of one GUID
(`OwnInodes`) and never by both of them (`SeparateInodes`), so uploads of different
vouchers never touch each other's files, and writing a temporary file never touches the
stored one.  And of a voucher in `OneAtATime` at most one upload is between `Stat` and `Reply`
(`Alone`); unless it was let through by an error of `os.Stat`, it writes only while there is
no file (`NotYetStored`); and it truncates
what a failed or dead predecessor has left before it writes (`OwnTemp`).  So, of
the uploads that were stored, not deleted and not let through, there is at most
one (`OneStored`), and what the file holds is what the last one stored has written
(`KeyOfStored`).  An upload that was let through may replace the file: the row of the one
before then names an owner the file does not have, which is why `RowNamesOwner` is about
the `Current` row.  `RowsHaveFiles` needs none of this and covers overlapping uploads and
failing checks too: a path that was renamed to is only emptied by `DeleteDelivered`
(`StoredPlaced`).
`RetransmissionsLeaveWhole` (`RetransmissionsConverge`) is about uploads that do overlap and
share inodes: `ConvergeInv` says that, as long as nothing failed, an inode holds a part
or the whole of the one voucher all of them carry (`OneContent`), and that somebody is
still writing to each part that a path names (`PartsBecomeWhole`).  An error or a crash would
leave such a part without a writer.

**`VoucherDeliveryProofs`.**  `TypeCorrect`, `SuccessIsBacked`, `NoVoucherLost`,
`PendingIsUnderTheLimit`.  The strengthening is `KnowsDelivered`: a client that is about
to write a success or to delete the file has seen the receiver accept that voucher.
What the receiver has stays there, so neither stale counts nor overwritten rows
matter.  `PendingIsUnderTheLimit` holds because each write of `pending` carries a count
below `MaxAttempts`, although it may be lower than the one it overwrites.

**`PartnerTrustProofs`.**  `TypeCorrect`, `RoutedFromOneDocument` (`RoutedTogether`),
`RemovedStaysRemoved` (`RemovedUntilAdded`), `KeysAreOwn` (`KeyOfOwnDid`) and
`KeysNeverReturn` (`NoKeyReturns`).  `TableStep` says the four ways a row can come out of a
step: kept, refreshed, added or enrolled.  The worker writes by id, so the argument is about
what an id stands for: for an id that is not used again nobody is about to insert a
row while there is one or while the worker has the id in hand, and the DID in the worker's
hand is that of the row (`DidInv`).  Then the key it writes belongs to the row, and is as
new as any the row can have got since, because only the worker replaces a key (`KeyInv`).

**`OwnerKeyProofs`.**  `TypeCorrect`, `IdentityIsKept` (`OneIdentity`) and
`CommandsSignAsServer` (`CliSignsAsServer`).  The invariant says what the file can hold at
each point of a start: with an imported key nothing else is ever published; with a
persisted one everything published is in the file (`PersistedOnly`), because the key is
served only after the export, and a file that is torn is never repaired; and the file of a
server that serves a generated key holds that key (`FileIsServers`), unless the export
failed.

**`PullServiceProofs`.**  `PullTypeCorrect`; `PullServiceHasOwnerKey`: each step of the pull
service is a step of `OwnerKeySpec` or leaves the key alone, so what is proved of the key
holds here.  `LastPageIsAlwaysComplete` and `ViewsAlwaysAgree` need nothing but types: they
are facts about the queries for any set of rows.  The first rests on
`CutOffBehindAFullPage`: a row the limit cuts off has a full page of newer rows before it,
so if one of those is older than `since`, so is the row.
`NothingIsMissedUndisturbed` (`NothingMissedUndisturbed`) follows from `UndisturbedIsReady`,
which is kept for each voucher by itself: one that a running command has listed and that nothing has
disturbed is still accessible, its file stored and not torn, and the token valid
(`Ready`), and if its download has begun the access check cannot fail any more.  The work
is in showing that the steps that take one of these away disturb exactly the vouchers they take it
from (`AccessKept`, `TakenAway`), and that no step of one download touches another.
`IncrementalPullsAlwaysAddUp` (`IncrementalPullsAddUp`) relates steps that are far apart, so
its invariant `AllRemembered` says at every moment what the customer has covered: of
the vouchers it has access to, those from before `mark` are in `have` or `late`, and once a
list is complete the same holds up to `began`.  `Insert` and `Grant` are the steps that make
this hard; what they bring in behind `began` is `late`.

**`VoucherManagerProofs`.**  Here operations and attempts may overlap, so `LedgerInv` does not
hold, and files may be deleted.

- `ManagerTypeCorrect`, and `SentAlwaysGenuine` (`SentIsGenuine`) for customers' keys other than
  this service's own.  What is left of `LedgerInv` is `GenuineInv`: every file, backup and buffer
  is missing, torn, the original, or the original signed over once to a customer it was saved
  for.  The step that could break it is again the extension (`GenuineExtendable`): whatever a
  racing operation has written, what `ExtendVoucher` accepts is the original.  `GenuineStep`
  proves it for all steps of `VoucherAssignment`, crashes and errors included; an attempt then
  sends only what it read from such a file and what parses.
- `DeletedStaysRecorded` (`DeletedIsRecorded`) and `StatusKeepsTelling` (`StatusTellsCustody`),
  without further hypotheses.  Operations may overlap each other; `mixed` excepts what an attempt overlaps.  `ApartInv` says
  what that leaves: while an attempt is in progress nothing else is, and its row is neither
  assigned nor delivered (`AttemptsApart`), a row names a customer exactly while it is assigned
  (`RecordsTell`), and no operation is at work on the file of a voucher that is gone
  (`OpHolds`), so that no `Mark` or `Unmark` overwrites the row that records the delivery.
- `WorkerSendsOriginals` (`WorkerForwardsOriginals`), for one operation at a time (`OneAtATime`)
  and vouchers all of whose rows have the same serial number (`SerialFollowsGuid`).
  `KeepInv` is `LedgerInv` with files that may be gone: an assigned row is the newest of its
  voucher and has the original in the backup (`RowKeeps`), and a file that is neither
  missing nor the original has an assigned row, unless the operation in progress is turning
  it (`FileKeeps`).  An attempt that is not mixed reads while nothing is turning, for a
  row that is not assigned; if that row is the newest, none is, and the file is the
  original (`ReadsOriginals`).  Both hypotheses are needed, as counterexamples of TLC
  show: of two overlapping assignments the second can make the voucher the first has signed
  the backup, which an unassignment then restores as the original; and the serial number is a form value of the
  upload (voucher_receiver_handler.go:122), so that two uploads of one GUID may carry
  different ones.  An assignment by the older serial number then marks the older row,
  and the worker forwards the customer's voucher for the newer.
- `DownloadsAreTheirs` (`GotIsTheirs`), for one operation at a time and customers that are
  neither callers of the assign API nor owners on record (`OnlyCustomers`): those have access to a
  voucher for other reasons than its being signed over to them.  `ClaimInv` says
  that whoever holds an owner_key grant finds its own voucher, a torn one or none, unless an
  unassignment is about to delete the grant; an assignment knows until its last step that
  nobody holds one (`OpClaims`).  It does not depend on `mixed`: attempts only ever
  delete a file or change a status.

**Only model-checked:** liveness (`RoutedSettles`, `AcceptedGetsRow`, `EventuallyUpToDate`,
`PullEndsIfItFits`), which needs fairness and is out of the prover's reach.  All other properties
of the passing runs are proved.  The counterexamples of the five other runs are TLC's.

## 6. Further observations

Met while modelling, visible in the models, without a run of their own:

- `vouchers assign -guid` uses the GUID only to find a serial number and then works on
  the newest row of that serial number, which may be another voucher.
- `vouchers unassign` changes the row first.  If restoring the file or deleting the
  grants fails after that, a second `unassign` is refused, and the grants stay: the former
  customer can still download.  The failure is in `VoucherAssignment`, but the ledger does not
  see grants and `VoucherManager` does not have failures, so no property speaks of it.
- An assignment whose caller passed the access check inserts its custodian grant also after an
  unassignment has deleted the grants of the voucher in between.
- Two overlapping assignments both back up the file, the second perhaps the one the first has signed
  over; the original is then gone for good.
- `ServeHTTP` takes every error of `os.Stat` but nil for "not there"
  (voucher_receiver_handler.go:170): a second upload, perhaps with another owner, then overwrites the
  stored voucher, and both get a row.  Once `delete_after_success` has removed a delivered
  voucher the same GUID is accepted again.  `AcceptedOnce` and `RowNamesOwner` except both.
- A download that meets an assignment between the truncation and the write of the file
  fails, and so does one whose statement finds the database busy; both are answered "voucher not found",
  and an incremental pull does not list that voucher again, since `-since` starts after it.
- A delivered voucher whose answer was lost is marked `failed`: the retry is answered
  with 409, which counts as a permanent error.
- More pushes than `max_attempts` can be made, since counts are written back from copies
  or not at all after a crash.
- A refresh overwrites the push and pull URL an administrator gave with `-push-url` and
  `-pull-url` by those of the DID document, or by NULL if it names none or could not be
  read a second time.
- A refresh that is in progress while its partner is removed and another is added with the
  same id gives the new partner the key of the old one's DID, until the next refresh (for
  good, if the new one has no DID).  `KeyOfOwnDid` is stated for ids used once.
- Overlapping uploads of one GUID are both answered with 200 and both get a row.  An
  assignment marks only the newest row of the serial number (voucher_assign_handler.go:245):
  an older row that is still pending stays so, and the worker forwards the customer's
  voucher for it.  `WorkerForwardsOriginals` excepts older rows.
- An attempt that overlaps another, or an assignment, writes its own result over
  `succeeded` or `assigned`.  The row is pending again: the worker forwards the customer's
  voucher to the configured destination, and a row that lost `assigned` cannot be
  unassigned.  `vouchers retry` on a delivered voucher whose file was deleted turns its row
  to pending or failed, so that nothing records the delivery (PRODUCTION_CONSIDERATIONS.md:62).
  The properties of `VoucherManager` except these cases by `mixed`.
- A customer whose download overlaps an unassignment may get the original voucher.
- A server that dies while it exports a new key leaves a truncated file.  Every later start
  that would reuse it refuses it and runs without owner key, DID document and pull service
  until somebody removes it.
- With `first_time_init` off and an export path the key file is overwritten with a new key
  at each start, while the log says `key_persistent`.  Vouchers made out to the old key can
  then no longer be extended.
- `-until` filters after the limit: if newer rows fill the page, the list comes out
  incomplete or empty, with `has_more` false.
- `-since` misses vouchers that were granted, or whose row was inserted, after the last pull
  began but were created before (`late`; tests/TUTORIAL-E2E-DID-PUSH-PULL.md:503 calls it
  incremental sync).
- A pull whose downloads failed exits with status 0.
- `keys export` (main.go:873) does not export the owner key.
- `VoucherPushClient.OwnerKey` is never set, so the client's token cache is not used.

## 7. What is not modelled

- Requests that are refused before they change anything (authentication, parsing,
  manufacturer trust): they have no effect on the state above.  The partners they
  are checked against are in `PartnerTrust`; receiver tokens, their expiry and the trust
  checks are planned (`AuthTokens`).
- Cryptography, encodings, the FDO library, SQLite and the file system below a system
  call (a system call is atomic, and what it wrote survives a crash of the process;
  a power failure is not modelled).
- The status and list endpoints and the lists of the CLI: they read and change nothing.
  Who may see what is in `PullService` (`MayQueryStatus`, `AccessViewsAgree`); the fields of
  the answers are not.
- The external services: their answers are nondeterministic inputs of the modules
  that use them, including failure.
- `VoucherPushService.ProcessVoucher`, which nothing calls, and the status
  `transmissionStatusPermanent`, which nothing writes.
- The voucher generator, configuration and wiring: pure functions and constants.
- The length of the retry interval (`backoffDuration`): only that it passes.
