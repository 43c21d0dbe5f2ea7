------------------------------ MODULE PartnerTrust ------------------------------
(***************************************************************************)
(* The partners table (partner_store.go) between three kinds of actors:    *)
(* `partners add` and `partners remove` commands, the config entries that  *)
(* are added at every start of the server (partner_command.go), and the    *)
(* worker that refreshes did:web partners from their DID documents         *)
(* (partner_refresh_worker.go).  The worker works on a list it has read    *)
(* before, resolves each DID, fetches the document a second time, and then *)
(* writes what it has found to the row of that id, whatever row that is by *)
(* then.                                                                   *)
(*                                                                         *)
(* Documents change while all this happens.  What is taken from a document *)
(* is named by its source: the DID and the version of its document.        *)
(***************************************************************************)
EXTENDS Integers

CONSTANTS
    Ids,            \* partner ids
    Dids,           \* did:web DIDs
    NoDid,          \* a partner enrolled by its key or push URL only
    Configured,     \* the ids of the config file's partners section
    ConfigEntry,    \* what the config file says of each of them
    Options,        \* what may be given to `partners add`
    Commands,       \* `partners add` and `partners remove` processes
    Reusable,       \* ids that may be given to another partner after a removal
    Absent,         \* there is no row
    MaxVersion,     \* bound: documents published per DID
    MaxFaults       \* bound: failing calls and crashes in a behaviour

\* What an administrator knows of a partner: `own` is a key or URL of his.
Entries == [did: Dids \cup {NoDid}, key: {"none", "own"}, push: {"none", "own"},
            pull: {"none", "own"}, enabled: BOOLEAN]

ASSUME PartnerAssumption ==
    /\ Configured \subseteq Ids /\ Reusable \subseteq Ids
    /\ ConfigEntry \in [Configured -> Entries]
    /\ Options \subseteq Entries
    /\ NoDid \notin Dids /\ Absent \notin Ids
    /\ MaxVersion \in Nat \ {0} /\ MaxFaults \in Nat

VARIABLES
    published,      \* the version of every DID's document
    partners,       \* the table
    used,           \* history: the ids that were given to a partner
    worker,         \* the local state of the refresh worker
    ops,            \* the local state of every command
    faults

vars == <<published, partners, used, worker, ops, faults>>

-------------------------------------------------------------------------------
(***************************************************************************)
(* State.                                                                  *)
(***************************************************************************)
Documents == [did: Dids, version: 1..MaxVersion]
Sources == Documents \cup {[did |-> NoDid, version |-> 0],    \* NULL
                           [did |-> NoDid, version |-> 1]}    \* "own"

From(given) == [did |-> NoDid, version |-> IF given = "own" THEN 1 ELSE 0]
None == From("none")
Current(did) == [did |-> did, version |-> published[did]]

Rows == [did: Dids \cup {NoDid},
         key: Sources,          \* public_key and its fingerprint
         push: Sources,         \* push_url
         pull: Sources,         \* pull_url
         stale: BOOLEAN,        \* did_document_fetched_at is NULL or too old
         enabled: BOOLEAN]

Present(id) == partners[id] # Absent
IsWeb(row) == row.did # NoDid /\ row.enabled

\* The worker: the rest of its list, and what it has found out about one partner.
Workers == [pc: {"boot", "idle", "next", "resolve", "fetch", "update"},
            list: SUBSET (Ids \X Dids),
            id: Ids \cup {Absent},
            did: Dids \cup {NoDid},
            key: Sources,       \* publicKeyPEM and recipientURL
            pull: Sources]      \* pullURL

Resting(step) == [pc |-> step, list |-> {}, id |-> Absent, did |-> NoDid,
                  key |-> None, pull |-> None]

Ops == [pc: {"idle", "insert", "off"},
        id: Ids \cup {Absent},
        row: Rows \cup {Absent}]

TypeOK ==
    /\ published \in [Dids -> 1..MaxVersion]
    /\ partners \in [Ids -> Rows \cup {Absent}]
    /\ used \subseteq Ids
    /\ worker \in Workers
    /\ ops \in [Commands -> Ops]
    /\ faults \in 0..MaxFaults

Init ==
    /\ published = [did \in Dids |-> 1]
    /\ partners = [id \in Ids |-> Absent]
    /\ used = Configured
    /\ worker = Resting("boot")
    /\ ops = [command \in Commands |-> [pc |-> "idle", id |-> Absent, row |-> Absent]]
    /\ faults = 0

Fault == faults < MaxFaults /\ faults' = faults + 1

\* A partner publishes a new document: a new key, new endpoints.
Publish(did) ==
    /\ published[did] < MaxVersion
    /\ published' = [published EXCEPT ![did] = @ + 1]
    /\ UNCHANGED <<partners, used, worker, ops, faults>>

-------------------------------------------------------------------------------
(***************************************************************************)
(* partnersAddCmd and partnersRemoveCmd.                                   *)
(***************************************************************************)
NewRow(entry) ==
    [did |-> entry.did, key |-> From(entry.key), push |-> From(entry.push),
     pull |-> From(entry.pull), stale |-> TRUE, enabled |-> entry.enabled]

\* The key and the push URL of the DID document, where the options name none; the
\* pull URL only comes from the options.
Resolved(entry) ==
    [NewRow(entry) EXCEPT !.key = Current(entry.did),
                          !.push = IF entry.push = "own" THEN @ ELSE Current(entry.did)]

\* The options, and ResolveDIDKey if there is a DID and no key.  If that fails the
\* partner is added without one.
StartAdd(command) ==
    /\ ops[command].pc = "idle"
    /\ \E id \in Ids \ (used \ Reusable), entry \in Options :
          /\ used' = used \cup {id}
          /\ LET Adds(row) ==
                    ops' = [ops EXCEPT ![command] = [pc |-> "insert", id |-> id, row |-> row]]
             IN IF entry.did # NoDid /\ entry.key = "none"
                  THEN \/ Adds(Resolved(entry)) /\ UNCHANGED faults
                       \/ Adds(NewRow(entry)) /\ Fault
                  ELSE Adds(NewRow(entry)) /\ UNCHANGED faults
    /\ UNCHANGED <<published, partners, worker>>

\* id is the primary key: the INSERT fails if there is a row.
Insert(command) ==
    LET id == ops[command].id IN
    /\ ops[command].pc = "insert"
    /\ partners' = [partners EXCEPT ![id] = IF @ = Absent THEN ops[command].row ELSE @]
    /\ ops' = [ops EXCEPT ![command] = [pc |-> "off", id |-> Absent, row |-> Absent]]
    /\ UNCHANGED <<published, used, worker, faults>>

Remove(command) ==
    /\ ops[command].pc = "idle"
    /\ \E id \in Ids :
          /\ Present(id)
          /\ partners' = [partners EXCEPT ![id] = Absent]
    /\ ops' = [ops EXCEPT ![command].pc = "off"]
    /\ UNCHANGED <<published, used, worker, faults>>

-------------------------------------------------------------------------------
(***************************************************************************)
(* The start of the server, and the refresh worker.                        *)
(***************************************************************************)

\* bootstrapPartners adds the entries that are not there; an entry that a command
\* adds between its Get and its Add makes the Add fail, with the same result.
Bootstrap ==
    /\ worker.pc = "boot"
    /\ partners' = [id \in Ids |->
                      IF ~ Present(id) /\ id \in Configured
                        THEN NewRow(ConfigEntry[id])
                        ELSE partners[id]]
    /\ worker' = Resting("idle")
    /\ UNCHANGED <<published, used, ops, faults>>

Stale == {id \in Ids : Present(id) /\ IsWeb(partners[id]) /\ partners[id].stale}

\* Mutant of List: partners without a DID are listed, too.
ListAll ==
    /\ worker.pc = "idle"
    /\ worker' = [Resting("next") EXCEPT !.list =
                     {<<id, partners[id].did>> :
                        id \in {one \in Ids : Present(one) /\ partners[one].stale}}]
    /\ UNCHANGED <<published, partners, used, ops, faults>>

\* Mutant of List: all entries of the list share the DID of one of them.
ListAliased ==
    /\ worker.pc = "idle"
    /\ \E one \in Stale :
          worker' = [Resting("next") EXCEPT !.list = {<<id, partners[one].did>> : id \in Stale}]
    /\ UNCHANGED <<published, partners, used, ops, faults>>

\* ListDIDWebPartners; the documents that are fresh at this time are skipped.
List ==
    /\ worker.pc = "idle"
    /\ Stale # {}
    /\ worker' = [Resting("next") EXCEPT !.list = {<<id, partners[id].did>> : id \in Stale}]
    /\ UNCHANGED <<published, partners, used, ops, faults>>

\* The SELECT has no ORDER BY.
NextPartner ==
    /\ worker.pc = "next"
    /\ \/ worker.list = {} /\ worker' = Resting("idle")
       \/ \E entry \in worker.list :
             worker' = [Resting("resolve") EXCEPT !.list = worker.list \ {entry},
                                                  !.id = entry[1], !.did = entry[2]]
    /\ UNCHANGED <<published, partners, used, ops, faults>>

\* Mutant of Resolve: documents are cached for any time.
ResolveCached ==
    /\ worker.pc = "resolve"
    /\ \E version \in 1..published[worker.did] :
          worker' = [worker EXCEPT !.pc = "fetch",
                                   !.key = [did |-> worker.did, version |-> version]]
    /\ UNCHANGED <<published, partners, used, ops, faults>>

\* ResolveDIDKey: the key and the push URL.
Resolve ==
    /\ worker.pc = "resolve"
    /\ worker' = [worker EXCEPT !.pc = "fetch", !.key = Current(worker.did)]
    /\ UNCHANGED <<published, partners, used, ops, faults>>

\* fetchRawDocument: the document once more, for the pull URL.
FetchRaw ==
    /\ worker.pc = "fetch"
    /\ worker' = [worker EXCEPT !.pc = "update", !.pull = Current(worker.did)]
    /\ UNCHANGED <<published, partners, used, ops, faults>>

\* Mutant of UpdateDIDDocument: the push URL is taken from the second document.
UpdateFromRaw ==
    /\ worker.pc = "update"
    /\ partners' = [partners EXCEPT ![worker.id] =
                      IF @ = Absent THEN @
                      ELSE [@ EXCEPT !.key = worker.key, !.push = worker.pull,
                                     !.pull = worker.pull, !.stale = FALSE]]
    /\ worker' = [Resting("next") EXCEPT !.list = worker.list]
    /\ UNCHANGED <<published, used, ops, faults>>

\* Mutant of UpdateDIDDocument: a key that is there is kept.
UpdateKeepsKey ==
    /\ worker.pc = "update"
    /\ partners' = [partners EXCEPT ![worker.id] =
                      IF @ = Absent THEN @
                      ELSE [@ EXCEPT !.key = IF @ = None THEN worker.key ELSE @,
                                     !.push = worker.key, !.pull = worker.pull,
                                     !.stale = FALSE]]
    /\ worker' = [Resting("next") EXCEPT !.list = worker.list]
    /\ UNCHANGED <<published, used, ops, faults>>

\* Mutant of UpdateDIDDocument: INSERT OR REPLACE.
UpdateInserts ==
    /\ worker.pc = "update"
    /\ partners' = [partners EXCEPT ![worker.id] =
                      [did |-> worker.did, key |-> worker.key, push |-> worker.key,
                       pull |-> worker.pull, stale |-> FALSE, enabled |-> TRUE]]
    /\ worker' = [Resting("next") EXCEPT !.list = worker.list]
    /\ UNCHANGED <<published, used, ops, faults>>

\* UpdateDIDDocument: UPDATE ... WHERE id = ?
UpdateDIDDocument ==
    /\ worker.pc = "update"
    /\ partners' = [partners EXCEPT ![worker.id] =
                      IF @ = Absent THEN @
                      ELSE [@ EXCEPT !.key = worker.key, !.push = worker.key,
                                     !.pull = worker.pull, !.stale = FALSE]]
    /\ worker' = [Resting("next") EXCEPT !.list = worker.list]
    /\ UNCHANGED <<published, used, ops, faults>>

\* max_age passes.
Age(id) ==
    /\ Present(id)
    /\ ~ partners[id].stale
    /\ partners' = [partners EXCEPT ![id].stale = TRUE]
    /\ UNCHANGED <<published, used, worker, ops, faults>>

-------------------------------------------------------------------------------
(***************************************************************************)
(* The readers of the table.                                               *)
(***************************************************************************)

\* There may be several: the SELECT takes any.
GetByFingerprint(key) ==
    {id \in Ids : Present(id) /\ partners[id].key = key /\ partners[id].enabled}

\* Where a voucher of this owner key may be sent.
resolveViaPartner(key) ==
    {partners[id].push : id \in GetByFingerprint(key)} \ {None}

-------------------------------------------------------------------------------
(***************************************************************************)
(* Faults.                                                                 *)
(***************************************************************************)

\* A call of the worker fails: without the raw document there is no pull URL,
\* after the other errors the worker goes on with the next partner.
WorkerFails ==
    /\ Fault
    /\ \/ worker.pc = "fetch" /\ worker' = [worker EXCEPT !.pc = "update"]
       \/ /\ worker.pc \in {"resolve", "update"}
          /\ worker' = [Resting("next") EXCEPT !.list = worker.list]
    /\ UNCHANGED <<published, partners, used, ops>>

ServerRestart ==
    /\ Fault
    /\ worker' = Resting("boot")
    /\ UNCHANGED <<published, partners, used, ops>>

KillCommand(command) ==
    /\ Fault
    /\ ops[command].pc = "insert"
    /\ ops' = [ops EXCEPT ![command] = [pc |-> "off", id |-> Absent, row |-> Absent]]
    /\ UNCHANGED <<published, partners, used, worker>>

-------------------------------------------------------------------------------
WorkerStep ==
    Bootstrap \/ List \/ NextPartner \/ Resolve \/ FetchRaw \/ UpdateDIDDocument

Next ==
    \/ \E did \in Dids : Publish(did)
    \/ \E command \in Commands : StartAdd(command) \/ Insert(command) \/ Remove(command)
    \/ WorkerStep
    \/ \E id \in Ids : Age(id)
    \/ WorkerFails
    \/ ServerRestart
    \/ \E command \in Commands : KillCommand(command)

\* The ticker fires, calls return, and time passes.
Fairness == WF_vars(WorkerStep) /\ \A id \in Ids : WF_vars(Age(id))

Spec == Init /\ [][Next]_vars /\ Fairness

-------------------------------------------------------------------------------
(***************************************************************************)
(* Properties.                                                             *)
(***************************************************************************)

\* A voucher that is routed by a key that came from a DID document goes to an
\* endpoint of the same document, although the worker reads the document twice
\* while it may change, and ids may be given to other partners.
RoutedTogether ==
    \A key \in Documents : \A push \in resolveViaPartner(key) :
       push \in Documents => push = key

\* The key of a partner is trusted and routed by because its own DID published it,
\* if its id is not given to another partner after a removal (the worker writes by
\* id) ...
KeyOfOwnDid ==
    \A id \in Ids \ Reusable :
       Present(id) /\ partners[id].key \in Documents
         => partners[id].key.did = partners[id].did

\* ... and it is never replaced by an older one, in any order of refreshes,
\* additions, restarts and new documents.
NoKeyReturns ==
    [][\A id \in Ids \ Reusable :
         (Present(id) /\ Present(id)' /\ partners[id].key \in Documents)
           => /\ partners'[id].key \in Documents
              /\ partners'[id].key.version >= partners[id].key.version]_vars

\* A partner that was removed only returns when it is added again: by a command,
\* or from the config file at a start, never by a refresh that was in progress.
RemovedUntilAdded ==
    [][\A id \in Ids :
         (~ Present(id) /\ Present(id)')
           => \/ \E command \in Commands :
                    ops[command].pc = "insert" /\ ops[command].id = id
              \/ worker.pc = "boot" /\ id \in Configured]_vars

\* Once documents and commands come to rest, an enabled did:web partner ends up
\* with the key and the endpoints of its current document, whatever failed or
\* was overwritten on the way.
UpToDate(id) ==
    (Present(id) /\ IsWeb(partners[id])) =>
       /\ partners[id].key = Current(partners[id].did)
       /\ partners[id].push = Current(partners[id].did)
       /\ partners[id].pull = Current(partners[id].did)

EventuallyUpToDate == \A id \in Ids : <>[]UpToDate(id)
===============================================================================
