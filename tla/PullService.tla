------------------------------- MODULE PullService -------------------------------
(***************************************************************************)
(* Customers pull the vouchers they have access to.                        *)
(*                                                                         *)
(* A pull command (pull_command.go) authenticates with the customer's key, *)
(* lists vouchers page by page and then downloads them one by one.  The    *)
(* server (pull_service_setup.go, voucher_pull_store.go) answers each      *)
(* request from the rows, the access grants and the voucher directory as   *)
(* they are at that moment: vouchers arrive, are assigned and unassigned,  *)
(* and files are rewritten in place and deleted after delivery, in         *)
(* between.  Any statement, read or answer may fail.  Session tokens are   *)
(* kept in the memory of the server, whose start is modelled in OwnerKey:  *)
(* there is no pull service without an owner key, and a stop loses them.   *)
(***************************************************************************)
EXTENDS OwnerKey, Integers, Sequences, FiniteSets

CONSTANTS
    Guids,
    Customers,   \* the keys of the customers who pull, one command at a time each
    Others,      \* other keys that own vouchers
    PageSizes,   \* the limits a pull may ask for
    MaxRows,     \* bound: the number of rows
    Untils,      \* the times a pull may give as -until; MaxRows + 1 stands for none
    Failures     \* whether statements, reads, writes and answers may fail

ASSUME PullAssumption ==
    /\ Customers \cap Others = {}
    /\ PageSizes \subseteq Nat \ {0}
    /\ MaxRows \in Nat
    /\ Untils \subseteq 0..(MaxRows + 1)
    /\ Failures \in BOOLEAN

VARIABLES
    rows,      \* voucher_transmissions, in the order of created_at
    grants,    \* voucher_access_grants
    stored,    \* the vouchers whose file is in the voucher directory
    torn,      \* those whose file is truncated, to be rewritten in place
    sessions,  \* the customers whose token is in pullTokenStore and has not expired
    pulls      \* the local state of every customer's pull command

dataVars == <<rows, grants, stored, torn>>
vars == <<keyVars, dataVars, sessions, pulls>>

-------------------------------------------------------------------------------
\* CreatePending takes created_at from the clock before it inserts the row.
Rows == [guid: Guids, owner: Customers \cup Others, state: {"stamped", "visible", "lost"}]

Times == 0..(MaxRows + 1)
NoUntil == MaxRows + 1

\* Where a pull that has its list may be: before a download, or between the
\* statements of one.
Downloading == {"download", "grants", "load"}

Pulls == [pc: {"idle", "list"} \cup Downloading,
          limit: PageSizes \cup {0},
          since: Times,               \* 0: no -since
          until: Times,               \* NoUntil: no -until
          listed: SUBSET Guids,       \* allVouchers
          got: SUBSET Guids,          \* downloaded
          missed: SUBSET Guids,       \* the downloads that failed
          current: SUBSET Guids,      \* the download whose row has been read
          began: Times,               \* when the latest pull began
          mark: Times,                \* when the latest pull that ended began
          have: SUBSET Guids,         \* history: listed by pulls that ended
          late: SUBSET Guids,         \* history: became visible behind `began'
          disturbed: SUBSET Guids]    \* history: those whose download something disturbed

NoPull == [pc |-> "idle", limit |-> 0, since |-> 0, until |-> 0, listed |-> {}, got |-> {},
           missed |-> {}, current |-> {}, began |-> 0, mark |-> 0, have |-> {}, late |-> {},
           disturbed |-> {}]

TypeOK ==
    /\ OwnerKeyTypeOK
    /\ rows \in Seq(Rows) /\ Len(rows) <= MaxRows
    /\ grants \in [Guids -> SUBSET Customers]
    /\ stored \subseteq Guids /\ torn \subseteq stored
    /\ sessions \subseteq Customers
    /\ pulls \in [Customers -> Pulls]
    /\ \A who \in Customers :
          /\ pulls[who].got \cup pulls[who].missed \cup pulls[who].current \subseteq pulls[who].listed
          /\ pulls[who].got \cap pulls[who].missed = {}
          /\ pulls[who].current \cap (pulls[who].got \cup pulls[who].missed) = {}

Init ==
    /\ OwnerKeyInit
    /\ rows = << >>
    /\ grants = [guid \in Guids |-> {}]
    /\ stored = {} /\ torn = {}
    /\ sessions = {}
    /\ pulls = [who \in Customers |-> NoPull]

-------------------------------------------------------------------------------
(***************************************************************************)
(* The queries.                                                            *)
(***************************************************************************)

\* The rows a query can see, by position in the order of created_at.
Visible == {id \in DOMAIN rows : rows[id].state = "visible"}

RowsOf(guid) == {id \in Visible : rows[id].guid = guid}

\* ORDER BY created_at DESC LIMIT n
Newest(ids, n) == {id \in ids : Cardinality({other \in ids : other > id}) < n}

\* FetchLatestByGUID, with the owner of the row it returns.
LatestIsOwned(guid, who) == \E id \in Newest(RowsOf(guid), 1) : rows[id].owner = who

\* The join of ListByAccessGrant, before its limit.
Accessible(who) == {id \in Visible : rows[id].owner = who \/ who \in grants[rows[id].guid]}

ListByAccessGrant(who, limit) == Newest(Accessible(who), limit)

\* Mutant of HasAccessByGUID: only the access grants count.
GrantedOnly(guid, who) == who \in grants[guid]

HasAccessByGUID(guid, who) ==
    \/ \E id \in RowsOf(guid) : rows[id].owner = who
    \/ who \in grants[guid]

\* The access check of GetVoucher, its two statements taken together.
MayDownload(guid, who) ==
    /\ RowsOf(guid) # {}
    /\ LatestIsOwned(guid, who) \/ HasAccessByGUID(guid, who)

\* Mutant of MayQueryStatus: only the owner of the latest row counts.
OwnerQueriesStatus(guid, who) == LatestIsOwned(guid, who)

\* The access check of the status handler.
MayQueryStatus(guid, who) ==
    /\ RowsOf(guid) # {}
    /\ HasAccessByGUID(guid, who) \/ LatestIsOwned(guid, who)

\* Mutant of List: no row more than the limit is asked for.
ListExactly(who, limit, since, until) ==
    LET filtered == {id \in ListByAccessGrant(who, limit) : since <= id /\ id <= until}
    IN  [vouchers |-> {rows[id].guid : id \in filtered},
         hasMore |-> Cardinality(filtered) > limit]

\* Mutant of List: a row created at `since' is left out.
ListAfter(who, limit, since, until) ==
    LET filtered == {id \in ListByAccessGrant(who, limit + 1) : since < id /\ id <= until}
    IN  [vouchers |-> {rows[id].guid : id \in Newest(filtered, limit)},
         hasMore |-> Cardinality(filtered) > limit]

\* Mutant of List: a page that is exactly full counts as more.
ListFullIsMore(who, limit, since, until) ==
    LET filtered == {id \in ListByAccessGrant(who, limit + 1) : since <= id /\ id <= until}
    IN  [vouchers |-> {rows[id].guid : id \in Newest(filtered, limit)},
         hasMore |-> Cardinality(filtered) >= limit]

\* PullVoucherStore.List: the filters come after the limit, and the continuation
\* token of the filter is not read.
List(who, limit, since, until) ==
    LET filtered == {id \in ListByAccessGrant(who, limit + 1) : since <= id /\ id <= until}
    IN  [vouchers |-> {rows[id].guid : id \in Newest(filtered, limit)},
         hasMore |-> Cardinality(filtered) > limit]

-------------------------------------------------------------------------------
(***************************************************************************)
(* The pull command of a customer.                                         *)
(***************************************************************************)
Becomes(who, next) == pulls' = [pulls EXCEPT ![who] = next]

Served(who) == server.pc = "up" /\ server.key # NoKey /\ who \in sessions

\* FDOKeyAuth, which only exists when there is an owner key, issues a token.  The
\* customer asks for everything, or for what is new since the last pull began.
Authenticate(who) ==
    /\ pulls[who].pc = "idle"
    /\ server.pc = "up" /\ server.key # NoKey
    /\ sessions' = sessions \cup {who}
    /\ \E limit \in PageSizes, until \in Untils, since \in {0, pulls[who].mark} :
          Becomes(who, [pulls[who] EXCEPT !.pc = "list", !.limit = limit, !.since = since,
                                          !.until = until, !.began = Len(rows) + 1])
    /\ UNCHANGED <<keyVars, dataVars>>

\* The pull command gives up, or exits with the error of a list request.
Forget(pull) == [pull EXCEPT !.pc = "idle", !.limit = 0, !.since = 0, !.until = 0,
                             !.listed = {}, !.got = {}, !.missed = {}, !.current = {},
                             !.disturbed = {}]

ListFails(who) ==
    /\ pulls[who].pc = "list"
    /\ Failures \/ ~ Served(who)
    /\ Becomes(who, Forget(pulls[who]))
    /\ UNCHANGED <<keyVars, dataVars, sessions>>

\* The next request differs from the last one in nothing the server reads.
ListPage(who) ==
    LET pull == pulls[who]
        page == List(who, pull.limit, pull.since, pull.until)
    IN  /\ pull.pc = "list"
        /\ Served(who)
        /\ Becomes(who,
             [pull EXCEPT !.pc = IF page.hasMore THEN "list" ELSE "download",
                          !.listed = pull.listed \cup page.vouchers,
                          !.late = IF page.hasMore \/ pull.since > 0 \/ pull.until # NoUntil
                                     THEN pull.late ELSE {},
                          !.disturbed = pull.disturbed \cup (page.vouchers \ (stored \ torn))])
        /\ UNCHANGED <<keyVars, dataVars, sessions>>

\* A failed download is logged, and the command goes on with the next voucher.
Miss(who, guid) ==
    LET pull == pulls[who]
    IN  Becomes(who, [pull EXCEPT !.missed = pull.missed \cup {guid},
                                  !.current = {}, !.pc = "download"])

\* Mutant of FetchLatest: a voucher may be downloaded again.
FetchLatestAgain(who) ==
    /\ pulls[who].pc = "download"
    /\ \E guid \in pulls[who].listed :
          IF Served(who) /\ RowsOf(guid) # {}
            THEN Becomes(who, [pulls[who] EXCEPT !.current = {guid},
                                 !.pc = IF LatestIsOwned(guid, who) THEN "load" ELSE "grants"])
            ELSE Miss(who, guid)
    /\ UNCHANGED <<keyVars, dataVars, sessions>>

\* The download handler reads the latest row of the voucher ...
FetchLatest(who) ==
    /\ pulls[who].pc = "download"
    /\ \E guid \in pulls[who].listed \ (pulls[who].got \cup pulls[who].missed) :
          IF Served(who) /\ RowsOf(guid) # {}
            THEN Becomes(who, [pulls[who] EXCEPT !.current = {guid},
                                 !.pc = IF LatestIsOwned(guid, who) THEN "load" ELSE "grants"])
            ELSE Miss(who, guid)
    /\ UNCHANGED <<keyVars, dataVars, sessions>>

\* ... looks for other rows and grants when that row is somebody else's ...
CheckGrants(who) ==
    /\ pulls[who].pc = "grants"
    /\ \E guid \in pulls[who].current :
          IF HasAccessByGUID(guid, who)
            THEN Becomes(who, [pulls[who] EXCEPT !.pc = "load"])
            ELSE Miss(who, guid)
    /\ UNCHANGED <<keyVars, dataVars, sessions>>

\* ... and then reads and parses the file.
LoadFile(who) ==
    LET pull == pulls[who]
    IN  /\ pull.pc = "load"
        /\ \E guid \in pull.current :
              IF guid \in stored \ torn
                THEN Becomes(who, [pull EXCEPT !.got = pull.got \cup {guid},
                                               !.current = {}, !.pc = "download"])
                ELSE Miss(who, guid)
        /\ UNCHANGED <<keyVars, dataVars, sessions>>

\* A statement, the read of the file, the answer or the write of the downloaded
\* voucher fails: each of them makes the command go on with the next voucher.
RequestFails(who) ==
    LET pull == pulls[who]
    IN  /\ Failures
        /\ pull.pc \in Downloading
        /\ \E guid \in IF pull.pc = "download" THEN pull.listed \ (pull.got \cup pull.missed)
                                                ELSE pull.current :
              Becomes(who, [pull EXCEPT !.missed = pull.missed \cup {guid}, !.current = {},
                                        !.pc = "download",
                                        !.disturbed = pull.disturbed \cup {guid}])
        /\ UNCHANGED <<keyVars, dataVars, sessions>>

\* The command reports success, whatever was missed.  The customer keeps the time
\* the pull began for the next -since, unless -until left newer vouchers out.
Finish(who) ==
    LET pull == pulls[who]
    IN  /\ pull.pc = "download"
        /\ pull.listed = pull.got \cup pull.missed
        /\ Becomes(who,
             [Forget(pull) EXCEPT !.mark = IF pull.until = NoUntil THEN pull.began ELSE pull.mark,
                                  !.have = pull.have \cup pull.listed])
        /\ UNCHANGED <<keyVars, dataVars, sessions>>

PullStep(who) ==
    \/ ListFails(who) \/ ListPage(who)
    \/ FetchLatest(who) \/ CheckGrants(who) \/ LoadFile(who) \/ RequestFails(who)
    \/ Finish(who)

-------------------------------------------------------------------------------
(***************************************************************************)
(* What goes on meanwhile: the effect of the actions of VoucherIntake,     *)
(* VoucherAssignment and VoucherDelivery on what the pull service reads.   *)
(***************************************************************************)
Active(who) == pulls[who].pc # "idle"

\* An event disturbs the downloads of some vouchers by the pulls of some customers.
DisturbPulls(who, guids) ==
    pulls' = [one \in Customers |->
                [pulls[one] EXCEPT !.disturbed =
                    IF one \in who /\ Active(one) THEN @ \cup guids ELSE @]]

\* A voucher becomes visible with a time before the latest pull, whose -since the
\* next pull may use; a pull of everything makes up for it.
Overtaken(guid, ids, who) ==
    pulls' = [one \in Customers |->
                [pulls[one] EXCEPT !.late =
                    IF one \in who /\ \A id \in ids : id < pulls[one].began
                      THEN @ \cup {guid} ELSE @]]

\* A voucher is received: its file is written and the time of its row is taken ...
Arrive ==
    /\ server.pc = "up"
    /\ Len(rows) < MaxRows
    /\ \E guid \in Guids \ stored, owner \in Customers \cup Others :
          /\ stored' = stored \cup {guid}
          /\ rows' = Append(rows, [guid |-> guid, owner |-> owner, state |-> "stamped"])
    /\ UNCHANGED <<keyVars, grants, torn, sessions, pulls>>

\* ... and then the row is inserted ...
Insert ==
    /\ \E id \in DOMAIN rows :
          /\ rows[id].state = "stamped"
          /\ rows' = [rows EXCEPT ![id].state = "visible"]
          /\ Overtaken(rows[id].guid, {id}, {rows[id].owner} \cup grants[rows[id].guid])
    /\ UNCHANGED <<keyVars, grants, stored, torn, sessions>>

\* ... or the insert fails, which is only logged.
InsertFails ==
    /\ Failures
    /\ \E id \in DOMAIN rows :
          /\ rows[id].state = "stamped"
          /\ rows' = [rows EXCEPT ![id].state = "lost"]
    /\ UNCHANGED <<keyVars, grants, stored, torn, sessions, pulls>>

\* An assignment, or an unassignment that restores the backup, opens the file and
\* truncates it ...
Rewrite ==
    /\ \E guid \in Guids \ torn :
          /\ RowsOf(guid) # {}
          /\ stored' = stored \cup {guid}
          /\ torn' = torn \cup {guid}
          /\ DisturbPulls(Customers, {guid})
    /\ UNCHANGED <<keyVars, rows, grants, sessions>>

\* ... and writes it, unless it fails or dies in between.
Rewritten ==
    /\ \E guid \in torn : torn' = torn \ {guid}
    /\ UNCHANGED <<keyVars, rows, grants, stored, sessions, pulls>>

\* An assignment grants the access.
Grant ==
    /\ \E guid \in Guids, who \in Customers :
          /\ RowsOf(guid) # {}
          /\ who \notin grants[guid]
          /\ grants' = [grants EXCEPT ![guid] = @ \cup {who}]
          /\ Overtaken(guid, RowsOf(guid), {who})
    /\ UNCHANGED <<keyVars, rows, stored, torn, sessions>>

\* An unassignment removes all grants of the voucher.
Revoke ==
    /\ \E guid \in Guids :
          /\ grants[guid] # {}
          /\ grants' = [grants EXCEPT ![guid] = {}]
          /\ DisturbPulls(grants[guid], {guid})
    /\ UNCHANGED <<keyVars, rows, stored, torn, sessions>>

\* A voucher is pushed with delete_after_success.
RemoveFile ==
    /\ \E guid \in stored :
          /\ stored' = stored \ {guid}
          /\ torn' = torn \ {guid}
          /\ DisturbPulls(Customers, {guid})
    /\ UNCHANGED <<keyVars, rows, grants, sessions>>

\* A token reaches its expiry time.
Expire ==
    /\ \E who \in sessions :
          /\ sessions' = sessions \ {who}
          /\ DisturbPulls({who}, Guids)
    /\ UNCHANGED <<keyVars, dataVars>>

\* The server stops: the tokens and the requests in progress are lost, and with
\* them the downloads that wait for an answer.
Interrupted(pull) ==
    IF pull.pc = "idle" THEN pull
    ELSE [pull EXCEPT !.pc = IF pull.pc = "list" THEN "list" ELSE "download",
                      !.missed = pull.missed \cup pull.current, !.current = {},
                      !.disturbed = Guids]

StopServing ==
    /\ Stop
    /\ sessions' = {}
    /\ rows' = [id \in DOMAIN rows |->
                  [rows[id] EXCEPT !.state = IF @ = "stamped" THEN "lost" ELSE @]]
    /\ pulls' = [who \in Customers |-> Interrupted(pulls[who])]
    /\ UNCHANGED <<grants, stored, torn>>

ServerStep ==
    /\ Start \/ ExportOpen \/ ExportWrite \/ ExportFails
    /\ UNCHANGED <<dataVars, sessions, pulls>>

Next ==
    \/ \E who \in Customers : Authenticate(who) \/ PullStep(who)
    \/ Arrive \/ Insert \/ InsertFails \/ Grant \/ Revoke
    \/ Rewrite \/ Rewritten \/ RemoveFile \/ Expire
    \/ ServerStep \/ StopServing

\* A pull command that is running goes on, whatever the server does.  It gives up
\* when nobody answers; that a request fails otherwise may happen, but need not.
Fairness ==
    \A who \in Customers :
        WF_vars(\/ ListPage(who) \/ (ListFails(who) /\ ~ Served(who))
                \/ FetchLatest(who) \/ CheckGrants(who) \/ LoadFile(who) \/ Finish(who))

Spec == Init /\ [][Next]_vars /\ Fairness

-------------------------------------------------------------------------------
(***************************************************************************)
(* Properties.                                                             *)
(***************************************************************************)
VouchersFor(who, since) == {rows[id].guid : id \in {id \in Accessible(who) : id >= since}}

\* A page that is not said to have more (voucher_pull_store.go:118) ends a list
\* that is complete back to `since', although the filter runs after the limit.
LastPageIsComplete ==
    \A who \in Customers, limit \in PageSizes, since \in Times :
        LET page == List(who, limit, since, NoUntil)
        IN  ~ page.hasMore => VouchersFor(who, since) \subseteq page.vouchers

\* A customer who starts every pull with the time the last one began has listed all
\* vouchers it has access to, but those that became visible behind that time
\* (the incremental sync of tests/TUTORIAL-E2E-DID-PUSH-PULL.md:503).
IncrementalPullsAddUp ==
    [][\A who \in Customers :
         /\ pulls[who].pc = "list" /\ pulls'[who].pc = "download"
         /\ pulls[who].until = NoUntil
         => VouchersFor(who, 0)
              \subseteq pulls[who].have \cup pulls'[who].listed \cup pulls[who].late]_vars

\* The four places that decide about access agree: a caller finds a voucher in the
\* pull list or the voucher list exactly when it may download it and query its status.
AccessViewsAgree ==
    \A who \in Customers, guid \in Guids :
        /\ MayDownload(guid, who) <=> guid \in VouchersFor(who, 0)
        /\ MayQueryStatus(guid, who) <=> guid \in VouchersFor(who, 0)

\* A pull downloads every voucher it has listed, but those that something disturbed:
\* while the pull went on, an access to that voucher was taken away, its file was
\* rewritten, removed or not whole when it was listed, its request failed, or the
\* session ended.  What happens to one voucher never makes the pull miss another.
NothingMissedUndisturbed ==
    \A who \in Customers : pulls[who].missed \subseteq pulls[who].disturbed

\* A pull whose vouchers fit on one page gets to the end of the list.
PullEndsIfItFits ==
    \A who \in Customers :
        pulls[who].pc = "list"
          ~> \/ pulls[who].pc # "list"
             \/ Cardinality(Accessible(who)) > pulls[who].limit

\* "The server returns a continuation token when there are more pages; pass it back to
\* get the next page" (tests/TUTORIAL-E2E-DID-PUSH-PULL.md:504): a pull gets to the last page.
PullReachesTheLastPage ==
    \A who \in Customers : pulls[who].pc = "list" ~> pulls[who].pc # "list"
===============================================================================
