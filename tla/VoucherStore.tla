------------------------------ MODULE VoucherStore ------------------------------
(***************************************************************************)
(* The persistent data every process of the voucher manager shares, as     *)
(* values: the SQLite tables voucher_transmissions and                     *)
(* voucher_access_grants, and the voucher directory.  The HTTP server and  *)
(* every CLI command are separate OS processes that open the same database *)
(* file and the same directory; none of them takes a lock across two       *)
(* statements.  The operators here are what ONE SQL statement, or one      *)
(* voucher-library call, does; the modules that extend this one put a step *)
(* of its own around each.                                                 *)
(***************************************************************************)
EXTENDS Integers, Sequences

CONSTANTS
    Guids,     \* voucher GUIDs; the file name in the voucher directory
    Serials,   \* device serial numbers (not unique: no constraint in the schema)
    Parties,   \* key fingerprints and identity fingerprints (same hex format)
    RowIds,    \* row ids of voucher_transmissions; a larger id was created later
    Own,       \* fingerprint of the key this service signs with
    NoOne,     \* the empty fingerprint ''
    NoFile,    \* there is no file at the path
    Torn       \* the file was truncated by os.WriteFile and not yet written

ASSUME StoreAssumption ==
    /\ RowIds \subseteq Nat
    /\ Own \in Parties
    /\ NoOne \notin Parties
    /\ NoFile # Torn
    /\ NoFile \notin Seq(Parties)
    /\ Torn \notin Seq(Parties)

-------------------------------------------------------------------------------
(***************************************************************************)
(* Voucher files.  A voucher is the sequence of keys it was signed to: the *)
(* key it was first made out to, then one key per extension.               *)
(***************************************************************************)
Chains == Seq(Parties) \ {<<>>}
FileContents == Chains \cup {NoFile, Torn}

Tip(chain) == chain[Len(chain)]

\* fdo.ParseVoucherFile succeeds: a missing or an empty file does not parse.
Parses(file) == file \in Chains

\* fdo.ExtendVoucher works only for the holder of the key at the chain tip.
CanExtend(chain) == Tip(chain) = Own
ExtendVoucher(chain, nextOwner) == Append(chain, nextOwner)

-------------------------------------------------------------------------------
(***************************************************************************)
(* Transmission rows.                                                      *)
(***************************************************************************)
Statuses == {"pending", "succeeded", "failed", "assigned", "no_destination"}

Rows == [guid: Guids,                    \* voucher_guid
         serial: Serials,                \* serial_number
         hasDestination: BOOLEAN,        \* destination_url # ''
         owner: Parties \cup {NoOne},    \* owner_key_fingerprint
         status: Statuses,
         assignedTo: Parties \cup {NoOne},
         assignedBy: Parties \cup {NoOne}]

\* rec = &recs[0] of FetchBySerial: the newest row of the serial number.
NewestBySerial(table, serial, id) ==
    /\ id \in RowIds
    /\ table[id].serial = serial
    /\ \A other \in RowIds : table[other].serial = serial => other <= id

\* FetchLatestByGUID: the newest row of the GUID.
NewestByGuid(table, guid, id) ==
    /\ id \in RowIds
    /\ table[id].guid = guid
    /\ \A other \in RowIds : table[other].guid = guid => other <= id

\* Mutant of MarkAssigned: newOwner and assigner are bound in the wrong order.
MarkAssignedSwapped(table, id, newOwner, assigner) ==
    [table EXCEPT ![id] = [@ EXCEPT !.status = "assigned",
                                    !.assignedTo = assigner,
                                    !.assignedBy = newOwner]]

\* The UPDATE of MarkAssigned has no condition on the row's current status.
MarkAssigned(table, id, newOwner, assigner) ==
    [table EXCEPT ![id] = [@ EXCEPT !.status = "assigned",
                                    !.assignedTo = newOwner,
                                    !.assignedBy = assigner]]

\* Mutant of MarkUnassigned: only the status is restored.
MarkUnassignedStatus(table, id, restoreStatus) ==
    [table EXCEPT ![id].status = restoreStatus]

MarkUnassigned(table, id, restoreStatus) ==
    [table EXCEPT ![id] = [@ EXCEPT !.status = restoreStatus,
                                    !.assignedTo = NoOne,
                                    !.assignedBy = NoOne]]

-------------------------------------------------------------------------------
(***************************************************************************)
(* Access grants: a set per GUID, since (guid, identity, type) is UNIQUE   *)
(* and the insert is INSERT OR IGNORE.                                     *)
(***************************************************************************)
GrantTypes == {"custodian", "owner_key"}
Grants == Parties \X GrantTypes

InsertAccessGrant(access, guid, identity, type) ==
    [access EXCEPT ![guid] = @ \cup {<<identity, type>>}]

\* Mutant of RemoveAccessGrantsForVoucher: only the custodian rows are deleted.
RemoveCustodians(access, guid) ==
    [access EXCEPT ![guid] = @ \ (Parties \X {"custodian"})]

RemoveAccessGrantsForVoucher(access, guid) == [access EXCEPT ![guid] = {}]

HasAccessByGUID(table, access, guid, identity) ==
    \/ \E id \in RowIds : table[id].guid = guid /\ table[id].owner = identity
    \/ \E type \in GrantTypes : <<identity, type>> \in access[guid]
===============================================================================
