-------------------------------- MODULE MCManager --------------------------------
(***************************************************************************)
(* One voucher that was uploaded twice, for TLC: two rows of the same GUID *)
(* and serial number, the older of which no assignment touches.  The       *)
(* constants are those of MCAssignment, in a module of their own because   *)
(* VoucherManager extends VoucherAssignment.                               *)
(***************************************************************************)
EXTENDS VoucherManager, TLC

CONSTANTS g1, s1, own, reseller, buyer1, buyer2, global, cli

PartyConst == {own, reseller, buyer1, buyer2, global, cli}
TwoRows == {1, 2}
OneGuid == 1 :> g1 @@ 2 :> g1
OneSerial == 1 :> s1 @@ 2 :> s1
OneOwner == 1 :> reseller @@ 2 :> reseller
OneOriginal == g1 :> <<own>>

\* Both rows are new and have a destination; attempts bring the other states about.
TwiceUploaded ==
    ManagerInit /\ \A id \in RowIds : rows[id].hasDestination /\ rows[id].status = "pending"

\* The operator names the voucher by its serial number, not with -guid.
BySerial == \A client \in Clients : ops'[client].wanted = NoOne
TwiceUploadedSpec == TwiceUploaded /\ [][ManagerNext /\ BySerial]_managerVars

\* The buyers are interchangeable.
Buyers == Permutations({buyer1, buyer2})
===============================================================================
