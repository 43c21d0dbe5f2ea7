------------------------------ MODULE MCAssignment ------------------------------
(***************************************************************************)
(* Small instances of VoucherAssignment for TLC.                           *)
(***************************************************************************)
EXTENDS VoucherAssignment, TLC

CONSTANTS g1, g2, g3, s1, s2, s9, own, maker, reseller, buyer1, buyer2, global, cli

PartyConst == {own, maker, reseller, buyer1, buyer2, global, cli}

\* g1 is made out to this service and its row belongs to the reseller.
OneRow == {1}
OneGuid == 1 :> g1
OneSerial == 1 :> s1
OneOwner == 1 :> reseller
OneOriginal == g1 :> <<own>>

\* g1 (received twice: rows 1 and 3) is made out to this service, g2 to another
\* key; g3 was never received.
ThreeRows == 1..3
ThreeGuids == 1 :> g1 @@ 2 :> g2 @@ 3 :> g1
ThreeSerials == 1 :> s1 @@ 2 :> s2 @@ 3 :> s1
ThreeOwners == 1 :> reseller @@ 2 :> maker @@ 3 :> own
ThreeOriginals == g1 :> <<own>> @@ g2 :> <<maker>> @@ g3 :> <<own>>
===============================================================================
