------------------------------- MODULE MCPartners -------------------------------
(***************************************************************************)
(* Small instances of PartnerTrust for TLC.                                *)
(***************************************************************************)
EXTENDS PartnerTrust, TLC

CONSTANTS p1, p2, d1, d2

Entry(did, key, push, enabled) ==
    [did |-> did, key |-> key, push |-> push, pull |-> "none", enabled |-> enabled]

\* p1 comes from the config file.
FirstEntry == p1 :> Entry(d1, "none", "none", TRUE)

\* Partners enrolled by their DID, by their DID and a push URL or a key of the
\* administrator's, by a key alone, and one that is disabled.
SomeOptions == {Entry(d2, "none", "none", TRUE), Entry(d2, "none", "own", TRUE),
                Entry(d1, "own", "none", TRUE), Entry(NoDid, "own", "none", TRUE),
                Entry(d2, "none", "none", FALSE)}
===============================================================================
