------------------------- MODULE UndisturbedAssignment -------------------------
(***************************************************************************)
(* VoucherAssignment with a history variable that tells whether any crash  *)
(* or error has happened so far, so that what a disturbed operation leaves *)
(* behind and what undisturbed ones add up to are properties of one        *)
(* behaviour.                                                              *)
(***************************************************************************)
EXTENDS VoucherAssignment

VARIABLE disturbed

ObservedInit == Init /\ disturbed = FALSE

ObservedNext ==
    \/ Operation /\ UNCHANGED disturbed
    \/ Disturbance /\ disturbed' = TRUE

ObservedSpec == ObservedInit /\ [][ObservedNext]_<<vars, disturbed>>

\* As long as no step failed and no process died, record, file, backup and grants
\* agree between operations, whatever was assigned and unassigned before.
SettledUnlessDisturbed == ~ disturbed => Settled
===============================================================================
