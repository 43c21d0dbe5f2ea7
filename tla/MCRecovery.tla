------------------------------- MODULE MCRecovery -------------------------------
(***************************************************************************)
(* The instances of MCAssignment, with the history of                      *)
(* UndisturbedAssignment.  Every row is pending at first: a row that was   *)
(* delivered or failed before adds states and no case to one operation at  *)
(* a time.                                                                 *)
(***************************************************************************)
EXTENDS MCAssignment, UndisturbedAssignment

RecoveryInit == ObservedInit /\ \A id \in RowIds : rows[id].status = "pending"

RecoverySpec == RecoveryInit /\ [][ObservedNext]_<<vars, disturbed>>
===============================================================================
