-------------------------------- MODULE MCIntake --------------------------------
(***************************************************************************)
(* VoucherIntake on small instances, with the history of UndisturbedIntake. *)
(***************************************************************************)
EXTENDS UndisturbedIntake, TLC

CONSTANTS u1, u2, u3, k1, k2

\* All uploads carry one voucher (another one only meets them in a crash), and the
\* uploads differ in nothing but their order and their owner key: one of three may
\* have another key than the other two.
OneVoucher ==
    /\ ObservedInit
    /\ \A upload, other \in Uploads : Guid(upload) = Guid(other)
    /\ ops[u1].key = k1 /\ ops[u2].key = k1

\* Bound: uploads that overlap meet one error or crash; the others any number.
ScenarioNext ==
    \/ Processing /\ UNCHANGED disturbed
    \/ /\ disturbed => \A upload \in Uploads : Guid(upload) \in OneAtATime
       /\ Disturbance
       /\ disturbed' = TRUE

ProcessingSpec == OneVoucher /\ [][ScenarioNext]_<<vars, disturbed>> /\ Fairness
===============================================================================
