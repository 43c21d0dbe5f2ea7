--------------------------- MODULE UndisturbedIntake ---------------------------
(***************************************************************************)
(* VoucherIntake with a history variable that tells whether any step       *)
(* failed or the server crashed, so that what holds in spite of that and   *)
(* what uploads come to without it are properties of one behaviour.        *)
(***************************************************************************)
EXTENDS VoucherIntake

VARIABLE disturbed

Processing ==
    \/ \E upload \in Uploads : Receive(upload) \/ HandlerStep(upload) \/ PipelineStep(upload)
    \/ DeleteDelivered

Disturbance == ServerCrash \/ \E upload \in Uploads : StepFails(upload)

ObservedInit == Init /\ disturbed = FALSE

ObservedNext ==
    \/ Processing /\ UNCHANGED disturbed
    \/ Disturbance /\ disturbed' = TRUE

ObservedSpec == ObservedInit /\ [][ObservedNext]_<<vars, disturbed>> /\ Fairness

-------------------------------------------------------------------------------
(***************************************************************************)
(* Properties.                                                             *)
(***************************************************************************)
Settled(upload) == ops[upload].pc \in {"new", "done"}

\* Retransmissions of one voucher that overlap leave it whole in the end, although
\* they truncate and write the same temporary file, as long as nothing fails.
RetransmissionsConverge ==
    ~ disturbed =>
       \A guid \in Guids :
          LET Retransmissions == {upload \in Uploads : Guid(upload) = guid} IN
          /\ \A upload \in Retransmissions : Settled(upload)
          /\ \A upload, other \in Retransmissions : ops[upload].key = ops[other].key
          => Whole(guid)

\* An accepted voucher gets a row in the end: whatever the dynamic callback
\* answers, when nothing else fails.
AcceptedGetsRow ==
    \A upload \in Uploads :
       upload \in accepted ~> disturbed \/ \E row \in rows : row.upload = upload
===============================================================================
