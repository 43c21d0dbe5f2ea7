------------------------------- MODULE MCDelivery -------------------------------
(***************************************************************************)
(* Small instances of VoucherDelivery for TLC.                             *)
(***************************************************************************)
EXTENDS VoucherDelivery, TLC

CONSTANTS g1, g2, p1, p2, p3, retry1, retry2

\* Two vouchers.
TwoVouchers == p1 :> g1 @@ p2 :> g2

\* Two uploads of one voucher, and a voucher without destination.
TwoUploads == p1 :> g1 @@ p2 :> g1 @@ p3 :> g2

\* The clients that work beside the retry worker, and how many of the faults are
\* still to come, in the scenarios of one run.
Scenarios ==
    {[active |-> {p1, p3, retry1}, faults |-> 0],
     [active |-> {p1, p2}, faults |-> 1],
     [active |-> {p1, retry1, retry2}, faults |-> MaxFaults]}

ScenarioInit ==
    \E scenario \in Scenarios :
       /\ rows = <<>>
       /\ stored = Guids
       /\ delivered = {}
       /\ ops = [client \in Clients |->
                   Resting(CASE client = Worker -> "idle"
                             [] client \notin scenario.active -> "off"
                             [] client \in Pipelines -> "create"
                             [] OTHER -> "idle")]
       /\ faults = scenario.faults

ScenarioSpec == ScenarioInit /\ [][Next]_vars /\ Fairness
===============================================================================
