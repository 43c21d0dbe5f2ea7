---------------------------------- MODULE MCPull ----------------------------------
(***************************************************************************)
(* Two scenarios for TLC: starts and stops of the server under all         *)
(* settings of its key, without vouchers; and pulls from a server with an  *)
(* imported key, which keeps the product of the two small.  In the second  *)
(* one file is being rewritten at a time, and the voucher that arrives     *)
(* first is g1: the vouchers are interchangeable, and symmetry sets are    *)
(* not for runs that check liveness.  The vouchers rest while the server   *)
(* is down: nobody reads them then, so a command that runs just after the  *)
(* start makes no difference.  Pulls with -until have no -since.           *)
(***************************************************************************)
EXTENDS PullService

CONSTANTS imported, k1, k2, c1, other, g1, g2

KeysConst == {imported, k1, k2}
NoUntilConst == {NoUntil}
SomeUntils == {1, NoUntil}

ScenarioNext ==
    \/ ServerStep \/ StopServing
    \/ /\ config = [import |-> TRUE, firstTimeInit |-> FALSE, exportPath |-> FALSE]
       /\ Next
       /\ Cardinality(torn') <= 1
       /\ rows' # << >> => rows'[1].guid = g1
       /\ server.pc = "up" \/ UNCHANGED dataVars
       /\ pulls'[c1].until # NoUntil => pulls'[c1].since = 0

ScenarioSpec == Init /\ [][ScenarioNext]_vars /\ Fairness
===============================================================================
