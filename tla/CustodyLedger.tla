----------------------------- MODULE CustodyLedger -----------------------------
(***************************************************************************)
(* What README.md promises of assignment, without the database, the files  *)
(* and the processes: every voucher is in the custody of at most one       *)
(* customer, the stored voucher is signed over before the ledger says so,  *)
(* and a customer is only ever replaced after an explicit unassignment     *)
(* that also takes the signature back.                                     *)
(***************************************************************************)
CONSTANTS Vouchers, Customers, Nobody    \* Nobody is not a customer

VARIABLES
    custody,   \* the customer the record shows, or Nobody
    signed     \* the customer the stored voucher is signed over to, or Nobody

ledger == <<custody, signed>>

LedgerInit ==
    /\ custody = [voucher \in Vouchers |-> Nobody]
    /\ signed = [voucher \in Vouchers |-> Nobody]

\* The voucher is signed over to a customer; the record does not show it yet.
SignOver(voucher, customer) ==
    /\ custody[voucher] = Nobody
    /\ signed[voucher] = Nobody
    /\ signed' = [signed EXCEPT ![voucher] = customer]
    /\ UNCHANGED custody

\* The record shows the customer the voucher is signed over to.
Record(voucher) ==
    /\ custody[voucher] = Nobody
    /\ signed[voucher] # Nobody
    /\ custody' = [custody EXCEPT ![voucher] = signed[voucher]]
    /\ UNCHANGED signed

\* An operator unassigns: first the record, then the stored voucher.
Release(voucher) ==
    /\ custody[voucher] # Nobody
    /\ custody' = [custody EXCEPT ![voucher] = Nobody]
    /\ UNCHANGED signed

TakeBack(voucher) ==
    /\ custody[voucher] = Nobody
    /\ signed[voucher] # Nobody
    /\ signed' = [signed EXCEPT ![voucher] = Nobody]
    /\ UNCHANGED custody

LedgerNext ==
    \E voucher \in Vouchers :
       \/ \E customer \in Customers : SignOver(voucher, customer)
       \/ Record(voucher)
       \/ Release(voucher)
       \/ TakeBack(voucher)

LedgerSpec == LedgerInit /\ [][LedgerNext]_ledger
===============================================================================
