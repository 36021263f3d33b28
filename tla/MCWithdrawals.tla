---------------------------- MODULE MCWithdrawals ----------------------------
(***************************************************************************)
(* A small instance of Withdrawals: one wallet receives 3 kobo and loses 1 *)
(* to a reversal, while two requests are made that each fit the balance    *)
(* before the reversal, but not together, and one of them not after it;    *)
(* and one request for an unknown customer.                                *)
(***************************************************************************)
EXTENDS Withdrawals, TLC

CONSTANTS w1, w2, w3, wd1, wd2, wd3, t1, t2, alice

Ask(customer, amount) == [customer |-> customer, amount |-> amount]

MCWithdrawalTx == (w1 :> wd1) @@ (w2 :> wd2) @@ (w3 :> wd3)

MCAsked == (w1 :> Ask(alice, 2)) @@ (w2 :> Ask(alice, 3)) @@ (w3 :> Ask(NoCustomer, 1))

MCPosting ==
    (t1 :> [source |-> "webhook", direction |-> "credit", entries |-> CreditCustomer(alice, 3)])
    @@ (t2 :> [source |-> "webhook", direction |-> "debit", entries |-> ReversalEntries(alice, 1)])
=============================================================================
