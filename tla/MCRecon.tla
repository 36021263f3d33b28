------------------------------- MODULE MCRecon -------------------------------
(***************************************************************************)
(* Small instances of Recon.                                               *)
(***************************************************************************)
EXTENDS Recon

CONSTANTS t1, t2, t3, alice, v1, v2

MCOwner == [v \in VAs |-> alice]

Payment(t, v, amount) ==
    [tx |-> t, type |-> "payment_success", va |-> v, amount |-> amount,
     listed |-> TRUE, bare |-> FALSE, original |-> t]

Reversal(t, v, amount, original) ==
    [tx |-> t, type |-> "payment_reversal", va |-> v, amount |-> amount,
     listed |-> FALSE, bare |-> FALSE, original |-> original]

\* A payment into v1, whose listing lacks the account fields, and one to an
\* account number nobody has, which the provider does not list.
RaceEvents == {[Payment(t1, v1, 2) EXCEPT !.bare = TRUE],
               [Payment(t2, NoVA, 1) EXCEPT !.listed = FALSE]}

\* Two payments into v1, the second of which the limits do not admit on top of
\* the first, the reversal of the first, and the report of a failed payment.
WorkerEvents == {Payment(t1, v1, 2), Payment(t2, v1, 1), Reversal(t3, v1, 2, t1),
                 [Payment(t2, v1, 1) EXCEPT !.type = "payment_failed"]}

\* Two payments into v1: the first fits both collections, the second only the one
\* for any amount.
CollectionEvents == {Payment(t1, v1, 2), [Payment(t2, v1, 1) EXCEPT !.listed = FALSE]}

\* A payment and its reversal.
DropEvents == {Payment(t1, v1, 2), Reversal(t2, v1, 2, t1)}

TwoKobo == [c \in Customers |-> 2]

\* A collection for exactly the first payment, and one for any amount.
Requests == [c \in Collections |-> [va |-> v1, amount |-> IF c = 1 THEN 2 ELSE 0]]

\* Everything happens on one day, or the reversal on the day after.
OneDay == [t \in TxIds |-> 0]

TwoDays == [t \in TxIds |-> IF t = t3 THEN 1 ELSE 0]

NoLimit == [c \in Customers |-> 0]

NoRequest == [c \in {} |-> [va |-> v1, amount |-> 0]]
=============================================================================
