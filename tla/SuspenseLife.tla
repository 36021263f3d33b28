---------------------------- MODULE SuspenseLife ----------------------------
(***************************************************************************)
(* What resolving a suspense item promises (FR-7.2), without the calls,    *)
(* requests and failures of SuspenseResolution: where the money of each    *)
(* item is, and how the item is resolved.  Neither changes once it is set.  *)
(*                                                                         *)
(* Money may move out of an item that is already flagged for refund: the   *)
(* code does not exclude it (run refund of SuspenseResolution).            *)
(***************************************************************************)
CONSTANTS
    Items,
    Customers,
    Claimants,  \* Claimants[i]: the customers item i is claimed for
    Held        \* the suspense account

VARIABLES
    holder,  \* holder[i]: the account that has the money of item i
    status   \* status[i]: open, reassigned or refund_flagged

Init ==
    /\ holder = [i \in Items |-> Held]
    /\ status = [i \in Items |-> "open"]

\* DR suspense / CR customer_wallet.
Move(i, c) ==
    /\ holder[i] = Held
    /\ c \in Claimants[i]
    /\ holder' = [holder EXCEPT ![i] = c]
    /\ UNCHANGED status

Reassign(i) ==
    /\ status[i] = "open"
    /\ holder[i] # Held
    /\ status' = [status EXCEPT ![i] = "reassigned"]
    /\ UNCHANGED holder

FlagRefund(i) ==
    /\ status[i] = "open"
    /\ status' = [status EXCEPT ![i] = "refund_flagged"]
    /\ UNCHANGED holder

Next ==
    \E i \in Items :
        \/ \E c \in Customers : Move(i, c)
        \/ Reassign(i)
        \/ FlagRefund(i)

Spec == Init /\ [][Next]_<<holder, status>>
=============================================================================
