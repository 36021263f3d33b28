----------------------- MODULE MCSuspenseResolution -----------------------
(***************************************************************************)
(* Small instances of SuspenseResolution: two items, requests that compete *)
(* for the first one, and one request for a customer that does not exist.  *)
(***************************************************************************)
EXTENDS SuspenseResolution

CONSTANTS i1, i2, t1, t2, res1, res2, alice, bob

Ask(i, resolution, target) == [item |-> i, resolution |-> resolution, target |-> target]

MCOriginal == [i \in Items |-> IF i = i1 THEN t1 ELSE t2]
MCResolution == [i \in Items |-> IF i = i1 THEN res1 ELSE res2]
MCAmount == [i \in Items |-> IF i = i1 THEN 2 ELSE 1]

\* The requests are numbered.
MCAsked == <<Ask(i1, "reassigned", alice), Ask(i1, "reassigned", bob),
             Ask(i1, "refund_flagged", NoCustomer), Ask(i2, "reassigned", bob),
             Ask(i2, "reassigned", NoCustomer)>>
=============================================================================
