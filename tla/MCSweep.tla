------------------------------- MODULE MCSweep -------------------------------
(***************************************************************************)
(* Small instances of Sweep: two sweeps and a tenant's request that share  *)
(* the token, for two payments at one moment; two sweeps over a stretch    *)
(* of time longer than interval and overlap, for one payment.              *)
(***************************************************************************)
EXTENDS Sweep, TLC

CONSTANTS p1, p2

\* 19.99 naira, whose product with 100 comes out just below 1999.
MCKobo == [p \in Payments |-> 1999]
MCError == [p \in Payments |-> -1]

MCFocuses == {[calls |-> TRUE, payments |-> {p1, p2}, runs |-> 2],
              [calls |-> FALSE, payments |-> {p1}, runs |-> 3]}

Symmetry == Permutations(Sweepers)
=============================================================================
