--------------------------- MODULE MCOrderIntake ---------------------------
(* Instantiation of OrderIntake for TLC: two CreateOrder calls with one    *)
(* idempotency key (a retry or a concurrent duplicate), two order ids, one *)
(* CancelOrder caller.                                                     *)
EXTENDS OrderIntake

CONSTANTS k1, q1, q2, o1, o2, c1, u1

MCKeys == {k1}
MCRequests == {q1, q2}
MCOrderIds == {o1, o2}
MCAdmins == {c1}
MCUpdaters == {u1}
\* A forward edge, a skip to delivered, the cancel mapping and the default.
MCStatusInputs == {"CONFIRMED", "DELIVERED", "CANCELED", "UNSPECIFIED"}
=============================================================================
