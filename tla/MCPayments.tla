----------------------------- MODULE MCPayments -----------------------------
(* Instantiation of Payments for TLC: two payments, two concurrent         *)
(* ConfirmPayment calls, a breaker opening after one failure.             *)
EXTENDS Payments

CONSTANTS y1, y2, c1, c2

MCPaymentIds == {y1, y2}
MCConfirmers == {c1, c2}
MCConfirmers1 == {c1}
=============================================================================
