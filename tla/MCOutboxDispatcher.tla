------------------------ MODULE MCOutboxDispatcher ------------------------
(* Instantiation of OutboxDispatcher for TLC: three outbox rows, a batch  *)
(* limit below the number of rows, one or two orders-service processes,  *)
(* and one row, e2, on the topic the notification service reads.         *)
EXTENDS OutboxDispatcher

CONSTANTS e1, e2, e3, d1, d2

MCEventIds == {e1, e2, e3}
MCDispatchers == {d1, d2}
MCDispatchers1 == {d1}
\* e1 and e3 are rows of other event types (order.confirmed, ...).
MCSubscribed == {e2}
=============================================================================
