--------------------------- MODULE MCOrderListing ---------------------------
(* Instantiation of OrderListing for TLC: two CreateOrder calls on one    *)
(* idempotency key, two order ids, one CancelOrder caller, two             *)
(* UpdateOrderStatus RPCs and one client walking ListOrders pages of size  *)
(* 1.                                                                      *)
EXTENDS OrderListing, TLC

CONSTANTS k1, q1, q2, o1, o2, c1, l1, u1, u2

MCKeys == {k1}
MCRequests == {q1, q2}
MCOrderIds == {o1, o2}
MCAdmins == {c1}
MCUpdaters == {u1, u2}
MCListers == {l1}
\* Two forward edges, so two concurrent updates write different statuses,
\* and the cancel mapping, which fails the cast.
MCStatusInputs == {"CONFIRMED", "PAID"}
MCPageSizes == {1}
\* No filter, a filter in the enum, and the one outside it.
MCFilterInputs == {"UNSPECIFIED", "PENDING", "CANCELED"}
\* uuids compare in an order unrelated to their creation order.
MCIdRank == (o1 :> 2) @@ (o2 :> 1)
\* The two UpdateOrderStatus callers are interchangeable.
MCSymmetry == Permutations(MCUpdaters)
=============================================================================
