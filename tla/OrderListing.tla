---------------------------- MODULE OrderListing ----------------------------
(***************************************************************************)
(* ListOrders keyset pagination (C2) composed with order intake.  The     *)
(* gRPC handler ListOrders (src/services/orders/internal/outbox/          *)
(* publisher.go, the orders gRPC server) clamps the page size and maps    *)
(* the status filter; OrderService.ListOrders                              *)
(* (src/services/orders/internal/service/order_service.go) calls           *)
(* OrderRepository.List (src/unnamed/part_003), which selects the rows     *)
(* after the cursor in ORDER BY created_at DESC, id DESC with LIMIT        *)
(* limit+1 and returns the id of the last row of the page as next cursor   *)
(* when the extra row came back.                                           *)
(*                                                                         *)
(* A lister is a client walking the pages of one user's orders: each call  *)
(* is one SELECT, and CreateOrder, UpdateOrderStatus and CancelOrder of    *)
(* OrderIntake run between the calls.  created_at is the DEFAULT           *)
(* CURRENT_TIMESTAMP of the orders table: the start time of the inserting  *)
(* transaction, which may be earlier than the commit of rows inserted      *)
(* before it.  A uuid compares as IdRank.  Items, loaded per order by     *)
(* GetByID after the page is read, are immutable and are not modelled.    *)
(***************************************************************************)
EXTENDS OrderIntake
LOCAL INSTANCE SequencesExt

CONSTANTS
    Listers,       \* concurrent clients walking ListOrders pages
    PageSizes,     \* pagination.page_size values a client may send
    FilterInputs,  \* status_filter values (proto statuses) a client may send
    IdRank,        \* the comparison order of the order uuids: OrderIds -> Nat
    MaxTime,       \* bound on the clock
    NoCursor,      \* model value: the empty cursor string
    NoFilter       \* model value: the empty OrderStatus (no filter)

VARIABLES
    createdAt,  \* orders.created_at of each inserted order
    clock,      \* CURRENT_TIMESTAMP
    lister      \* per client: [pc, filter, size, cursor, seen, expect]

listVars == <<createdAt, clock, lister>>
allVars == <<vars, listVars>>

ListerState == [pc : {"idle", "paging", "done", "failed"},
                filter : GoStatuses \cup {NoFilter}, size : Nat,
                cursor : OrderIds \cup {NoCursor},
                seen : Seq(OrderIds), expect : SUBSET OrderIds]

ListingTypeOK ==
    /\ TypeOK
    /\ createdAt \in [OrderIds -> 0..MaxTime]
    /\ clock \in 0..MaxTime
    /\ lister \in [Listers -> ListerState]

ListingInit ==
    /\ Init
    /\ createdAt = [o \in OrderIds |-> 0]
    /\ clock = 0
    /\ lister = [l \in Listers |-> [pc |-> "idle", filter |-> NoFilter, size |-> 0,
                                    cursor |-> NoCursor, seen |-> <<>>, expect |-> {}]]

-----------------------------------------------------------------------------
\* The (created_at, id) tuple that orders a row.
SortKey(o) == <<createdAt[o], IdRank[o]>>

\* Row tuple comparison (a, b) < (c, d).
TupleLess(x, y) == x[1] < y[1] \/ (x[1] = y[1] /\ x[2] < y[2])

\* WHERE user_id = $1 [AND status = $2]: the user's rows passing the filter.
Matches(o, f, ord) == ord[o] # Absent /\ (f = NoFilter \/ ord[o].status = f)

\* AND (created_at, id) < (SELECT created_at, id FROM orders WHERE id = c).
\* No row with id c makes the subquery NULL and the condition false.
Before(o, c) == orders[c] # Absent /\ TupleLess(SortKey(o), SortKey(c))

\* Mutant: LIMIT limit instead of limit + 1.
RepoListNoExtraRow(f, lim, cur) ==
    LET rows == {o \in OrderIds : Matches(o, f, orders) /\ (cur = NoCursor \/ Before(o, cur))}
        sorted == SetToSortSeq(rows, LAMBDA a, b : TupleLess(SortKey(b), SortKey(a)))
        fetched == SubSeq(sorted, 1, IF Len(sorted) < lim THEN Len(sorted) ELSE lim)
    IN IF Len(fetched) > lim
       THEN [page |-> SubSeq(fetched, 1, lim), next |-> fetched[lim]]
       ELSE [page |-> fetched, next |-> NoCursor]

(* OrderRepository.List: the rows after the cursor, newest first, LIMIT    *)
(* lim + 1; when the extra row came back the page is cut to lim rows and   *)
(* the next cursor is the id of its last row, else it is "".              *)
RepoList(f, lim, cur) ==
    LET rows == {o \in OrderIds : Matches(o, f, orders) /\ (cur = NoCursor \/ Before(o, cur))}
        sorted == SetToSortSeq(rows, LAMBDA a, b : TupleLess(SortKey(b), SortKey(a)))
        fetched == SubSeq(sorted, 1, IF Len(sorted) < lim + 1 THEN Len(sorted) ELSE lim + 1)
    IN IF Len(fetched) > lim
       THEN [page |-> SubSeq(fetched, 1, lim), next |-> fetched[lim]]
       ELSE [page |-> fetched, next |-> NoCursor]

\* ListOrders handler: page_size <= 0 becomes 20, above 100 becomes 100.
ClampPageSize(ps) == IF ps <= 0 THEN 20 ELSE IF ps > 100 THEN 100 ELSE ps

\* ListOrders handler: an UNSPECIFIED filter is no filter, any other goes
\* through toRepoStatus.
StatusFilter(sf) == IF sf = "UNSPECIFIED" THEN NoFilter ELSE toRepoStatus(sf)

\* AND status = $2 compares the order_status column with the filter: a
\* value outside the enum (StatusCancelled "canceled") fails the query.
FilterCasts(f) == f = NoFilter \/ f \in DbStatuses

(* OrderService.ListOrders: repo.List, then hasMore = nextCursor != "".   *)
(* The client keeps the page and calls again with the next cursor while    *)
(* has_more is true.  A failed query returns Internal: the walk ends.      *)
ListOrders(l) ==
    LET w == lister[l]
        res == RepoList(w.filter, w.size, w.cursor)
    IN /\ w.pc = "paging"
       /\ \/ /\ FilterCasts(w.filter)
             /\ lister' = [lister EXCEPT ![l].seen = w.seen \o res.page,
                                         ![l].cursor = res.next,
                                         ![l].pc = IF res.next = NoCursor THEN "done" ELSE "paging"]
          \/ /\ ~FilterCasts(w.filter)
             /\ lister' = [lister EXCEPT ![l].pc = "failed"]
       /\ UNCHANGED <<vars, createdAt, clock>>

(* The client's first call: it picks page_size and status_filter; the     *)
(* handler clamps and maps them.  expect records the orders that match the *)
(* filter when the walk starts; it only tracks the walk, the code keeps no *)
(* such state.                                                             *)
StartListing(l, ps, sf) ==
    /\ lister[l].pc = "idle"
    /\ lister' = [lister EXCEPT ![l] =
          [pc |-> "paging", filter |-> StatusFilter(sf), size |-> ClampPageSize(ps),
           cursor |-> NoCursor, seen |-> <<>>,
           expect |-> {o \in OrderIds : Matches(o, StatusFilter(sf), orders)}]]
    /\ UNCHANGED <<vars, createdAt, clock>>

(* The first call rejected before any query: an empty user_id is          *)
(* InvalidArgument, and a request with no pagination message dereferences *)
(* nil req.Pagination, a panic the recovery interceptor returns as        *)
(* Internal.  Either way the walk ends with an error.                      *)
StartListingRejected(l) ==
    /\ lister[l].pc = "idle"
    /\ lister' = [lister EXCEPT ![l].pc = "failed"]
    /\ UNCHANGED <<vars, createdAt, clock>>

\* An order that stops matching a walk's filter is no longer expected of it.
TrackFilter ==
    lister' = [l \in Listers |->
                 [lister[l] EXCEPT !.expect = {o \in @ : Matches(o, lister[l].filter, orders')}]]

(* CreateWithOutbox stamps the row with the start time of its transaction, *)
(* which began at or before now.                                           *)
CreateStamped(q) ==
    /\ CreateWithOutbox(q)
    /\ \E t \in 0..clock : createdAt' = [createdAt EXCEPT ![req'[q].order] = t]
    /\ TrackFilter
    /\ UNCHANGED clock

\* Every other step of order intake.
IntakeStep ==
    /\ \/ \E q \in Requests :
             \/ CreateOrderRejected(q) \/ IdemGet(q) \/ IdemGetError(q)
             \/ CreateWithOutboxFails(q)
             \/ IdemSet(q) \/ IdemSetSkipped(q)
       \/ \E a \in Updaters, o \in OrderIds, p \in StatusInputs : UpdateOrderStatusRpc(a, o, p)
       \/ \E a \in Updaters : UpdateOrderStatusReply(a)
       \/ \E a \in Admins, o \in OrderIds : CancelOrderRead(a, o)
       \/ \E a \in Admins : CancelOrderWrite(a)
    /\ TrackFilter
    /\ UNCHANGED <<createdAt, clock>>

Tick ==
    /\ clock < MaxTime
    /\ clock' = clock + 1
    /\ UNCHANGED <<vars, createdAt, lister>>

ListingNext ==
    \/ \E q \in Requests : CreateStamped(q)
    \/ IntakeStep
    \/ Tick
    \/ \E l \in Listers, ps \in PageSizes, sf \in FilterInputs : StartListing(l, ps, sf)
    \/ \E l \in Listers : ListOrders(l) \/ StartListingRejected(l)

ListingSpec == ListingInit /\ [][ListingNext]_allVars

-----------------------------------------------------------------------------
(* Properties.                                                             *)

(* A walk that has followed next_cursor until has_more was false returned  *)
(* every order that matched its filter when it started and still matches,  *)
(* whatever orders were created or changed between its calls.              *)
ListingComplete ==
    \A l \in Listers :
        lister[l].pc = "done" => lister[l].expect \subseteq ToSet(lister[l].seen)

=============================================================================
