---------------------------- MODULE OrderIntake ----------------------------
(***************************************************************************)
(* Order intake with the idempotency store (C1, C2): OrderService.         *)
(* CreateOrder, UpdateOrderStatus and CancelOrder                          *)
(* (src/services/orders/internal/service/order_service.go), the order      *)
(* repository (src/unnamed/part_003), the idempotency Store                *)
(* (src/unnamed/part_007) and the status mapping of the gRPC server        *)
(* (src/services/orders/internal/outbox/publisher.go, toRepoStatus).       *)
(*                                                                         *)
(* A CreateOrder request is three steps, each one call to Redis or one     *)
(* database transaction: idempotency Get, CreateWithOutbox, idempotency    *)
(* Set.  CancelOrder is two: GetByID, then UpdateStatus.  UpdateStatus is  *)
(* one transaction writing the status and one outbox row.                  *)
(* Order ids are uuid.New(): a fresh model value.  The outbox is the       *)
(* sequence of rows in commit order; only (aggregate, event type) is kept. *)
(* created_at, the order the dispatcher reads, is the start time of the    *)
(* inserting transaction, so two crossed UpdateStatus transactions of one  *)
(* order commit in one order and sort in the other: the model does not    *)
(* keep created_at, and no property here speaks of outbox order.           *)
(* An event type "order.<s>" is the pair <<"order", s>>.                   *)
(* A JSON value is kept as its kind (string or object): that is all        *)
(* json.Unmarshal into a struct tells apart here.                          *)
(***************************************************************************)
EXTENDS Naturals, Sequences, FiniteSets

CONSTANTS
    Keys,          \* GenerateKey(user, "create_order", key) of the requests
    Requests,      \* concurrent CreateOrder calls
    OrderIds,      \* uuids CreateWithOutbox may draw
    Admins,        \* concurrent CancelOrder callers
    Updaters,      \* concurrent UpdateOrderStatus RPC callers
    StatusInputs,  \* proto statuses an UpdateOrderStatus call may carry
    MaxEvents,     \* bound on outbox rows
    Absent,        \* model value: no Redis entry / no order row
    NoOrder        \* model value: a request that has not created an order

VARIABLES
    idem,       \* Redis: key -> JSON kind of the cached Result.Body, or Absent
    orders,     \* orders table: id -> [key, status] or Absent
    outbox,     \* outbox rows in commit order: [aggregate, type]
    req,        \* CreateOrder calls: [pc, key, order, result]
    canceller,  \* CancelOrder calls: [pc, order, seen, result]
    updater     \* UpdateOrderStatus RPCs: [pc, order, asked, row, resp]

vars == <<idem, orders, outbox, req, canceller, updater>>

\* The order_status enum of the orders table (migration 000001).
DbStatuses == {"pending", "confirmed", "paid", "processing", "shipped",
               "delivered", "cancelled", "refunded"}

\* The OrderStatus constants of the repository; StatusCancelled is "canceled".
StatusPending == "pending"
StatusDelivered == "delivered"
StatusCancelled == "canceled"
GoStatuses == (DbStatuses \ {"cancelled"}) \cup {StatusCancelled}

\* toRepoStatus: ORDER_STATUS_<S> maps to the constant of the same name,
\* anything else (UNSPECIFIED) to StatusPending.
ProtoStatuses == {"PENDING", "CONFIRMED", "PAID", "PROCESSING", "SHIPPED",
                  "DELIVERED", "CANCELED", "REFUNDED", "UNSPECIFIED"}
toRepoStatus(p) ==
    CASE p = "PENDING"    -> "pending"
      [] p = "CONFIRMED"  -> "confirmed"
      [] p = "PAID"       -> "paid"
      [] p = "PROCESSING" -> "processing"
      [] p = "SHIPPED"    -> "shipped"
      [] p = "DELIVERED"  -> StatusDelivered
      [] p = "CANCELED"   -> StatusCancelled
      [] p = "REFUNDED"   -> "refunded"
      [] OTHER            -> StatusPending

EventType(s) == <<"order", s>>
Created == EventType("created")

\* json.Marshal of a Go value: a []byte becomes a base64 JSON string, an
\* Order struct a JSON object.  json.Unmarshal into an Order accepts only
\* an object.
MarshalJSON(goType) == IF goType = "bytes" THEN "string" ELSE "object"
UnmarshalsToOrder(kind) == kind = "object"

Row == [key : Keys, status : DbStatuses]
Event == [aggregate : OrderIds, type : {Created} \cup {EventType(s) : s \in GoStatuses}]
ReqState == [pc : {"idle", "miss", "created", "done"}, key : Keys,
             order : OrderIds \cup {NoOrder},
             result : {"none", "created", "replayed", "replay_error", "create_error",
                       "invalid_argument", "internal"}]
CancelState == [pc : {"idle", "read", "done"}, order : OrderIds \cup {NoOrder},
                seen : DbStatuses \cup {Absent},
                result : {"none", "ok", "rejected", "failed"}]
UpdaterState == [pc : {"idle", "wrote", "done"}, order : OrderIds \cup {NoOrder},
                 asked : ProtoStatuses, row : 0..MaxEvents,
                 resp : ProtoStatuses \cup {"none", "internal"}]

TypeOK ==
    /\ idem \in [Keys -> {"string", "object", Absent}]
    /\ orders \in [OrderIds -> Row \cup {Absent}]
    /\ outbox \in Seq(Event) /\ Len(outbox) <= MaxEvents
    /\ req \in [Requests -> ReqState]
    /\ canceller \in [Admins -> CancelState]
    /\ updater \in [Updaters -> UpdaterState]

Init ==
    /\ idem = [k \in Keys |-> Absent]
    /\ orders = [o \in OrderIds |-> Absent]
    /\ outbox = <<>>
    /\ req \in [Requests -> {[pc |-> "idle", key |-> k, order |-> NoOrder,
                             result |-> "none"] : k \in Keys}]
    /\ canceller = [a \in Admins |-> [pc |-> "idle", order |-> NoOrder,
                                      seen |-> Absent, result |-> "none"]]
    /\ updater = [a \in Updaters |-> [pc |-> "idle", order |-> NoOrder, asked |-> "UNSPECIFIED",
                                    row |-> 0, resp |-> "none"]]

-----------------------------------------------------------------------------
\* A request without idempotency_key, user_id or items, or with no
\* shipping_address message at all.
BadInputs == {"no_key", "no_user", "no_items", "no_address"}

\* RecoveryInterceptor: a panic in the handler is logged and returned as
\* codes.Internal.
RecoveryInterceptor == "internal"

(* Server.CreateOrder before the service call: an empty idempotency_key,   *)
(* user_id or item list is InvalidArgument; a nil shipping_address is      *)
(* dereferenced while building the service request, and the panic reaches  *)
(* RecoveryInterceptor.  Neither touches Redis or the database.           *)
CreateOrderRejected(q) ==
    /\ req[q].pc = "idle"
    /\ \E bad \in BadInputs :
          req' = [req EXCEPT ![q].pc = "done",
                    ![q].result = IF bad = "no_address" THEN RecoveryInterceptor
                                  ELSE "invalid_argument"]
    /\ UNCHANGED <<idem, orders, outbox, canceller, updater>>

(* CreateOrder, step 1: idempotency Get.  A Redis error is logged and      *)
(* treated as a miss (fail-open).  On a hit the cached Result.Body is      *)
(* unmarshalled into an Order; failure returns an error to the caller.     *)
IdemGet(q) ==
    LET k == req[q].key IN
    /\ req[q].pc = "idle"
    /\ \/ /\ idem[k] # Absent
          /\ req' = [req EXCEPT ![q].pc = "done",
                       ![q].result = IF UnmarshalsToOrder(idem[k])
                                     THEN "replayed" ELSE "replay_error"]
       \/ /\ idem[k] = Absent
          /\ req' = [req EXCEPT ![q].pc = "miss"]
    /\ UNCHANGED <<idem, orders, outbox, canceller, updater>>

(* Redis unreachable on Get: logged, and the request goes on as a miss.    *)
IdemGetError(q) ==
    /\ req[q].pc = "idle"
    /\ idem[req[q].key] # Absent
    /\ req' = [req EXCEPT ![q].pc = "miss"]
    /\ UNCHANGED <<idem, orders, outbox, canceller, updater>>

(* CreateOrder, step 2: CreateWithOutbox, one transaction inserting the    *)
(* order (status pending, fresh uuid), its items and an order.created      *)
(* outbox row.  A failed statement or commit rolls everything back.       *)
CreateWithOutbox(q) ==
    /\ req[q].pc = "miss"
    /\ Len(outbox) < MaxEvents
    /\ \E o \in OrderIds :
          /\ orders[o] = Absent
          /\ orders' = [orders EXCEPT ![o] = [key |-> req[q].key, status |-> StatusPending]]
          /\ outbox' = Append(outbox, [aggregate |-> o, type |-> Created])
          /\ req' = [req EXCEPT ![q].pc = "created", ![q].order = o]
    /\ UNCHANGED <<idem, canceller, updater>>

CreateWithOutboxFails(q) ==
    /\ req[q].pc = "miss"
    /\ req' = [req EXCEPT ![q].pc = "done", ![q].result = "create_error"]
    /\ UNCHANGED <<idem, orders, outbox, canceller, updater>>

(* CreateOrder, step 3: idempotency Set(key, 200, orderJSON) with the      *)
(* []byte of json.Marshal(order) as body; Set marshals it again into       *)
(* Result.Body.  A Redis error, or the process dying before this call, is  *)
(* IdemSetSkipped: the order stays without a cached result.                *)
IdemSet(q) ==
    /\ req[q].pc = "created"
    /\ idem' = [idem EXCEPT ![req[q].key] = MarshalJSON("bytes")]
    /\ req' = [req EXCEPT ![q].pc = "done", ![q].result = "created"]
    /\ UNCHANGED <<orders, outbox, canceller, updater>>

IdemSetSkipped(q) ==
    /\ req[q].pc = "created"
    /\ req' = [req EXCEPT ![q].pc = "done", ![q].result = "created"]
    /\ UNCHANGED <<idem, orders, outbox, canceller, updater>>

-----------------------------------------------------------------------------
(* OrderRepository.UpdateStatus(o, s, event): UPDATE orders SET status;    *)
(* zero rows is "order not found"; a value outside the enum fails the      *)
(* cast; otherwise the outbox row is inserted and the transaction commits. *)
\* Mutant: the status value reaches the row without the order_status cast.
UpdateStatusOkNoCast(o, s) == orders[o] # Absent

UpdateStatusOk(o, s) == orders[o] # Absent /\ s \in DbStatuses

UpdateStatus(o, s) ==
    /\ Len(outbox) < MaxEvents
    /\ orders' = IF UpdateStatusOk(o, s)
                 THEN [orders EXCEPT ![o].status = s] ELSE orders
    /\ outbox' = IF UpdateStatusOk(o, s)
                 THEN Append(outbox, [aggregate |-> o, type |-> EventType(s)])
                 ELSE outbox

(* OrderService.UpdateOrderStatus(o, s): UpdateStatus with an            *)
(* "order.<s>" event; no check of the current status.                      *)
UpdateOrderStatus(o, s) == UpdateStatus(o, s)

\* The reply of an RPC that has returned: the proto status, or Internal.
Replied(r) == [pc |-> "done", order |-> NoOrder, asked |-> "UNSPECIFIED", row |-> 0, resp |-> r]

(* Server.UpdateOrderStatus (admin RPC), step 1: toRepoStatus, then the    *)
(* service call.  Its error (no such order, failed cast) is returned as    *)
(* Internal.  On success the RPC goes on to a separate GetOrder; row is    *)
(* the index of its own outbox row.                                        *)
UpdateOrderStatusRpc(u, o, p) ==
    LET s == toRepoStatus(p) IN
    /\ updater[u].pc = "idle"
    /\ UpdateOrderStatus(o, s)
    /\ updater' = [updater EXCEPT ![u] =
          IF UpdateStatusOk(o, s)
          THEN [pc |-> "wrote", order |-> o, asked |-> p, row |-> Len(outbox'), resp |-> "none"]
          ELSE Replied("internal")]
    /\ UNCHANGED <<idem, req, canceller>>

\* OrderRepository.GetByID: the order row, or nil (Absent) when none.
GetByID(o) == orders[o]

\* OrderService.GetOrder: GetByID, "order not found" when there is no row.
GetOrder(o) == GetByID(o)

\* Mutant: the StatusConfirmed case left out of the switch.
toProtoStatusNoConfirmed(s) ==
    CASE s = "pending"       -> "PENDING"
      [] s = "paid"          -> "PAID"
      [] s = "processing"    -> "PROCESSING"
      [] s = "shipped"       -> "SHIPPED"
      [] s = StatusDelivered -> "DELIVERED"
      [] s = StatusCancelled -> "CANCELED"
      [] s = "refunded"      -> "REFUNDED"
      [] OTHER               -> "UNSPECIFIED"

\* toProtoStatus: each repository status to ORDER_STATUS_<S>, anything else
\* (the enum's "cancelled") to UNSPECIFIED.
toProtoStatus(s) ==
    CASE s = "pending"       -> "PENDING"
      [] s = "confirmed"     -> "CONFIRMED"
      [] s = "paid"          -> "PAID"
      [] s = "processing"    -> "PROCESSING"
      [] s = "shipped"       -> "SHIPPED"
      [] s = StatusDelivered -> "DELIVERED"
      [] s = StatusCancelled -> "CANCELED"
      [] s = "refunded"      -> "REFUNDED"
      [] OTHER               -> "UNSPECIFIED"

\* toProtoOrder: of the fields copied into the reply only status matters here.
toProtoOrder(row) == toProtoStatus(row.status)

(* Server.UpdateOrderStatus, step 2: GetOrder in its own query, the order  *)
(* as it is now, converted by toProtoOrder; a failed query is Internal.    *)
UpdateOrderStatusReply(u) ==
    /\ updater[u].pc = "wrote"
    /\ \/ updater' = [updater EXCEPT ![u] = Replied(toProtoOrder(GetOrder(updater[u].order)))]
       \/ updater' = [updater EXCEPT ![u] = Replied("internal")]
    /\ UNCHANGED <<idem, orders, outbox, req, canceller>>

(* CancelOrder, step 1: GetByID; no row returns "order not found".         *)
CancelOrderRead(a, o) ==
    /\ canceller[a].pc = "idle"
    /\ GetByID(o) # Absent
    /\ canceller' = [canceller EXCEPT ![a] = [pc |-> "read", order |-> o,
                                              seen |-> GetByID(o).status,
                                              result |-> "none"]]
    /\ UNCHANGED <<idem, orders, outbox, req, updater>>

(* CancelOrder, step 2: refuse delivered or StatusCancelled as read, else  *)
(* UpdateStatus(o, StatusCancelled) with an order.canceled event.          *)
CancelOrderWrite(a) ==
    LET o == canceller[a].order IN
    /\ canceller[a].pc = "read"
    /\ \/ /\ canceller[a].seen \in {StatusDelivered, StatusCancelled}
          /\ canceller' = [canceller EXCEPT ![a].pc = "done", ![a].result = "rejected"]
          /\ UNCHANGED <<orders, outbox>>
       \/ /\ canceller[a].seen \notin {StatusDelivered, StatusCancelled}
          /\ UpdateStatus(o, StatusCancelled)
          /\ canceller' = [canceller EXCEPT ![a].pc = "done",
                             ![a].result = IF UpdateStatusOk(o, StatusCancelled)
                                           THEN "ok" ELSE "failed"]
    /\ UNCHANGED <<idem, req, updater>>

Next ==
    \/ \E q \in Requests :
          \/ CreateOrderRejected(q) \/ IdemGet(q) \/ IdemGetError(q)
          \/ CreateWithOutbox(q) \/ CreateWithOutboxFails(q)
          \/ IdemSet(q) \/ IdemSetSkipped(q)
    \/ \E a \in Updaters, o \in OrderIds, p \in StatusInputs : UpdateOrderStatusRpc(a, o, p)
    \/ \E a \in Updaters : UpdateOrderStatusReply(a)
    \/ \E a \in Admins, o \in OrderIds : CancelOrderRead(a, o)
    \/ \E a \in Admins : CancelOrderWrite(a)

Spec == Init /\ [][Next]_vars

-----------------------------------------------------------------------------
(* Properties.                                                             *)

\* Ids of the orders created under idempotency key k.
OrdersOf(k) == {o \in OrderIds : orders[o] # Absent /\ orders[o].key = k}

(* Idempotency (spec 8.1, S2): the CreateOrder calls of one idempotency    *)
(* key produce at most one order row, however the Redis Get, the           *)
(* CreateWithOutbox transaction and the Redis Set of concurrent or retried *)
(* calls interleave.                                                       *)
AtMostOneOrderPerKey == \A k \in Keys : Cardinality(OrdersOf(k)) <= 1

\* The status a client asks for, as the reply names it: UNSPECIFIED is
\* documented as read as PENDING.
Requested(p) == IF p = "UNSPECIFIED" THEN "PENDING" ELSE p

(* UpdateOrderStatus replies with the order it wrote (spec 4.2): a reply   *)
(* that is not an error carries the status the admin asked for, unless     *)
(* another status write to that order committed between the RPC's         *)
(* UpdateStatus transaction and its trailing GetOrder query.               *)
UpdateReplyShowsWrite ==
    [][\A u \in Updaters :
         (updater[u].pc = "wrote" /\ updater'[u].resp \in ProtoStatuses) =>
            \/ updater'[u].resp = Requested(updater[u].asked)
            \/ \E i \in updater[u].row + 1 .. Len(outbox) :
                  outbox[i].aggregate = updater[u].order]_vars

=============================================================================
