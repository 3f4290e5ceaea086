----------------------------- MODULE Inventory -----------------------------
(***************************************************************************)
(* The stock reservation engine of the inventory service                   *)
(* (src/services/inventory/cmd/server/main.go: InventoryService and the    *)
(* SQL schema with cleanup_expired_reservations appended to it).           *)
(*                                                                         *)
(* Granularity.  Every database transaction is one step, except where the  *)
(* code reads rows it does not lock and acts on them in a later statement: *)
(*   - updateReservationStatus (CommitStock / ReleaseStock) selects the    *)
(*     active rows of a reservation without FOR UPDATE, then updates       *)
(*     inventory and reservations: a read step and a write step;           *)
(*   - cleanup_expired_reservations iterates a cursor opened on the        *)
(*     reservations table, then updates: a scan step and a write step.     *)
(* The writes of one transaction are relative updates (x = x + q) of rows  *)
(* it locks until commit and a status update re-evaluated on the latest    *)
(* committed row, so the write statements and the commit form one step.    *)
(* A CHECK constraint (available >= 0, reserved >= 0) violated by any      *)
(* statement aborts the whole transaction: the Rollback actions.           *)
(*                                                                         *)
(* ReserveStock takes SELECT ... FOR UPDATE before its version-checked     *)
(* UPDATE and keeps the lock until commit: it is one step, and the version *)
(* check can never fail, so the version column is left out.                *)
(* reservations.reservation_id is UNIQUE: a reservation id has at most one *)
(* row, and a multi-item reservation fails on its second INSERT, so only   *)
(* single-item reservations ever commit.                                   *)
(***************************************************************************)
EXTENDS Integers, FiniteSets, FiniteSetsExt

CONSTANTS
    Products,       \* product ids with an inventory row
    ResIds,         \* reservation ids (order ids) callers may use
    Workers,        \* concurrent CommitStock / ReleaseStock callers
    Reapers,        \* inventory service replicas, each running the reaper
    Quantities,     \* quantities a caller may reserve
    InitialStock,   \* available = total of every product at start
    Deltas,         \* deltas AdjustInventory may be called with
    MaxTotal,       \* bound on total_quantity, caps AdjustInventory
    NoRow           \* model value: no reservations row for this id

ASSUME /\ Quantities \subseteq Nat \ {0}
       /\ InitialStock \in Nat /\ MaxTotal \in Nat
       /\ Deltas \subseteq Int

VARIABLES
    inventory,     \* product -> [available, reserved, total]
    reservations,  \* reservation id -> row [product, quantity, status] or NoRow
    expired,       \* reservation ids whose expires_at is before now
    worker,        \* state of each updateReservationStatus transaction
    reaper         \* state of each cleanup_expired_reservations call

vars == <<inventory, reservations, expired, worker, reaper>>

Status == {"active", "committed", "released"}
Row == [product : Products, quantity : Quantities, status : Status]
\* What updateReservationStatus selects: product_id, quantity of a row.
Item == [product : Products, quantity : Quantities]
\* What the reaper's cursor selects: reservation_id, product_id, quantity.
ExpiredRow == [rid : ResIds, product : Products, quantity : Quantities]

Idle == [op |-> "idle", rid |-> NoRow, items |-> {}]

TypeOK ==
    /\ inventory \in [Products -> [available : Int, reserved : Int, total : Int]]
    /\ reservations \in [ResIds -> Row \cup {NoRow}]
    /\ expired \subseteq ResIds
    /\ worker \in [Workers -> {Idle} \cup
                     [op : {"committed", "released"}, rid : ResIds,
                      items : SUBSET Item]]
    /\ reaper \in [Reapers -> [scanned : BOOLEAN, rows : SUBSET ExpiredRow]]

Init ==
    /\ inventory = [p \in Products |->
                      [available |-> InitialStock, reserved |-> 0,
                       total |-> InitialStock]]
    /\ reservations = [r \in ResIds |-> NoRow]
    /\ expired = {}
    /\ worker = [w \in Workers |-> Idle]
    /\ reaper = [a \in Reapers |-> [scanned |-> FALSE, rows |-> {}]]

\* The CHECK constraints of the inventory table.
RowValid(row) == row.available >= 0 /\ row.reserved >= 0

IsActive(r) == reservations[r] # NoRow /\ reservations[r].status = "active"

-----------------------------------------------------------------------------
(* ReserveStock(reservationID, [{p, q}], ttl): lock the row FOR UPDATE,    *)
(* check available >= q, move q from available to reserved, insert an      *)
(* active reservation row, commit.  Fails without effect if the id already *)
(* has a row (UNIQUE) or stock is short.                                   *)
ReserveStock(r, p, q) ==
    /\ reservations[r] = NoRow
    /\ inventory[p].available >= q
    /\ inventory' = [inventory EXCEPT ![p].available = @ - q,
                                      ![p].reserved = @ + q]
    /\ reservations' = [reservations EXCEPT
                          ![r] = [product |-> p, quantity |-> q, status |-> "active"]]
    /\ UNCHANGED <<expired, worker, reaper>>

(* Time passes beyond the expires_at of an active reservation.             *)
Expire(r) ==
    /\ IsActive(r)
    /\ r \notin expired
    /\ expired' = expired \cup {r}
    /\ UNCHANGED <<inventory, reservations, worker, reaper>>

(* AdjustInventory(p, delta): one upsert adding delta to available and     *)
(* total; the CHECK on available rejects a delta that would make it        *)
(* negative.                                                               *)
AdjustInventory(p, d) ==
    /\ inventory[p].available + d >= 0
    /\ inventory[p].total + d <= MaxTotal
    /\ inventory' = [inventory EXCEPT ![p].available = @ + d,
                                      ![p].total = @ + d]
    /\ UNCHANGED <<reservations, expired, worker, reaper>>

-----------------------------------------------------------------------------
(* updateReservationStatus, first statement: SELECT product_id, quantity   *)
(* FROM reservations WHERE reservation_id = r AND status = 'active', with  *)
(* no row lock.  No row: early return, nothing changes.                    *)
(* CommitStock and ReleaseStock call it with newStatus committed/released. *)
UpdateReservationStatusRead(w, r, newStatus) ==
    /\ worker[w] = Idle
    /\ IsActive(r)
    /\ worker' = [worker EXCEPT ![w] =
                    [op |-> newStatus, rid |-> r,
                     items |-> {[product |-> reservations[r].product,
                                 quantity |-> reservations[r].quantity]}]]
    /\ UNCHANGED <<inventory, reservations, expired, reaper>>

\* Mutant: CommitStock's updateFn forgetting total_quantity - q.
ApplyItemNoTotal(row, op, q) ==
    IF op = "committed"
    THEN [row EXCEPT !.reserved = @ - q]
    ELSE [row EXCEPT !.available = @ + q, !.reserved = @ - q]

\* The updateFn of CommitStock and ReleaseStock applied to one row.
ApplyItem(row, op, q) ==
    IF op = "committed"
    THEN [row EXCEPT !.reserved = @ - q, !.total = @ - q]
    ELSE [row EXCEPT !.available = @ + q, !.reserved = @ - q]

\* Quantity of the selected items on product p.
ItemQty(items, p) == MapThenSumSet(LAMBDA i : i.quantity, {i \in items : i.product = p})

\* Inventory after the updateFn statement for every selected item.
AfterUpdate(w) ==
    [p \in Products |-> ApplyItem(inventory[p], worker[w].op,
                                  ItemQty(worker[w].items, p))]

(* The remaining statements and commit: UPDATE inventory per item (no     *)
(* guard on the reservation), then UPDATE reservations SET status =        *)
(* newStatus WHERE reservation_id = r AND status = 'active' (zero rows is  *)
(* not an error), then COMMIT.                                             *)
UpdateReservationStatusCommit(w) ==
    /\ worker[w] # Idle
    /\ \A p \in Products : RowValid(AfterUpdate(w)[p])
    /\ inventory' = AfterUpdate(w)
    /\ reservations' = [r \in ResIds |->
                          IF r = worker[w].rid /\ IsActive(r)
                          THEN [reservations[r] EXCEPT !.status = worker[w].op]
                          ELSE reservations[r]]
    /\ worker' = [worker EXCEPT ![w] = Idle]
    /\ UNCHANGED <<expired, reaper>>

(* An inventory UPDATE violates a CHECK constraint: the transaction fails  *)
(* and rolls back.                                                         *)
UpdateReservationStatusRollback(w) ==
    /\ worker[w] # Idle
    /\ ~ \A p \in Products : RowValid(AfterUpdate(w)[p])
    /\ worker' = [worker EXCEPT ![w] = Idle]
    /\ UNCHANGED <<inventory, reservations, expired, reaper>>

-----------------------------------------------------------------------------
(* cleanup_expired_reservations(), run by each replica's 1-minute ticker:  *)
(* the FOR loop opens a cursor on the active reservations with expires_at  *)
(* < now.  No such row: the function does nothing.                        *)
CleanupScan(a) ==
    /\ ~ reaper[a].scanned
    /\ \E r \in ResIds : IsActive(r) /\ r \in expired
    /\ reaper' = [reaper EXCEPT ![a] =
                    [scanned |-> TRUE,
                     rows |-> {[rid |-> r, product |-> reservations[r].product,
                                quantity |-> reservations[r].quantity] :
                               r \in {x \in ResIds : IsActive(x) /\ x \in expired}}]]
    /\ UNCHANGED <<inventory, reservations, expired, worker>>

ReapQty(rows, p) == MapThenSumSet(LAMBDA e : e.quantity, {e \in rows : e.product = p})

AfterReap(a) ==
    [p \in Products |->
        [inventory[p] EXCEPT !.available = @ + ReapQty(reaper[a].rows, p),
                             !.reserved = @ - ReapQty(reaper[a].rows, p)]]

(* The loop body for every cursor row: return quantity to available, take  *)
(* it from reserved, then UPDATE reservations SET status = 'released'      *)
(* WHERE reservation_id = r (whatever its status now); the function runs   *)
(* in the caller's single transaction, committed at the end.               *)
CleanupApply(a) ==
    /\ reaper[a].scanned
    /\ \A p \in Products : RowValid(AfterReap(a)[p])
    /\ inventory' = AfterReap(a)
    /\ reservations' = [r \in ResIds |->
                          IF r \in {e.rid : e \in reaper[a].rows}
                          THEN [reservations[r] EXCEPT !.status = "released"]
                          ELSE reservations[r]]
    /\ reaper' = [reaper EXCEPT ![a] = [scanned |-> FALSE, rows |-> {}]]
    /\ UNCHANGED <<expired, worker>>

(* A CHECK violation in any loop iteration aborts the whole function call; *)
(* CleanupExpiredReservations logs the error and the next tick retries.   *)
CleanupRollback(a) ==
    /\ reaper[a].scanned
    /\ ~ \A p \in Products : RowValid(AfterReap(a)[p])
    /\ reaper' = [reaper EXCEPT ![a] = [scanned |-> FALSE, rows |-> {}]]
    /\ UNCHANGED <<inventory, reservations, expired, worker>>

-----------------------------------------------------------------------------
Next ==
    \/ \E r \in ResIds, p \in Products, q \in Quantities : ReserveStock(r, p, q)
    \/ \E r \in ResIds : Expire(r)
    \/ \E p \in Products, d \in Deltas : AdjustInventory(p, d)
    \/ \E w \in Workers, r \in ResIds :
           \/ UpdateReservationStatusRead(w, r, "committed")   \* CommitStock
           \/ UpdateReservationStatusRead(w, r, "released")    \* ReleaseStock
    \/ \E w \in Workers : UpdateReservationStatusCommit(w) \/ UpdateReservationStatusRollback(w)
    \/ \E a \in Reapers : CleanupScan(a) \/ CleanupApply(a) \/ CleanupRollback(a)

\* The ticker runs the reaper every minute for as long as the process lives;
\* a transaction that has started its writes finishes (commit or rollback).
Fairness ==
    /\ \A a \in Reapers : WF_vars(CleanupScan(a))
                        /\ WF_vars(CleanupApply(a) \/ CleanupRollback(a))
    /\ \A w \in Workers :
           WF_vars(UpdateReservationStatusCommit(w) \/ UpdateReservationStatusRollback(w))

Spec == Init /\ [][Next]_vars /\ Fairness

-----------------------------------------------------------------------------
(* Properties.                                                             *)

(* Inventory conservation (spec 8.4): for every product available +       *)
(* reserved = total at all times, under concurrent ReserveStock,           *)
(* CommitStock, ReleaseStock, AdjustInventory and the reaper.              *)
StockConserved ==
    \A p \in Products :
        inventory[p].available + inventory[p].reserved = inventory[p].total

(* Reservation TTL (spec 8.6, S4): a reservation that expires while still *)
(* active is, within a reaper period, no longer active: the per-replica   *)
(* ticker's cleanup_expired_reservations releases it, unless a CommitStock *)
(* or ReleaseStock got there first.                                        *)
ExpiredReservationReleased ==
    \A r \in ResIds : (IsActive(r) /\ r \in expired) ~> ~IsActive(r)

=============================================================================
