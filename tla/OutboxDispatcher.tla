-------------------------- MODULE OutboxDispatcher --------------------------
(***************************************************************************)
(* The outbox Dispatcher of the orders service (C3):                       *)
(* outbox.Publisher.Start / processEvents / publishEvent                   *)
(* (src/services/orders/internal/outbox/publisher.go), the repository's    *)
(* GetUnpublishedEvents and MarkEventPublished (src/unnamed/part_003) and  *)
(* pubsub Publisher.Publish (src/unnamed/part_008).  One Dispatcher runs   *)
(* in every orders-service process; several processes share the table.    *)
(*                                                                         *)
(* Each tick, processEvents reads up to BatchSize unpublished rows ordered *)
(* by created_at, then for each row in turn publishes it and, only if the  *)
(* publish returned no error, marks it published; an error on either call  *)
(* is logged and the loop continues with the next row.  Every call is one  *)
(* step.  Publish waits for result.Get: the broker may have taken the      *)
(* message and still report an error (deadline, lost ack).  A process may  *)
(* die at any point; on restart the loop starts again with no batch.       *)
(* Rows are committed by the order transactions (OrderIntake); here their  *)
(* commit is the environment action CommitRow, appending in commit order, *)
(* which the created_at order of crossed transactions may differ from.    *)
(* published_at is CURRENT_TIMESTAMP of the marking transaction: a later   *)
(* mark writes a different value, which is all "stamp" records.           *)
(*                                                                         *)
(* Downstream, the notification service (src/services/notification/cmd/   *)
(* server/main.go) receives the order.created topic through               *)
(* pubsub Subscriber.Subscribe (src/unnamed/part_008).  Subscribed is the  *)
(* rows of that event type; other topics have no subscription here.       *)
(***************************************************************************)
EXTENDS Naturals, Sequences

CONSTANTS
    EventIds,      \* outbox.id values (uuid) the order transactions write
    Dispatchers,   \* orders-service processes, each running a Dispatcher
    BatchSize,     \* the LIMIT of GetUnpublishedEvents (100 in the code)
    Subscribed     \* rows whose topic has a notification subscription

ASSUME BatchSize \in Nat \ {0}

VARIABLES
    rows,    \* outbox rows in created_at order: [id, published, stamp]
    disp,    \* per Dispatcher: [pc, batch] (batch: ids still to process)
    broker,        \* message_ids the broker accepted (resends of one id merge)
    subscription,  \* rows with a message outstanding (not acked) in its subscription
    callback,      \* per row: the notification Receive callback's step for its message
    notified       \* rows the notification handler has run for

consumerVars == <<subscription, callback, notified>>
vars == <<rows, disp, broker, consumerVars>>

\* generateMessageID: hex(SHA-256(outbox id)), one id per row.
MessageId(e) == <<"sha256", e>>

NoStamp == "null"
Row == [id : EventIds, published : BOOLEAN, stamp : {NoStamp, "t0", "t1"}]

TypeOK ==
    /\ rows \in Seq(Row)
    /\ disp \in [Dispatchers -> [pc : {"idle", "publish", "mark"},
                                 batch : Seq(EventIds)]]
    /\ broker \subseteq {MessageId(e) : e \in EventIds}
    /\ subscription \subseteq Subscribed
    /\ callback \in [Subscribed -> {"idle", "running", "handled"}]
    /\ notified \subseteq Subscribed

Init ==
    /\ rows = <<>>
    /\ disp = [d \in Dispatchers |-> [pc |-> "idle", batch |-> <<>>]]
    /\ broker = {}
    /\ subscription = {}
    /\ callback = [e \in Subscribed |-> "idle"]
    /\ notified = {}

Committed == {rows[i].id : i \in DOMAIN rows}
IndexOf(e) == CHOOSE i \in DOMAIN rows : rows[i].id = e

\* The broker takes the message of row e: Pub/Sub hands it to every
\* subscription of its topic.
BrokerAccepts(e) ==
    /\ broker' = broker \cup {MessageId(e)}
    /\ subscription' = IF e \in Subscribed THEN subscription \cup {e} ELSE subscription

\* Next step of the loop once the current row is done (or skipped).
NextRow(d) ==
    disp' = [disp EXCEPT ![d] =
               IF Len(disp[d].batch) = 1 THEN [pc |-> "idle", batch |-> <<>>]
               ELSE [pc |-> "publish", batch |-> Tail(disp[d].batch)]]

-----------------------------------------------------------------------------
(* An order transaction commits a new outbox row, published = false.      *)
CommitRow(e) ==
    /\ e \notin Committed
    /\ rows' = Append(rows, [id |-> e, published |-> FALSE, stamp |-> NoStamp])
    /\ UNCHANGED <<disp, broker, consumerVars>>

\* Mutant: the query without WHERE published = false.
PollRowsAll(d) ==
    LET unpublished == SelectSeq(rows, LAMBDA r : ~r.published)
        batch == SubSeq(rows, 1, IF Len(rows) < BatchSize THEN Len(rows) ELSE BatchSize)
    IN
    /\ disp[d].pc = "idle"
    /\ unpublished # <<>>
    /\ disp' = [disp EXCEPT ![d] = [pc |-> "publish",
                                    batch |-> [i \in DOMAIN batch |-> batch[i].id]]]
    /\ UNCHANGED <<rows, broker, consumerVars>>

(* A tick: GetUnpublishedEvents(BatchSize), WHERE published = false ORDER  *)
(* BY created_at LIMIT.  No rows: processEvents returns.                   *)
PollRows(d) ==
    LET unpublished == SelectSeq(rows, LAMBDA r : ~r.published)
        batch == SubSeq(unpublished, 1, IF Len(unpublished) < BatchSize
                                        THEN Len(unpublished) ELSE BatchSize)
    IN
    /\ disp[d].pc = "idle"
    /\ unpublished # <<>>
    /\ disp' = [disp EXCEPT ![d] = [pc |-> "publish",
                                    batch |-> [i \in DOMAIN batch |-> batch[i].id]]]
    /\ UNCHANGED <<rows, broker, consumerVars>>

(* publishEvent: Publish to the topic of the event type with the row's     *)
(* message_id, and result.Get returns the server's id: go on to mark.      *)
PublishOk(d) ==
    /\ disp[d].pc = "publish"
    /\ BrokerAccepts(Head(disp[d].batch))
    /\ disp' = [disp EXCEPT ![d].pc = "mark"]
    /\ UNCHANGED <<rows, callback, notified>>

\* Mutant: the publish error is logged without the continue.
PublishFailsNoContinue(d) ==
    /\ disp[d].pc = "publish"
    /\ \/ UNCHANGED <<broker, subscription>>
       \/ BrokerAccepts(Head(disp[d].batch))
    /\ disp' = [disp EXCEPT ![d].pc = "mark"]
    /\ UNCHANGED <<rows, callback, notified>>

(* Publish returns an error, logged, and the loop continues: either the    *)
(* broker never took the message (GetTopic or the publish failed) or it    *)
(* took it and the result was lost.                                        *)
PublishFails(d) ==
    /\ disp[d].pc = "publish"
    /\ \/ UNCHANGED <<broker, subscription>>
       \/ BrokerAccepts(Head(disp[d].batch))
    /\ NextRow(d)
    /\ UNCHANGED <<rows, callback, notified>>

(* MarkEventPublished: UPDATE outbox SET published = true, published_at =  *)
(* CURRENT_TIMESTAMP WHERE id = $1 (the row exists: one row affected).     *)
MarkEventPublished(d) ==
    LET i == IndexOf(Head(disp[d].batch)) IN
    /\ disp[d].pc = "mark"
    /\ rows' = [rows EXCEPT ![i] = [@ EXCEPT !.published = TRUE,
                                      !.stamp = IF @ = "t0" THEN "t1" ELSE "t0"]]
    /\ NextRow(d)
    /\ UNCHANGED <<broker, consumerVars>>

(* The UPDATE fails (database error): logged, the loop continues.          *)
MarkFails(d) ==
    /\ disp[d].pc = "mark"
    /\ NextRow(d)
    /\ UNCHANGED <<rows, broker, consumerVars>>

(* The process dies and restarts: the batch in memory is lost.             *)
Restart(d) ==
    /\ disp[d].pc # "idle"
    /\ disp' = [disp EXCEPT ![d] = [pc |-> "idle", batch |-> <<>>]]
    /\ UNCHANGED <<rows, broker, consumerVars>>

-----------------------------------------------------------------------------
(* The notification service: Subscriber.Subscribe's sub.Receive on        *)
(* order-created-sub runs handleOrderCreated for each message, and acks it *)
(* when the handler returns nil (it always does); an unacked message is    *)
(* redelivered after its ack deadline.                                     *)

(* Receive hands an outstanding message to the callback.                   *)
ReceiveMessage(e) ==
    /\ e \in subscription
    /\ callback[e] = "idle"
    /\ callback' = [callback EXCEPT ![e] = "running"]
    /\ UNCHANGED <<rows, disp, broker, subscription, notified>>

(* handleOrderCreated logs the notification and returns nil.               *)
HandleOrderCreated(e) ==
    /\ callback[e] = "running"
    /\ notified' = notified \cup {e}
    /\ callback' = [callback EXCEPT ![e] = "handled"]
    /\ UNCHANGED <<rows, disp, broker, subscription>>

(* msg.Ack(): the subscription drops the message ...                       *)
AckMessage(e) ==
    /\ callback[e] = "handled"
    /\ subscription' = subscription \ {e}
    /\ callback' = [callback EXCEPT ![e] = "idle"]
    /\ UNCHANGED <<rows, disp, broker, notified>>

(* ... or the ack is lost and the message comes again.                     *)
AckLost(e) ==
    /\ callback[e] = "handled"
    /\ callback' = [callback EXCEPT ![e] = "idle"]
    /\ UNCHANGED <<rows, disp, broker, subscription, notified>>

(* The notification process dies and run() subscribes again: callbacks in  *)
(* flight are gone, their messages were not acked.                         *)
NotificationRestart ==
    /\ \E e \in Subscribed : callback[e] # "idle"
    /\ callback' = [e \in Subscribed |-> "idle"]
    /\ UNCHANGED <<rows, disp, broker, subscription, notified>>

Next ==
    \/ \E e \in EventIds : CommitRow(e)
    \/ \E d \in Dispatchers :
          \/ PollRows(d) \/ PublishOk(d) \/ PublishFails(d)
          \/ MarkEventPublished(d) \/ MarkFails(d) \/ Restart(d)
    \/ \E e \in Subscribed :
          \/ ReceiveMessage(e) \/ HandleOrderCreated(e)
          \/ AckMessage(e) \/ AckLost(e)
    \/ NotificationRestart

(* The ticker fires every interval for as long as the process lives, and  *)
(* the broker and the database come back after a failure: a publish or a  *)
(* mark that keeps being tried eventually succeeds (spec 4.3: correctness  *)
(* depends on eventual success).  The consumer gets no fairness: main.go   *)
(* lets the Subscribe goroutine return on the first Receive error and      *)
(* nothing restarts it, and src/scripts/setup-gcp.sh names the             *)
(* subscription order.created-sub while main.go subscribes to              *)
(* order-created-sub: nothing in the code makes a notification happen.     *)
Fairness ==
    \A d \in Dispatchers :
        /\ WF_vars(PollRows(d))
        /\ SF_vars(PublishOk(d))
        /\ SF_vars(MarkEventPublished(d))

Spec == Init /\ [][Next]_vars /\ Fairness

-----------------------------------------------------------------------------
(* Properties.                                                             *)

PublishedIds == {rows[i].id : i \in {j \in DOMAIN rows : rows[j].published}}
SentIds == {e \in EventIds : MessageId(e) \in broker}

(* Transactional outbox (spec 8.2, 4.3): the Dispatchers implement         *)
(* OutboxDelivery.  Only committed rows are sent, a row is marked          *)
(* published only after a broker message with its deduplication id was    *)
(* accepted, and the flag is never cleared, under publish errors that may  *)
(* or may not have reached the broker, failed marks, restarts and several  *)
(* Dispatchers racing on the same rows.                                    *)
Delivery == INSTANCE OutboxDelivery
              WITH committed <- Committed, published <- PublishedIds, sent <- SentIds
ImplementsOutboxDelivery == Delivery!Spec

(* Every committed outbox row is eventually published (spec S6: "within    *)
(* one poll interval ... the row becomes published=true"), however many    *)
(* rows precede it and whatever errors and restarts occur.                 *)
EveryRowPublished ==
    \A e \in EventIds : e \in Committed ~> e \in PublishedIds

=============================================================================
