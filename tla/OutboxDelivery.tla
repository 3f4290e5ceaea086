--------------------------- MODULE OutboxDelivery ---------------------------
(***************************************************************************)
(* What the transactional outbox promises (spec 3 OutboxEvent, 4.3, 8.2):  *)
(* committed rows are sent to the broker, possibly more than once, always  *)
(* under the deduplication id of the row; a row is flagged published only  *)
(* after a message for it was sent, and the flag is never cleared.         *)
(***************************************************************************)
EXTENDS FiniteSets

CONSTANTS EventIds

VARIABLES
    committed,   \* ids of the outbox rows committed so far
    published,   \* ids of the rows whose published flag is true
    sent         \* ids of the rows a broker message was sent for

Init == committed = {} /\ published = {} /\ sent = {}

Commit(e) ==
    /\ e \notin committed
    /\ committed' = committed \cup {e}
    /\ UNCHANGED <<published, sent>>

Send(e) ==
    /\ e \in committed
    /\ sent' = sent \cup {e}
    /\ UNCHANGED <<committed, published>>

MarkPublished(e) ==
    /\ e \in sent \ published
    /\ published' = published \cup {e}
    /\ UNCHANGED <<committed, sent>>

Next == \E e \in EventIds : Commit(e) \/ Send(e) \/ MarkPublished(e)

Spec == Init /\ [][Next]_<<committed, published, sent>>
=============================================================================
