------------------------------ MODULE Payments ------------------------------
(***************************************************************************)
(* Payment execution (C5): PaymentService.ConfirmPayment                   *)
(* (src/unnamed/part_006) driving the provider through the process-wide    *)
(* circuit breaker of NewPaymentService, composed with the CircuitBreaker  *)
(* module.                                                                 *)
(*                                                                         *)
(* ConfirmPayment runs as separate statements with no transaction:         *)
(* GetPayment; return if not pending; UPDATE status = processing (no       *)
(* guard); cb.Execute(ProcessPayment); then UPDATE status = succeeded or   *)
(* failed and, as a further statement, INSERT the payment_outbox row.      *)
(* Each is one step.  ProcessPayment runs in Execute's goroutine under the *)
(* caller's ctx, not the breaker's timeout context: when the timeout wins  *)
(* the select, the provider call goes on and may still charge; such calls *)
(* are "orphans".  A crash of the payments process stops every call and    *)
(* builds a new breaker on restart (New: closed, no failures); calls       *)
(* already at the provider are orphaned.                                   *)
(* The provider's answer is charged or declined; amounts, methods, error   *)
(* texts and transaction ids are left out.                                 *)
(***************************************************************************)
EXTENDS Naturals, FiniteSets

CONSTANTS
    PaymentIds,    \* payments rows created by CreatePayment (status pending)
    Confirmers,    \* concurrent ConfirmPayment calls
    MaxFailures    \* circuit breaker MaxFailures

VARIABLES
    pay,         \* payments.status per payment
    events,      \* payment_outbox rows: <<payment, event type>>
    charges,     \* per payment: charges the provider has made
    conf,        \* per ConfirmPayment call: [pc, pay, prov]
    orphans,     \* per payment: provider calls still running whose caller left
    cbState, cbFailures, cbElapsed, cbCall

cbVars == <<cbState, cbFailures, cbElapsed, cbCall>>
vars == <<pay, events, charges, conf, orphans, cbVars>>

CB == INSTANCE CircuitBreaker
        WITH Callers <- Confirmers, state <- cbState, failures <- cbFailures,
             resetElapsed <- cbElapsed, call <- cbCall,
             providerUp <- TRUE   \* the provider's health is per call here

Statuses == {"pending", "processing", "succeeded", "failed"}
Pcs == {"idle", "read", "attempt", "calling", "succeeding", "succ_event",
        "failing", "fail_event"}
NoPayment == "none"

TypeOK ==
    /\ pay \in [PaymentIds -> Statuses]
    /\ events \subseteq PaymentIds \X {"payment.succeeded", "payment.failed"}
    /\ charges \in [PaymentIds -> Nat]
    /\ conf \in [Confirmers -> [pc : Pcs, pay : PaymentIds \cup {NoPayment},
                                prov : {"none", "pending", "charged", "declined"}]]
    /\ orphans \in [PaymentIds -> Nat]
    /\ cbState \in CB!States /\ cbFailures \in 0..MaxFailures

IdleCall == [pc |-> "idle", pay |-> NoPayment, prov |-> "none"]

Init ==
    /\ pay = [p \in PaymentIds |-> "pending"]
    /\ events = {}
    /\ charges = [p \in PaymentIds |-> 0]
    /\ conf = [c \in Confirmers |-> IdleCall]
    /\ orphans = [p \in PaymentIds |-> 0]
    /\ cbState = "closed" /\ cbFailures = 0 /\ cbElapsed = FALSE
    /\ cbCall = [c \in Confirmers |-> "idle"]

Goto(c, pc) == conf' = [conf EXCEPT ![c].pc = pc]

\* GetPayment: the status column of the payment's row.
GetPayment(p) == pay[p]

\* updatePaymentStatus / ...WithError / ...WithTransaction: UPDATE payments
\* SET status WHERE id, with no condition on the current status.
UpdatePaymentStatus(c, s) == pay' = [pay EXCEPT ![conf[c].pay] = s]

\* publishEvent: INSERT a payment_outbox row for the call's payment.
PublishEvent(c, type) == events' = events \cup {<<conf[c].pay, type>>}

-----------------------------------------------------------------------------
(* GetPayment, then "if payment.Status != pending return": only a pending  *)
(* payment goes on; any other read returns at once, changing nothing.     *)
ConfirmRead(c, p) ==
    /\ conf[c].pc = "idle"
    /\ GetPayment(p) = "pending"
    /\ conf' = [conf EXCEPT ![c] = [pc |-> "read", pay |-> p, prov |-> "none"]]
    /\ UNCHANGED <<pay, events, charges, orphans, cbVars>>

(* updatePaymentStatus(processing): UPDATE ... WHERE id, whatever the     *)
(* status is now.                                                          *)
SetProcessing(c) ==
    /\ conf[c].pc = "read"
    /\ UpdatePaymentStatus(c, "processing")
    /\ Goto(c, "attempt")
    /\ UNCHANGED <<events, charges, orphans, cbVars>>

(* Execute: canAttempt lets the call through; fn calls ProcessPayment.     *)
ExecuteAdmitted(c) ==
    /\ conf[c].pc = "attempt"
    /\ CB!Admit(c)
    /\ conf' = [conf EXCEPT ![c].pc = "calling", ![c].prov = "pending"]
    /\ UNCHANGED <<pay, events, charges, orphans>>

(* Execute: the breaker is open and the reset timeout has not passed:      *)
(* ErrCircuitOpen, the provider is not called; ConfirmPayment takes its    *)
(* error path.                                                             *)
ExecuteRejected(c) ==
    /\ conf[c].pc = "attempt"
    /\ cbState = "open" /\ ~cbElapsed
    /\ Goto(c, "failing")
    /\ UNCHANGED <<pay, events, charges, orphans, cbVars>>

(* The provider answers the call of c: it charges or declines.            *)
ProviderAnswers(c) ==
    /\ conf[c].prov = "pending"
    /\ \E charged \in BOOLEAN :
          /\ conf' = [conf EXCEPT ![c].prov = IF charged THEN "charged" ELSE "declined"]
          /\ charges' = [charges EXCEPT ![conf[c].pay] = @ + (IF charged THEN 1 ELSE 0)]
    /\ UNCHANGED <<pay, events, orphans, cbVars>>

(* A provider call whose caller left answers: it charges or declines, and  *)
(* the result is dropped.                                                  *)
OrphanAnswers(p) ==
    /\ orphans[p] > 0
    /\ orphans' = [orphans EXCEPT ![p] = @ - 1]
    /\ \E charged \in BOOLEAN :
          charges' = [charges EXCEPT ![p] = @ + (IF charged THEN 1 ELSE 0)]
    /\ UNCHANGED <<pay, events, conf, cbVars>>

\* Mutant: the error fn returns is dropped; every answer counts as success.
ExecuteReturnsIgnoringError(c) ==
    /\ conf[c].pc = "calling"
    /\ conf[c].prov \in {"charged", "declined"}
    /\ CB!RecordSuccess
    /\ cbCall' = [cbCall EXCEPT ![c] = "idle"]
    /\ conf' = [conf EXCEPT ![c].pc = "succeeding", ![c].prov = "none"]
    /\ UNCHANGED <<pay, events, charges, orphans>>

(* Execute's select takes fn's result: recordSuccess or recordFailure.     *)
ExecuteReturns(c) ==
    /\ conf[c].pc = "calling"
    /\ conf[c].prov \in {"charged", "declined"}
    /\ IF conf[c].prov = "charged" THEN CB!RecordSuccess ELSE CB!RecordFailure
    /\ cbCall' = [cbCall EXCEPT ![c] = "idle"]
    /\ conf' = [conf EXCEPT ![c].pc = IF conf[c].prov = "charged"
                                      THEN "succeeding" ELSE "failing",
                            ![c].prov = "none"]
    /\ UNCHANGED <<pay, events, charges, orphans>>

(* Execute's select takes the timeout first: recordFailure and the error;  *)
(* ProcessPayment keeps running as an orphan.                              *)
ExecuteTimeout(c) ==
    /\ conf[c].pc = "calling"
    /\ conf[c].prov = "pending"
    /\ CB!RecordFailure
    /\ cbCall' = [cbCall EXCEPT ![c] = "idle"]
    /\ orphans' = [orphans EXCEPT ![conf[c].pay] = @ + 1]
    /\ conf' = [conf EXCEPT ![c].pc = "failing", ![c].prov = "none"]
    /\ UNCHANGED <<pay, events, charges>>

(* Error path: updatePaymentStatusWithError(failed), its error only        *)
(* logged, then publishEvent(payment.failed), its error only logged.       *)
SetFailed(c) ==
    /\ conf[c].pc = "failing"
    /\ UpdatePaymentStatus(c, "failed")
    /\ Goto(c, "fail_event")
    /\ UNCHANGED <<events, charges, orphans, cbVars>>

InsertFailedEvent(c) ==
    /\ conf[c].pc = "fail_event"
    /\ PublishEvent(c, "payment.failed")
    /\ conf' = [conf EXCEPT ![c] = IdleCall]
    /\ UNCHANGED <<pay, charges, orphans, cbVars>>

(* Success path: updatePaymentStatusWithTransaction(succeeded), then       *)
(* publishEvent(payment.succeeded).                                        *)
SetSucceeded(c) ==
    /\ conf[c].pc = "succeeding"
    /\ UpdatePaymentStatus(c, "succeeded")
    /\ Goto(c, "succ_event")
    /\ UNCHANGED <<events, charges, orphans, cbVars>>

InsertSucceededEvent(c) ==
    /\ conf[c].pc = "succ_event"
    /\ PublishEvent(c, "payment.succeeded")
    /\ conf' = [conf EXCEPT ![c] = IdleCall]
    /\ UNCHANGED <<pay, charges, orphans, cbVars>>

(* The payments process dies and restarts: every call in progress stops,  *)
(* those at the provider become orphans, and NewPaymentService builds a   *)
(* fresh breaker.                                                          *)
Crash ==
    /\ \E c \in Confirmers : conf[c].pc # "idle"
    /\ orphans' = [p \in PaymentIds |->
                     orphans[p] + Cardinality({c \in Confirmers :
                                               conf[c].pay = p /\ conf[c].prov = "pending"})]
    /\ conf' = [c \in Confirmers |-> IdleCall]
    /\ cbState' = "closed" /\ cbFailures' = 0 /\ cbElapsed' = FALSE
    /\ cbCall' = [c \in Confirmers |-> "idle"]
    /\ UNCHANGED <<pay, events, charges>>

(* Time passes beyond the breaker's lastAttempt + ResetTimeout.            *)
TimePasses ==
    /\ CB!Elapse
    /\ UNCHANGED <<pay, events, charges, conf, orphans>>

Next ==
    \/ \E c \in Confirmers, p \in PaymentIds : ConfirmRead(c, p)
    \/ \E c \in Confirmers :
          \/ SetProcessing(c) \/ ExecuteAdmitted(c) \/ ExecuteRejected(c)
          \/ ProviderAnswers(c) \/ ExecuteReturns(c) \/ ExecuteTimeout(c)
          \/ SetFailed(c) \/ InsertFailedEvent(c)
          \/ SetSucceeded(c) \/ InsertSucceededEvent(c)
    \/ \E p \in PaymentIds : OrphanAnswers(p)
    \/ Crash
    \/ TimePasses

(* A started call runs to its end unless the process dies, the provider   *)
(* answers, and time passes.                                               *)
Fairness ==
    /\ \A c \in Confirmers :
          WF_vars(SetProcessing(c) \/ ExecuteAdmitted(c) \/ ExecuteRejected(c)
                  \/ ProviderAnswers(c) \/ ExecuteReturns(c) \/ SetFailed(c)
                  \/ InsertFailedEvent(c) \/ SetSucceeded(c) \/ InsertSucceededEvent(c))
    /\ \A p \in PaymentIds : WF_vars(OrphanAnswers(p))
    /\ WF_vars(TimePasses)

Spec == Init /\ [][Next]_vars /\ Fairness

-----------------------------------------------------------------------------
(* Properties.                                                             *)

(* A payment is succeeded only if the provider charged for it: the        *)
(* success path is taken only on a nil error from Execute, whatever        *)
(* timeouts, rejections and crashes happen around it.                      *)
SucceededWasCharged == \A p \in PaymentIds : pay[p] = "succeeded" => charges[p] >= 1

(* Per-payment idempotency of execution (spec 4.5: "If not pending, return *)
(* it unchanged"): the provider charges a payment at most once, with       *)
(* several ConfirmPayment calls for it.                                    *)
AtMostOneCharge == \A p \in PaymentIds : charges[p] <= 1

(* A payment recorded failed was not charged (spec 4.5 step 5: the failure *)
(* is "the business outcome"), also when the breaker's timeout fired       *)
(* before the provider answered.                                           *)
FailedNotCharged == \A p \in PaymentIds : pay[p] = "failed" => charges[p] = 0

(* Every payment taken to processing eventually reaches succeeded or       *)
(* failed with its payment_outbox row (spec 4.5 steps 4, 5).               *)
OutcomeRecorded ==
    \A p \in PaymentIds :
        pay[p] = "processing" ~>
            \/ pay[p] = "succeeded" /\ <<p, "payment.succeeded">> \in events
            \/ pay[p] = "failed" /\ <<p, "payment.failed">> \in events

=============================================================================
