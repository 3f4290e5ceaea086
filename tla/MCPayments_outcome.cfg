CONSTANTS
    y1 = y1  y2 = y2  c1 = c1  c2 = c2
    PaymentIds <- MCPaymentIds
    Confirmers <- MCConfirmers1
    MaxFailures = 1
SPECIFICATION Spec
\* Once no payment is pending there is nothing left to confirm.
CHECK_DEADLOCK FALSE
PROPERTY OutcomeRecorded
