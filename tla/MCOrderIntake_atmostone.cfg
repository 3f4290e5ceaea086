CONSTANTS
    k1 = k1  q1 = q1  q2 = q2  o1 = o1  o2 = o2  c1 = c1
    u1 = u1
    Absent = Absent
    NoOrder = NoOrder
    Keys <- MCKeys
    Requests <- MCRequests
    OrderIds <- MCOrderIds
    Admins <- MCAdmins
    Updaters <- MCUpdaters
    StatusInputs <- MCStatusInputs
    MaxEvents = 4
SPECIFICATION Spec
\* Every call finishes: the model's callers stop once done.
CHECK_DEADLOCK FALSE
INVARIANT AtMostOneOrderPerKey
