CONSTANTS
    k1 = k1  q1 = q1  q2 = q2
    o1 = o1  o2 = o2  c1 = c1  l1 = l1
    u1 = u1  u2 = u2
    Absent = Absent
    NoOrder = NoOrder
    NoCursor = NoCursor
    NoFilter = NoFilter
    Keys <- MCKeys
    Requests <- MCRequests
    OrderIds <- MCOrderIds
    Admins <- MCAdmins
    Updaters <- MCUpdaters
    Listers <- MCListers
    StatusInputs <- MCStatusInputs
    PageSizes <- MCPageSizes
    FilterInputs <- MCFilterInputs
    IdRank <- MCIdRank
    MaxEvents = 4
    MaxTime = 1
SPECIFICATION ListingSpec
SYMMETRY MCSymmetry
\* Every call finishes: the model's callers stop once done.
CHECK_DEADLOCK FALSE
INVARIANT ListingTypeOK
INVARIANT ListingComplete
PROPERTY UpdateReplyShowsWrite
