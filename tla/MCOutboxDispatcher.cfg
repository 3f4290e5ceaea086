CONSTANTS
    e1 = e1  e2 = e2  e3 = e3  d1 = d1  d2 = d2
    EventIds <- MCEventIds
    Dispatchers <- MCDispatchers
    BatchSize = 2
    Subscribed <- MCSubscribed
SPECIFICATION Spec
\* Once every row is published the Dispatchers' ticks find nothing to do.
CHECK_DEADLOCK FALSE
PROPERTY ImplementsOutboxDelivery
PROPERTY EveryRowPublished
