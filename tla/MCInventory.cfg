CONSTANTS
    p1 = p1  r1 = r1  r2 = r2  r3 = r3
    w1 = w1  w2 = w2  a1 = a1
    NoRow = NoRow
    Products <- MCProducts
    ResIds <- MCResIds
    Workers <- MCWorkers
    Reapers <- MCReapers
    Quantities = {1, 2}
    InitialStock = 3
    Deltas <- MCDeltas
    MaxTotal = 4
SPECIFICATION Spec
INVARIANT StockConserved
