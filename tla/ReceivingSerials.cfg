SPECIFICATION Spec
CONSTANTS
    i1 = i1
    s1 = s1
    Null = Null
    Unreadable = Unreadable
    Item = {i1}
    Uom = {"EA"}
    Quantity = {2}
    Number = {}
    MaxLine = 0
    MaxGeneration = 0
    Receipt = {r1, r2}
    Tx = {t1, t2}
    Headers <- FreeHeaders
    Requests = {"add", "reconcile"}
    Arrivals <- UnitArrivals
    Serial = {s1}
    MaxArrival = 3
    Skew = FALSE
SYMMETRY Symmetry
INVARIANTS
    UnitsAccounted
    ExceptionsExact
