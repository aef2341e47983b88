SPECIFICATION Spec
CONSTANTS
    i1 = i1
    s1 = s1
    Null = Null
    Unreadable = Unreadable
    Item = {i1}
    Uom = {"EA", "M"}
    Quantity = {2}
    Number = {1}
    MaxLine = 2
    MaxGeneration = 1
    Receipt = {r1}
    Tx = {t1, t2}
    Headers <- OrderHeaders
    Requests = {"add", "scan", "reconcile"}
    Arrivals <- BulkArrivals
    Serial = {s1}
    MaxArrival = 2
    Skew = FALSE
SYMMETRY Symmetry
INVARIANTS
    ReceivingTypeOK
    ExpectationsFrozen
    ExceptionsExact
    ReceivingCommits
PROPERTY
    SealedForever
