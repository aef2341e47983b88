SPECIFICATION Spec
CONSTANTS
    i1 = i1
    s1 = s1
    Null = Null
    Unreadable = Unreadable
    Item = {i1}
    Uom = {"EA"}
    Quantity = {2}
    Number = {}
    MaxLine = 0
    MaxGeneration = 0
    Receipt = {r1}
    Tx = {t1, t2}
    Headers <- FreeHeaders
    Requests = {"scan"}
    Arrivals <- OneArrival
    Serial = {s1}
    MaxArrival = 2
    Skew = TRUE

INVARIANT
    ScanNamesItsLine
