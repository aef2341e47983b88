SPECIFICATION MCSpec
CONSTANTS
    i1 = i1
    s1 = s1
    s2 = s2
    a1 = a1
    a2 = a2
    Null = Null
    Unreadable = Unreadable
    Receipt = Receipt
    Item = {i1}
    Identifiers <- Holding
    Uom = {"EA", "M"}
    Quantity = {1, 2}
    Number = {1, 2}
    MaxLine = 3
    MaxGeneration = 1
    Captured <- MCCaptured
    Orders <- MCOrders
    Changes <- MCChanges
    Correctors = {t1}
    Latecomers = {t2}
    Reviewers = {t3}
    MaxEvaluation = 3
    MaxException = 10
SYMMETRY Symmetry
INVARIANTS
    CorrectionsTypeOK
    SupportExact
    OpenMeansLive
    CorrectionCommits
    NoCircularWait
PROPERTY
    ImplementsStatus
