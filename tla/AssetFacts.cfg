SPECIFICATION Spec
CONSTANTS
    Location = {l1, l2}
    Party = {p1}
    Assignee = {w1, w2}
    Attachment = {e1}
    Request = {r1}
    Null = Null
    Foreign = Foreign
    MaxVersion = 6
    Guesses = {}
    Exercised = {"location", "assignment"}
SYMMETRY Symmetry
INVARIANTS
    ProjectionsFollowHistory
    EffectiveChain
PROPERTY
    ImplementsLedger
