SPECIFICATION Spec
CONSTANTS
    Location = {l1}
    Party = {p1}
    Assignee = {w1}
    Attachment = {e1}
    Request = {r1, r2}
    Null = Null
    Foreign = Foreign
    MaxVersion = 4
    Guesses = {3}
    Exercised = {"state", "location", "custody", "owner", "assignment"}
SYMMETRY Symmetry
INVARIANTS
    TypeOK
    HistoryAccountsForVersion
    CommitNeverRefused
    NoLostUpdate
    FactsAsSeen
