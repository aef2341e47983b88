SPECIFICATION Spec
CONSTANTS
    Location = {l1}
    Party = {p1}
    Assignee = {w1}
    Attachment = {e1}
    Request = {r1, r2}
    Null = Null
    Foreign = Foreign
    MaxVersion = 6
    Guesses = {5}
    Exercised = {"state"}
SYMMETRY Symmetry
INVARIANTS
    NeverAnomalous
    EffectiveLifecycleLegal
    RetirementProven
    OptionsMatchAdmission
