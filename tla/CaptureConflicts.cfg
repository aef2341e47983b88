SPECIFICATION Spec
CONSTANTS
    Actor = {a1}
    None = None
    Ghost = Ghost
    Call = {k1, k2}
    Syncer = {s1, s2}
    Kinds = {"asset"}
    MaxEpoch = 1
    MaxVersion = 3
    MaxOrdinal = 2
    MaxSeq = 2
SYMMETRY Symmetry
INVARIANT
    NeverRebased
