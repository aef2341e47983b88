SPECIFICATION FairSpec
CONSTANTS
    Actor = {a1}
    None = None
    Ghost = Ghost
    Call = {k1, k2}
    Syncer = {s1, s2}
    Kinds = {"photo"}
    MaxEpoch = 1
    MaxVersion = 1
    MaxOrdinal = 2
    MaxSeq = 2
PROPERTY
    EveryCaptureSettles
