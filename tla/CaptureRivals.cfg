SPECIFICATION Spec
CONSTANTS
    Actor = {a1}
    None = None
    Ghost = Ghost
    Call = {k1, k2}
    Syncer = {s1, s2}
    Kinds = {"scan", "photo"}
    MaxEpoch = 1
    MaxVersion = 1
    MaxOrdinal = 3
    MaxSeq = 3
SYMMETRY Symmetry
INVARIANT
    DeviceAgreesWithServer
PROPERTY
    ImplementsLog
