SPECIFICATION Spec
CONSTANTS
    Actor = {a1, a2}
    None = None
    Ghost = Ghost
    Call = {k1}
    Syncer = {s1}
    Kinds = {"scan", "photo"}
    MaxEpoch = 3
    MaxVersion = 1
    MaxOrdinal = 3
    MaxSeq = 2
SYMMETRY Symmetry
INVARIANTS
    CaptureTypeOK
    HonestDeviceNeverFlagged
