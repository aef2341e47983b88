SPECIFICATION ServicesSpec
CONSTANTS
    Null = Null
    Item = {i1}
    Uom = {"EA", "M"}
    Quantity = {1}
    Number = {1, 2}
    MaxLine = 3
    MaxGeneration = 2
    Conflict = {c1}
    Handler = {h1, h2}
    MaxAssetVersion = 2
    Labelled = {a1, a2}
    ReceivedUnits = {a1, a2}
    Text = {"x", "unprintable"}
    Unprintable = {"unprintable"}
    Template = {"T"}
    Format = {"ZPL"}
    Job = {j1, j2}
    Dispatcher = {d1, d2}
    MaxRenderer = 2
    MaxAttempt = 2
    MaxBatch = 2
    Digest = {"x", "y"}
    Uploader = {u1, u2}
    EntityType = {"ASSET", "RECEIPT_LINE"}
    LinkRole = {"DISPOSAL_EVIDENCE"}
    User = {"p"}
    Session = {s1, s2}
    Request = {r1, r2}
    MaxWrite = 2
    Location = {l1, l2, l3, l4}
    Facility = {"f1", "f2"}
    Clerk = {k1, k2}
    None = None
    Call = {b1, b2}
    Actor = {"a"}
    MaxEpoch = 2
    MaxVersion = 1
    Sent <- SentLists
    MaxClaims = 3
SYMMETRY Symmetric
INVARIANTS
    LineagesLinear
    CorrectionsCoherent
    ServedAsRequested
    ArtifactMatchesRecord
    AnswersTrue
    WritesPrecedeRevocation
    PathsComplete
    BatchInOrder
PROPERTY
    SyncConflictsFollow
