------------------------- MODULE AssetHistoryProofs -------------------------
(***************************************************************************)
(* Proofs about AssetHistory for every tenant, every number of concurrent  *)
(* callers and every version bound.                                        *)
(*                                                                         *)
(* The inductive invariant IInv has six parts.  Shape types the state.     *)
(* Locked says that only the holder of the Asset row lock is between its   *)
(* SELECT ... FOR UPDATE and its COMMIT.  Planned says that what a holder  *)
(* has prepared still extends the history as it stands now: it continues   *)
(* at version + 1, and a correction still replaces the effective head.     *)
(* History is what the committed rows satisfy.  ReadsCurrent and Admitted  *)
(* tie what a caller read to the version that its plan starts from.        *)
(***************************************************************************)
EXTENDS AssetHistory, TLAPS

Row == UNION {Rows(c) : c \in Class}

Projections == UNION {ShownValues(c) : c \in Class}

Seen == [version : 1..MaxVersion, projection : [Class -> Projections]]

PlanSet == [cls : Class, rows : SUBSET Row, shown : Projections,
            version : 1..MaxVersion, expected : 1..MaxVersion]

Phase == {"idle", "observed", "locked", "admitted"}

Shape ==
    /\ version \in 1..MaxVersion
    /\ hist \in [Class -> SUBSET Row]
    /\ projection \in [Class -> Projections]
    /\ req \in [Request -> [phase : Phase, seen : Seen \cup {Null}, plan : PlanSet \cup {Null}]]
    /\ rowLock \in Request \cup {Null}
    /\ links \subseteq Attachment \X LinkRole
    /\ \A c \in Class : /\ hist[c] \subseteq Rows(c)
                        /\ projection[c] \in ShownValues(c)
                        /\ c # "state" => baseline[c] \in Fact[c]
    /\ \A r \in Request : /\ req[r].phase # "idle" => req[r].seen \in Seen
                          /\ req[r].phase = "admitted" => req[r].plan \in PlanSet

Locked ==
    \A r \in Request : req[r].phase \in {"locked", "admitted"} => rowLock = r

\* The plan of an ordinary operation: one new root at the next version.
OrdinaryPlan(p) ==
    \E new \in p.rows :
        /\ p.rows = {new}
        /\ new \in Rows(p.cls)
        /\ new.ver = version + 1 /\ new.role = "NONE"
        /\ new.root = 0 /\ new.gen = 0 /\ new.pair = 0
        /\ p.version = new.ver /\ p.shown = Shown(p.cls, new)
        /\ EvidenceAccepted(p.cls, new)

\* The plan of a correction: two rows after the effective head they replace.
CorrectionPlan(p) ==
    \E rev, cor \in p.rows : \E head \in Effective(hist[p.cls]) :
        /\ p.rows = {rev, cor}
        /\ rev \in Rows(p.cls) /\ cor \in Rows(p.cls)
        /\ rev.ver = version + 1 /\ rev.role = "REVERSAL"
        /\ cor.ver = version + 2 /\ cor.role = "CORRECTED"
        /\ cor.root = RootOf(head) /\ rev.root = RootOf(head)
        /\ cor.gen = head.gen + 1
        /\ p.version = cor.ver /\ p.shown = Shown(p.cls, cor)
        /\ EvidenceAccepted(p.cls, rev) /\ EvidenceAccepted(p.cls, cor)
        /\ \E r \in hist[p.cls] : r.ver = cor.root /\ r.role = "NONE"

Planned ==
    \A r \in Request : req[r].phase = "admitted" =>
        OrdinaryPlan(req[r].plan) \/ CorrectionPlan(req[r].plan)

\* A correction points back to a row of its own table, an ordinary row nowhere.
RootsPresent(T) ==
    \A h \in T : IF h.role = "NONE" THEN h.root = 0
                 ELSE \E r \in T : r.ver = h.root /\ r.role = "NONE"

History ==
    /\ VersionsExact
    /\ ProjectionsAgree
    /\ \A c \in Class : RootsPresent(hist[c])
    /\ \A c \in Class : \A h \in hist[c] : EvidenceAccepted(c, h)

\* What a caller read stays true as long as the version it read is current.
ReadsCurrent ==
    \A r \in Request : req[r].phase # "idle" =>
        /\ req[r].seen.version <= version
        /\ req[r].seen.version = version => req[r].seen.projection = projection

Admitted ==
    \A r \in Request : req[r].phase = "admitted" => req[r].plan.expected = version

IInv == Shape /\ Locked /\ Planned /\ History /\ ReadsCurrent /\ Admitted

-----------------------------------------------------------------------------
\* The fact an operation starts from, read from the effective view or from the
\* creation witness, is a represented value of its class.
LEMMA AuthorityTyped ==
    ASSUME Shape, NEW c \in Class, NEW S \in SUBSET hist[c], NEW h \in Authority(c, S)
    PROVE  /\ h.to \in Fact[c] /\ h.from \in Fact[c] \cup {Null}
           /\ h.ver \in Nat /\ h.gen \in Nat /\ h.evidence \in Attachment \cup {Null}
<1>1. CASE S = {}
  <2>1. h \in Witness(c)
    BY <1>1 DEF Authority
  <2> QED
    BY <2>1 DEF Witness, Shape
<1>2. CASE S # {}
  <2>1. h \in S
    BY <1>2 DEF Authority, Newest
  <2>2. h \in Rows(c)
    BY <2>1 DEF Shape
  <2> QED
    BY <2>2 DEF Rows
<1> QED
  BY <1>1, <1>2

\* Initially (create_received_unit has committed) the invariant holds.
LEMMA InitIInv ==
    Init => IInv
<1> SUFFICES ASSUME Init PROVE IInv
  OBVIOUS
<1> USE ConstantsAssumption
<1>1. /\ baseline \in [Class -> Location \cup Party \cup {Null}]
      /\ baseline["location"] \in Location /\ baseline["owner"] \in Party
      /\ baseline["custody"] \in Party \cup {Null} /\ baseline["assignment"] = Null
  BY DEF Init
<1> DEFINE first == NewRow(1, Null, "RECEIVED", "NONE", 0, 0, 0, Null)
<1>2. \A c \in Class : /\ c = "state" => hist[c] = {first}
                       /\ c # "state" => hist[c] = {}
  BY DEF Init
<1>3. \A c \in Class : /\ c \notin {"state", "assignment"} => projection[c] = baseline[c]
                       /\ c = "state" => projection[c] = "RECEIVED"
                       /\ c = "assignment" => projection[c] = NoEvent /\ baseline[c] = Null
  BY <1>1 DEF Init, Class
<1>4. \A c \in Class : c # "state" => baseline[c] \in Fact[c]
  BY <1>1 DEF Class, Fact
<1>5. first \in Rows("state") /\ first.ver = 1 /\ first.role = "NONE" /\ first.root = 0
      /\ first.gen = 0 /\ first.to = "RECEIVED" /\ first.evidence = Null
  BY DEF NewRow, Rows, Fact, Class, AssetState
<1>6. Shape
  <2>1. version \in 1..MaxVersion
    BY DEF Init
  <2>2. \A c \in Class : hist[c] \subseteq Rows(c)
    BY <1>2, <1>5
  <2>3. \A c \in Class : projection[c] \in ShownValues(c)
    BY <1>3, <1>4 DEF ShownValues, Fact, Class, AssetState, NoEvent
  <2>4. hist \in [Class -> SUBSET Row]
    BY <2>2 DEF Init, Row
  <2>5. projection \in [Class -> Projections]
    <3>1. DOMAIN projection = Class /\ projection = [c \in Class |-> projection[c]]
      BY <1>1 DEF Init
    <3> QED
      BY <2>3, <3>1 DEF Projections
  <2> QED
    BY <2>1, <2>2, <2>3, <2>4, <2>5, <1>4 DEF Shape, Init, Idle, Doing, Phase
<1>7. Locked /\ Planned /\ ReadsCurrent /\ Admitted
  BY DEF Init, Idle, Doing, Locked, Planned, ReadsCurrent, Admitted
<1>8. VersionsExact
  BY <1>2, <1>5 DEF VersionsExact, Init, Class
<1>9. \A c \in Class : Effective(hist[c]) = hist[c]
  BY <1>2, <1>5 DEF Effective
<1>10. ProjectionsAgree
  <2> SUFFICES ASSUME NEW c \in Class
               PROVE  \E h \in LatestFact(c) : projection[c] = Shown(c, h)
    BY DEF ProjectionsAgree
  <2>1. CASE c = "state"
    <3>1. LatestFact(c) = Newest({first})
      BY <2>1, <1>2, <1>9 DEF LatestFact, Authority
    <3>2. first \in LatestFact(c)
      BY <3>1, <1>5 DEF Newest
    <3> QED
      BY <3>2, <2>1, <1>3, <1>5 DEF Shown
  <2>2. CASE c # "state"
    <3> DEFINE w == [ver |-> 0, from |-> Null, to |-> baseline[c], role |-> "NONE",
                     root |-> 0, pair |-> 0, gen |-> 0, evidence |-> Null]
    <3>1. w \in LatestFact(c)
      BY <2>2, <1>2, <1>9 DEF LatestFact, Authority, Witness
    <3>2. projection[c] = Shown(c, w)
      BY <2>2, <1>3 DEF Shown, NoEvent
    <3> QED
      BY <3>1, <3>2
  <2> QED
    BY <2>1, <2>2
<1>11. \A c \in Class : RootsPresent(hist[c])
  BY <1>2, <1>5 DEF RootsPresent
<1>12. \A c \in Class : \A h \in hist[c] : EvidenceAccepted(c, h)
  BY <1>2, <1>5 DEF EvidenceAccepted, Purpose
<1> QED
  BY <1>6, <1>7, <1>8, <1>10, <1>11, <1>12 DEF IInv, History

-----------------------------------------------------------------------------
\* Evidence once accepted stays accepted: attachment_links is append-only.
LEMMA EvidenceMonotone ==
    ASSUME links \subseteq links', NEW c, NEW h, EvidenceAccepted(c, h)
    PROVE  EvidenceAccepted(c, h)'
BY DEF EvidenceAccepted, ValidAssetEvidence, Purpose

\* Steps that write neither the Asset row nor its tables keep History.
LEMMA HistoryFrame ==
    ASSUME History, links \subseteq links', UNCHANGED <<version, projection, hist, baseline>>
    PROVE  History'
<1>1. VersionsExact'
  BY DEF History, VersionsExact
<1>2. ProjectionsAgree'
  BY DEF History, ProjectionsAgree, LatestFact, Authority, Witness
<1>3. \A c \in Class : RootsPresent(hist'[c])
  BY DEF History
<1>4. \A c \in Class : \A h \in hist'[c] : EvidenceAccepted(c, h)'
  BY EvidenceMonotone DEF History
<1> QED
  BY <1>1, <1>2, <1>3, <1>4 DEF History

\* A prepared plan stays valid while the Asset row does not change.
LEMMA PlanFrame ==
    ASSUME links \subseteq links', UNCHANGED <<version, hist>>, NEW p,
           OrdinaryPlan(p) \/ CorrectionPlan(p)
    PROVE  (OrdinaryPlan(p) \/ CorrectionPlan(p))'
<1>1. CASE OrdinaryPlan(p)
  <2>1. OrdinaryPlan(p)'
    BY <1>1, EvidenceMonotone DEF OrdinaryPlan
  <2> QED
    BY <2>1
<1>2. CASE CorrectionPlan(p)
  <2>1. PICK rev \in p.rows, cor \in p.rows, head \in Effective(hist[p.cls]) :
          /\ p.rows = {rev, cor}
          /\ rev \in Rows(p.cls) /\ cor \in Rows(p.cls)
          /\ rev.ver = version + 1 /\ rev.role = "REVERSAL"
          /\ cor.ver = version + 2 /\ cor.role = "CORRECTED"
          /\ cor.root = RootOf(head) /\ rev.root = RootOf(head)
          /\ cor.gen = head.gen + 1
          /\ p.version = cor.ver /\ p.shown = Shown(p.cls, cor)
          /\ EvidenceAccepted(p.cls, rev) /\ EvidenceAccepted(p.cls, cor)
          /\ \E r \in hist[p.cls] : r.ver = cor.root /\ r.role = "NONE"
    BY <1>2 DEF CorrectionPlan
  <2>2. EvidenceAccepted(p.cls, rev)' /\ EvidenceAccepted(p.cls, cor)'
    BY <2>1, EvidenceMonotone
  <2>3. CorrectionPlan(p)'
    BY <2>1, <2>2 DEF CorrectionPlan
  <2> QED
    BY <2>3
<1> QED
  BY <1>1, <1>2

-----------------------------------------------------------------------------
\* Appending an evidence link.
LEMMA LinkStep ==
    ASSUME IInv, LinkEvidence PROVE IInv'
<1> USE DEF IInv
<1>1. links \subseteq links' /\ UNCHANGED <<version, projection, hist, baseline, rowLock, req>>
  BY DEF LinkEvidence
<1>2. Shape'
  BY <1>1 DEF Shape, LinkEvidence
<1>3. Planned'
  BY <1>1, PlanFrame DEF Planned
<1>4. History'
  BY <1>1, HistoryFrame
<1>5. Locked' /\ ReadsCurrent' /\ Admitted'
  BY <1>1 DEF Locked, ReadsCurrent, Admitted
<1> QED
  BY <1>2, <1>3, <1>4, <1>5

\* Reading the Asset before an operation.
LEMMA ObserveStep ==
    ASSUME IInv, NEW r \in Request, Observe(r) PROVE IInv'
<1> USE DEF IInv
<1>1. UNCHANGED <<version, projection, hist, baseline, links, rowLock>>
  BY DEF Observe
<1> DEFINE now == [version |-> version, projection |-> projection]
<1>2. /\ req' \in [Request -> [phase : Phase, seen : Seen \cup {Null}, plan : PlanSet \cup {Null}]]
      /\ req'[r].phase = "observed" /\ req'[r].seen = now
      /\ \A q \in Request : q # r => req'[q] = req[q]
  <2>1. now \in Seen
    BY DEF Seen, Shape
  <2> QED
    BY <2>1 DEF Observe, Shape, Doing, Phase
<1>3. Shape'
  BY <1>1, <1>2 DEF Shape, Seen
<1>4. Locked' /\ Admitted'
  BY <1>1, <1>2 DEF Locked, Admitted
<1>5. Planned'
  BY <1>1, <1>2, PlanFrame DEF Planned
<1>6. ReadsCurrent'
  BY <1>1, <1>2 DEF ReadsCurrent, Shape
<1>7. History'
  BY <1>1, HistoryFrame
<1> QED
  BY <1>3, <1>4, <1>5, <1>6, <1>7

\* Obtaining the row lock: nobody else is between lock and commit.
LEMMA BeginStep ==
    ASSUME IInv, NEW r \in Request, Begin(r) PROVE IInv'
<1> USE DEF IInv
<1>1. UNCHANGED <<version, projection, hist, baseline, links>>
  BY DEF Begin
<1>2. /\ req' \in [Request -> [phase : Phase, seen : Seen \cup {Null}, plan : PlanSet \cup {Null}]]
      /\ req'[r].phase = "locked" /\ req'[r].seen = req[r].seen /\ req[r].phase = "observed"
      /\ \A q \in Request : q # r => req'[q] = req[q]
      /\ rowLock = Null /\ rowLock' = r
  BY DEF Begin, LockAsset, Shape, Doing, Phase
<1>3. Shape'
  BY <1>1, <1>2 DEF Shape
<1>4. Locked'
  BY <1>2, ConstantsAssumption DEF Locked
<1>5. Admitted' /\ ReadsCurrent'
  BY <1>1, <1>2 DEF Admitted, ReadsCurrent
<1>6. Planned'
  BY <1>1, <1>2, PlanFrame DEF Planned
<1>7. History'
  BY <1>1, HistoryFrame
<1> QED
  BY <1>3, <1>4, <1>5, <1>6, <1>7

\* Refusal, lost connection or cancellation.
LEMMA RollbackStep ==
    ASSUME IInv, NEW r \in Request, Rollback(r) PROVE IInv'
<1> USE DEF IInv
<1>1. UNCHANGED <<version, projection, hist, baseline, links>>
  BY DEF Rollback
<1>2. /\ req' \in [Request -> [phase : Phase, seen : Seen \cup {Null}, plan : PlanSet \cup {Null}]]
      /\ req'[r].phase = "idle" /\ rowLock = r /\ rowLock' = Null
      /\ \A q \in Request : q # r => req'[q] = req[q]
  BY DEF Rollback, Shape, Idle, Doing, Phase, Locked
<1>3. Shape'
  BY <1>1, <1>2 DEF Shape
<1>4. Locked'
  BY <1>2 DEF Locked
<1>5. Admitted' /\ ReadsCurrent'
  BY <1>1, <1>2 DEF Admitted, ReadsCurrent
<1>6. Planned'
  BY <1>1, <1>2, PlanFrame DEF Planned
<1>7. History'
  BY <1>1, HistoryFrame
<1> QED
  BY <1>3, <1>4, <1>5, <1>6, <1>7

-----------------------------------------------------------------------------
\* What the callers send: a class of this instance and a positive version.
Operation(r) == UNION {Ordinary(r, c) \cup Correction(r, c) : c \in Exercised}

LEMMA Operations ==
    ASSUME NEW r \in Request, NEW c \in Exercised
    PROVE  /\ \A op \in Ordinary(r, c) : op \in Operation(r) /\ op.cls = c
           /\ \A op \in Correction(r, c) : op \in Operation(r) /\ op.cls = c
<1>1. Ordinary(r, c) \subseteq Operation(r) /\ Correction(r, c) \subseteq Operation(r)
  BY DEF Operation
<1>2. \A op \in Ordinary(r, c) : op.cls = c
  BY DEF Ordinary
<1>3. \A op \in Correction(r, c) : op.cls = c
  BY DEF Correction
<1> QED
  BY <1>1, <1>2, <1>3

LEMMA OperationTyped ==
    ASSUME NEW r \in Request, req[r].seen \in Seen, NEW op \in Operation(r)
    PROVE  /\ op.cls \in Class /\ op.expected \in 1..MaxVersion
           /\ op.evidence \in Attachment \cup {Null}
<1>1. PICK c \in Exercised : op \in Ordinary(r, c) \cup Correction(r, c)
  BY DEF Operation
<1>2. op.cls = c /\ op.expected \in {req[r].seen.version} \cup Guesses
      /\ op.evidence \in Attachment \cup {Null}
  BY <1>1 DEF Ordinary, Correction
<1> QED
  BY <1>2, ConstantsAssumption DEF Class, Seen

\* Admission only prepares: whatever was planned from the locked row keeps the
\* invariant as long as it extends the history and names the locked version.
LEMMA AdmitFrame ==
    ASSUME IInv, NEW r \in Request, req[r].phase = "locked", NEW p \in PlanSet,
           OrdinaryPlan(p) \/ CorrectionPlan(p), p.expected = version,
           req' = [req EXCEPT ![r] = Doing("admitted", req[r].seen, p)],
           UNCHANGED <<version, projection, hist, baseline, links, rowLock>>
    PROVE  IInv'
<1> USE DEF IInv
<1>1. /\ req' \in [Request -> [phase : Phase, seen : Seen \cup {Null}, plan : PlanSet \cup {Null}]]
      /\ req'[r].phase = "admitted" /\ req'[r].seen = req[r].seen /\ req'[r].plan = p
      /\ \A q \in Request : q # r => req'[q] = req[q]
  BY DEF Shape, Doing, Phase
<1>2. Shape'
  BY <1>1 DEF Shape
<1>3. Locked' /\ Admitted' /\ ReadsCurrent'
  BY <1>1 DEF Locked, Admitted, ReadsCurrent
<1>4. Planned'
  BY <1>1, PlanFrame DEF Planned
<1>5. History'
  BY HistoryFrame
<1> QED
  BY <1>2, <1>3, <1>4, <1>5

\* What the assets row shows for a row of the class is a represented value.
LEMMA ShownTyped ==
    ASSUME NEW c \in Class, NEW h \in Rows(c)
    PROVE  Shown(c, h) \in ShownValues(c) /\ Shown(c, h) \in Projections
<1>1. Shown(c, h) \in ShownValues(c)
  BY ConstantsAssumption DEF Shown, ShownValues, Rows, NoEvent
<1> QED
  BY <1>1 DEF Projections

\* The six ordinary operations.
LEMMA OrdinaryStep ==
    ASSUME IInv, NEW r \in Request, AdmitOrdinary(r) PROVE IInv'
<1> USE DEF IInv
<1> DEFINE From(op, latest) ==
             NewRow(version + 1, latest.to, op.to, "NONE", 0, 0, 0, op.evidence)
<1>0. PICK op \in Operation(r) : \E latest \in LatestFact(op.cls) :
        /\ VersionAdmitted(op)
        /\ TargetAccepted(op, latest)
        /\ EvidenceAccepted(op.cls, From(op, latest))
        /\ req' = [req EXCEPT ![r] =
                     Doing("admitted", req[r].seen,
                           Plan(op, {From(op, latest)}, From(op, latest)))]
  <2>1. PICK c \in Exercised : \E op \in Ordinary(r, c), latest \in LatestFact(c) :
          /\ VersionAdmitted(op)
          /\ TargetAccepted(op, latest)
          /\ EvidenceAccepted(op.cls, From(op, latest))
          /\ req' = [req EXCEPT ![r] =
                       Doing("admitted", req[r].seen,
                             Plan(op, {From(op, latest)}, From(op, latest)))]
    BY DEF AdmitOrdinary
  <2>2. \A op \in Ordinary(r, c) : op \in Operation(r) /\ LatestFact(op.cls) = LatestFact(c)
    BY Operations
  <2> QED
    BY <2>1, <2>2
<1>1. PICK latest \in LatestFact(op.cls) :
        /\ VersionAdmitted(op)
        /\ TargetAccepted(op, latest)
        /\ EvidenceAccepted(op.cls, From(op, latest))
        /\ req' = [req EXCEPT ![r] =
                     Doing("admitted", req[r].seen,
                           Plan(op, {From(op, latest)}, From(op, latest)))]
  BY <1>0
<1> DEFINE row == NewRow(version + 1, latest.to, op.to, "NONE", 0, 0, 0, op.evidence)
           p   == Plan(op, {row}, row)
<1>2. req[r].phase = "locked" /\ version + 1 <= MaxVersion
      /\ UNCHANGED <<version, projection, hist, baseline, links, rowLock>>
  BY DEF AdmitOrdinary
<1>3. /\ op.cls \in Class /\ op.expected \in 1..MaxVersion
      /\ op.evidence \in Attachment \cup {Null}
  BY <1>2, OperationTyped DEF Shape
<1>4. latest.to \in Fact[op.cls]
  BY <1>3, AuthorityTyped DEF LatestFact, Effective
<1>5. row \in Rows(op.cls)
  <2>1. op.to \in Fact[op.cls]
    BY <1>1 DEF TargetAccepted
  <2> QED
    BY <1>2, <1>3, <1>4, <2>1, ConstantsAssumption DEF NewRow, Rows, Shape
<1>6. /\ p.cls = op.cls /\ p.rows = {row} /\ p.version = version + 1
      /\ p.shown = Shown(op.cls, row) /\ p.expected = op.expected
      /\ row.ver = version + 1 /\ row.role = "NONE"
      /\ row.root = 0 /\ row.gen = 0 /\ row.pair = 0
  BY DEF Plan, NewRow
<1>7. p \in PlanSet
  <2>1. row \in Row
    BY <1>3, <1>5 DEF Row
  <2> QED
    BY <1>2, <1>3, <1>5, <2>1, ShownTyped, ConstantsAssumption DEF Plan, NewRow, PlanSet, Shape
<1>8. OrdinaryPlan(p)
  BY <1>1, <1>5, <1>6 DEF OrdinaryPlan
<1>9. p.expected = version
  BY <1>1, <1>6 DEF VersionAdmitted
<1> HIDE DEF p, row
<1>10. req' = [req EXCEPT ![r] = Doing("admitted", req[r].seen, p)]
  BY <1>1 DEF p, row
<1> QED
  BY <1>2, <1>7, <1>8, <1>9, <1>10, AdmitFrame

\* The five corrections.
LEMMA CorrectionStep ==
    ASSUME IInv, NEW r \in Request, AdmitCorrection(r) PROVE IInv'
<1> USE DEF IInv
<1>1. PICK op \in Operation(r) :
        /\ VersionAdmitted(op)
        /\ \E root \in hist[op.cls] : root.ver = op.root /\ root.role = "NONE"
        /\ \E head \in Effective(hist[op.cls]), prior \in PriorFact(op.cls, hist[op.cls], op.root) :
             /\ RootOf(head) = op.root
             /\ TargetAccepted(op, prior)
             /\ EvidenceAccepted(op.cls, ReversalRow(head, op))
             /\ EvidenceAccepted(op.cls, CorrectedRow(head, prior, op))
             /\ req' = [req EXCEPT ![r] =
                          Doing("admitted", req[r].seen,
                                Plan(op, {ReversalRow(head, op), CorrectedRow(head, prior, op)},
                                     CorrectedRow(head, prior, op)))]
  <2>1. PICK c \in Exercised : \E op \in Correction(r, c) :
        /\ VersionAdmitted(op)
        /\ \E root \in hist[op.cls] : root.ver = op.root /\ root.role = "NONE"
        /\ \E head \in Effective(hist[op.cls]), prior \in PriorFact(op.cls, hist[op.cls], op.root) :
             /\ RootOf(head) = op.root
             /\ TargetAccepted(op, prior)
             /\ EvidenceAccepted(op.cls, ReversalRow(head, op))
             /\ EvidenceAccepted(op.cls, CorrectedRow(head, prior, op))
             /\ req' = [req EXCEPT ![r] =
                          Doing("admitted", req[r].seen,
                                Plan(op, {ReversalRow(head, op), CorrectedRow(head, prior, op)},
                                     CorrectedRow(head, prior, op)))]
    BY DEF AdmitCorrection
  <2>2. \A op \in Correction(r, c) : op \in Operation(r)
    BY Operations
  <2> QED
    BY <2>1, <2>2
<1>2. PICK head \in Effective(hist[op.cls]),
           prior \in PriorFact(op.cls, hist[op.cls], op.root) :
             /\ RootOf(head) = op.root
             /\ TargetAccepted(op, prior)
             /\ EvidenceAccepted(op.cls, ReversalRow(head, op))
             /\ EvidenceAccepted(op.cls, CorrectedRow(head, prior, op))
             /\ req' = [req EXCEPT ![r] =
                          Doing("admitted", req[r].seen,
                                Plan(op, {ReversalRow(head, op), CorrectedRow(head, prior, op)},
                                     CorrectedRow(head, prior, op)))]
  BY <1>1
<1> DEFINE rev == ReversalRow(head, op)
           cor == CorrectedRow(head, prior, op)
           p   == Plan(op, {rev, cor}, cor)
<1>3. req[r].phase = "locked" /\ version + 2 <= MaxVersion
      /\ UNCHANGED <<version, projection, hist, baseline, links, rowLock>>
  BY DEF AdmitCorrection
<1>4. /\ op.cls \in Class /\ op.expected \in 1..MaxVersion
      /\ op.evidence \in Attachment \cup {Null}
  BY <1>3, OperationTyped DEF Shape
<1>5. prior.to \in Fact[op.cls]
  BY <1>4, AuthorityTyped DEF PriorFact, Effective
<1>6. head \in hist[op.cls] /\ head \in Rows(op.cls)
  BY <1>4 DEF Effective, Shape
<1>7. op.root \in 0..MaxVersion
  <2>1. PICK root \in hist[op.cls] : root.ver = op.root
    BY <1>1
  <2>2. root \in Rows(op.cls)
    BY <1>4 DEF Shape
  <2> QED
    BY <2>1, <2>2, ConstantsAssumption DEF Rows
<1>8. op.to \in Fact[op.cls]
  BY <1>2 DEF TargetAccepted
<1>9. rev \in Rows(op.cls)
  BY <1>3, <1>4, <1>6, <1>7, ConstantsAssumption DEF ReversalRow, NewRow, Rows, Shape
<1>10. cor \in Rows(op.cls)
  BY <1>3, <1>4, <1>5, <1>6, <1>7, <1>8, ConstantsAssumption
     DEF CorrectedRow, NewRow, Rows, Shape
<1>11. /\ p.cls = op.cls /\ p.rows = {rev, cor} /\ p.version = version + 2
       /\ p.shown = Shown(op.cls, cor) /\ p.expected = op.expected
       /\ rev.ver = version + 1 /\ rev.role = "REVERSAL" /\ rev.root = op.root
       /\ cor.ver = version + 2 /\ cor.role = "CORRECTED" /\ cor.root = op.root
       /\ cor.gen = head.gen + 1
  BY DEF Plan, ReversalRow, CorrectedRow, NewRow
<1>12. p \in PlanSet
  <2>1. rev \in Row /\ cor \in Row
    BY <1>4, <1>9, <1>10 DEF Row
  <2>2. Shown(op.cls, cor) \in Projections
    BY <1>4, <1>10, ShownTyped
  <2>3. cor.ver \in 1..MaxVersion
    BY <1>10 DEF Rows
  <2> HIDE DEF rev, cor
  <2> QED
    BY <1>4, <2>1, <2>2, <2>3 DEF Plan, PlanSet
<1> HIDE DEF p, rev, cor
<1>13. CorrectionPlan(p)
  <2>1. EvidenceAccepted(op.cls, rev) /\ EvidenceAccepted(op.cls, cor)
    BY <1>2 DEF rev, cor
  <2>2. \E root \in hist[op.cls] : root.ver = cor.root /\ root.role = "NONE"
    BY <1>1, <1>11
  <2> QED
    BY <1>2, <1>9, <1>10, <1>11, <2>1, <2>2 DEF CorrectionPlan
<1>14. p.expected = version
  BY <1>1, <1>11 DEF VersionAdmitted
<1>15. req' = [req EXCEPT ![r] = Doing("admitted", req[r].seen, p)]
  BY <1>2 DEF p, rev, cor
<1> QED
  BY <1>3, <1>12, <1>13, <1>14, <1>15, AdmitFrame

-----------------------------------------------------------------------------
(***************************************************************************)
(* COMMIT.  The planned rows continue the version sequence and the last of *)
(* them becomes the effective head of its table.                           *)
(***************************************************************************)

\* last closes plan p over table T: it carries the version the plan ends at,
\* every planned row has its own version after the current one, and nothing in
\* the extended table supersedes last.
Extends(p, T, last) ==
    /\ last \in p.rows /\ last.ver = p.version
    /\ p.shown = Shown(p.cls, last)
    /\ p.rows \subseteq Rows(p.cls)
    /\ \A n \in p.rows : n.ver \in (version + 1)..p.version
    /\ \A v \in (version + 1)..p.version : \E n \in p.rows : n.ver = v
    /\ \A n, m \in p.rows : n.ver = m.ver => n = m
    /\ last \in Effective(T \cup p.rows)
    /\ RootsPresent(T \cup p.rows)
    /\ \A n \in p.rows : EvidenceAccepted(p.cls, n)

\* An admitted ordinary operation appends a root that nothing can supersede,
\* because no correction names a version that does not exist yet.
LEMMA OrdinaryExtends ==
    ASSUME IInv, NEW p \in PlanSet, OrdinaryPlan(p)
    PROVE  \E last \in p.rows : Extends(p, hist[p.cls], last)
<1> DEFINE c == p.cls
           T == hist[c]
<1>1. PICK new \in p.rows :
        /\ p.rows = {new}
        /\ new \in Rows(p.cls)
        /\ new.ver = version + 1 /\ new.role = "NONE"
        /\ new.root = 0 /\ new.gen = 0 /\ new.pair = 0
        /\ p.version = new.ver /\ p.shown = Shown(p.cls, new)
        /\ EvidenceAccepted(p.cls, new)
  BY DEF OrdinaryPlan
<1>2. c \in Class /\ version \in Nat
  BY ConstantsAssumption DEF PlanSet, IInv, Shape
<1>3. \A k \in T : k.role = "CORRECTED" => k.root \in 1..version
  <2> SUFFICES ASSUME NEW k \in T, k.role = "CORRECTED" PROVE k.root \in 1..version
    OBVIOUS
  <2>1. PICK r \in T : r.ver = k.root
    BY <1>2 DEF IInv, History, RootsPresent
  <2> QED
    BY <2>1, <1>2 DEF IInv, History, VersionsExact
<1>4. new \in Effective(T \cup p.rows)
  BY <1>1, <1>2, <1>3 DEF Effective, RootOf
<1>5. RootsPresent(T \cup p.rows)
  BY <1>1, <1>2 DEF IInv, History, RootsPresent
<1> QED
  BY <1>1, <1>2, <1>4, <1>5 DEF Extends

\* An admitted correction appends the next generation of the effective head's
\* root, so nothing in the table is of a later generation.
LEMMA CorrectionExtends ==
    ASSUME IInv, NEW p \in PlanSet, CorrectionPlan(p)
    PROVE  \E last \in p.rows : Extends(p, hist[p.cls], last)
<1> DEFINE c == p.cls
           T == hist[c]
<1>1. PICK rev \in p.rows, cor \in p.rows, head \in Effective(hist[p.cls]) :
        /\ p.rows = {rev, cor}
        /\ rev \in Rows(p.cls) /\ cor \in Rows(p.cls)
        /\ rev.ver = version + 1 /\ rev.role = "REVERSAL"
        /\ cor.ver = version + 2 /\ cor.role = "CORRECTED"
        /\ cor.root = RootOf(head) /\ rev.root = RootOf(head)
        /\ cor.gen = head.gen + 1
        /\ p.version = cor.ver /\ p.shown = Shown(p.cls, cor)
        /\ EvidenceAccepted(p.cls, rev) /\ EvidenceAccepted(p.cls, cor)
        /\ \E r \in hist[p.cls] : r.ver = cor.root /\ r.role = "NONE"
  BY DEF CorrectionPlan
<1>2. c \in Class /\ version \in Nat /\ T \subseteq Rows(c)
  BY ConstantsAssumption DEF PlanSet, IInv, Shape
<1>3. \A k \in T : k.gen \in Nat /\ k.ver \in 1..version
  BY <1>2 DEF Rows, IInv, History, VersionsExact
<1>4. head \in T /\ \A k \in T : k.role = "CORRECTED" /\ k.root = RootOf(head) => ~(k.gen > head.gen)
  BY <1>1 DEF Effective
<1>5. PICK r \in T : r.ver = cor.root /\ r.role = "NONE"
  BY <1>1
<1>6. RootOf(cor) = cor.root
  BY <1>3, <1>5 DEF RootOf
<1>7. cor \in Effective(T \cup p.rows)
  <2> SUFFICES ASSUME NEW k \in T \cup p.rows, k.role = "CORRECTED",
                      k.root = cor.root, k.gen > cor.gen
               PROVE  FALSE
    BY <1>1, <1>6 DEF Effective
  <2>1. CASE k \in T
    BY <2>1, <1>1, <1>3, <1>4
  <2>2. CASE k \in p.rows
    <3>1. k = cor
      BY <2>2, <1>1
    <3> QED
      BY <3>1, <1>1, <1>3, <1>4
  <2> QED
    BY <2>1, <2>2
<1>8. RootsPresent(T \cup p.rows)
  <2> SUFFICES ASSUME NEW h \in T \cup p.rows
               PROVE  IF h.role = "NONE" THEN h.root = 0
                      ELSE \E q \in T \cup p.rows : q.ver = h.root /\ q.role = "NONE"
    BY DEF RootsPresent
  <2>1. CASE h \in T
    BY <2>1, <1>2 DEF IInv, History, RootsPresent
  <2>2. CASE h \in p.rows
    BY <2>2, <1>1, <1>5
  <2> QED
    BY <2>1, <2>2
<1>9. \A v \in (version + 1)..p.version : v = rev.ver \/ v = cor.ver
  BY <1>1, <1>2
<1>10. cor.ver # rev.ver
  BY <1>1, <1>2
<1> QED
  BY <1>1, <1>2, <1>7, <1>8, <1>9, <1>10 DEF Extends

\* The end of an admitted transaction.
LEMMA CommitStep ==
    ASSUME IInv, NEW r \in Request, Commit(r) PROVE IInv'
<1> USE DEF IInv
<1> DEFINE p == req[r].plan
           c == p.cls
           T == hist[c]
<1>1. /\ req[r].phase = "admitted" /\ p \in PlanSet
      /\ hist' = [hist EXCEPT ![c] = T \cup p.rows]
      /\ projection' = [projection EXCEPT ![c] = p.shown]
      /\ version' = p.version /\ rowLock' = Null
      /\ req' = [req EXCEPT ![r] = Idle]
      /\ UNCHANGED <<baseline, links>>
  BY DEF Commit, Shape
<1> HIDE DEF p
<1>2. PICK last \in p.rows : Extends(p, T, last)
  BY <1>1, OrdinaryExtends, CorrectionExtends DEF Planned, p
<1>3. c \in Class /\ version \in Nat /\ p.version \in Nat
  BY <1>1, ConstantsAssumption DEF PlanSet, Shape
<1>4. p.version >= version + 1
  BY <1>2, <1>3 DEF Extends
<1>5. /\ req' \in [Request -> [phase : Phase, seen : Seen \cup {Null}, plan : PlanSet \cup {Null}]]
      /\ req'[r].phase = "idle"
      /\ \A q \in Request : q # r => req'[q] = req[q] /\ req[q].phase \notin {"locked", "admitted"}
  BY <1>1 DEF Shape, Idle, Doing, Phase, Locked
<1>6. \A d \in Class : /\ d = c => hist'[d] = T \cup p.rows /\ projection'[d] = p.shown
                       /\ d # c => hist'[d] = hist[d] /\ projection'[d] = projection[d]
  BY <1>1, <1>3 DEF Shape
<1>7. Shape'
  <2>1. \A d \in Class : hist'[d] \subseteq Rows(d)
    BY <1>2, <1>6 DEF Shape, Extends
  <2>2. \A d \in Class : projection'[d] \in ShownValues(d)
    BY <1>2, <1>3, <1>6, ShownTyped DEF Shape, Extends
  <2>3. hist' \in [Class -> SUBSET Row]
    BY <1>1, <1>3 DEF Shape, PlanSet
  <2>4. projection' \in [Class -> Projections]
    BY <1>1, <1>3 DEF Shape, PlanSet
  <2>5. version' \in 1..MaxVersion
    BY <1>1 DEF PlanSet
  <2> QED
    BY <1>1, <1>5, <2>1, <2>2, <2>3, <2>4, <2>5 DEF Shape
<1>8. Locked' /\ Planned' /\ Admitted'
  BY <1>5 DEF Locked, Planned, Admitted
<1>9. ReadsCurrent'
  <2> SUFFICES ASSUME NEW q \in Request, req'[q].phase # "idle"
               PROVE  /\ req'[q].seen.version <= version'
                      /\ req'[q].seen.version # version'
    BY DEF ReadsCurrent
  <2>1. q # r /\ req[q].phase # "idle" /\ req'[q] = req[q]
    BY <1>5
  <2>2. req[q].seen.version \in Nat /\ req[q].seen.version <= version
    BY <2>1, ConstantsAssumption DEF Shape, Seen, ReadsCurrent
  <2> QED
    BY <1>1, <1>3, <1>4, <2>1, <2>2
<1>10. VersionsExact'
  <2>1. \A d \in Class : \A h \in hist[d] : h.ver \in 1..version
    BY DEF History, VersionsExact
  <2>2. \A n \in p.rows : n.ver \in (version + 1)..p.version
    BY <1>2 DEF Extends
  <2>3. \A d \in Class : \A h \in hist'[d] : h.ver \in 1..version'
    BY <1>1, <1>3, <1>4, <1>6, <2>1, <2>2
  <2>4. \A v \in 1..version' : \E d \in Class : \E h \in hist'[d] : h.ver = v
    <3> SUFFICES ASSUME NEW v \in 1..version' PROVE \E d \in Class : \E h \in hist'[d] : h.ver = v
      OBVIOUS
    <3>1. CASE v <= version
      <4>0. v \in 1..version
        BY <3>1, <1>1, <1>3
      <4>1. PICK d \in Class : \E h \in hist[d] : h.ver = v
        BY <4>0 DEF History, VersionsExact
      <4>2. hist[d] \subseteq hist'[d]
        BY <1>6
      <4> QED
        BY <4>1, <4>2
    <3>2. CASE v > version
      <4>1. v \in (version + 1)..p.version
        BY <3>2, <1>1, <1>3
      <4> QED
        BY <4>1, <1>2, <1>3, <1>6 DEF Extends
    <3> QED
      BY <3>1, <3>2, <1>3
  <2>5. \A d, e \in Class : \A h \in hist'[d], k \in hist'[e] : h.ver = k.ver => d = e /\ h = k
    <3> SUFFICES ASSUME NEW d \in Class, NEW e \in Class, NEW h \in hist'[d], NEW k \in hist'[e],
                        h.ver = k.ver
                 PROVE  d = e /\ h = k
      OBVIOUS
    <3>1. CASE h \in hist[d] /\ k \in hist[e]
      BY <3>1 DEF History, VersionsExact
    <3>2. CASE h \notin hist[d]
      <4>1. d = c /\ h \in p.rows
        BY <3>2, <1>6
      <4>2. k \notin hist[e]
        BY <4>1, <2>1, <2>2, <1>3
      <4>3. e = c /\ k \in p.rows
        BY <4>2, <1>6
      <4> QED
        BY <4>1, <4>3, <1>2 DEF Extends
    <3>3. CASE k \notin hist[e]
      <4>1. e = c /\ k \in p.rows
        BY <3>3, <1>6
      <4>2. h \notin hist[d]
        BY <4>1, <2>1, <2>2, <1>3
      <4>3. d = c /\ h \in p.rows
        BY <4>2, <1>6
      <4> QED
        BY <4>1, <4>3, <1>2 DEF Extends
    <3> QED
      BY <3>1, <3>2, <3>3
  <2> QED
    BY <2>3, <2>4, <2>5 DEF VersionsExact
<1>11. ProjectionsAgree'
  <2> SUFFICES ASSUME NEW d \in Class
               PROVE  \E h \in LatestFact(d)' : projection'[d] = Shown(d, h)
    BY DEF ProjectionsAgree, Shown
  <2>1. CASE d = c
    <3>1. last \in Effective(hist'[d])
      BY <2>1, <1>2, <1>6 DEF Extends
    <3>2. \A h \in hist'[d] : h.ver <= last.ver
      BY <1>1, <1>2, <1>10 DEF Extends, VersionsExact
    <3>3. last \in Newest(Effective(hist'[d]))
      BY <3>1, <3>2 DEF Newest, Effective
    <3>4. last \in LatestFact(d)'
      BY <3>1, <3>3 DEF LatestFact, Authority
    <3> QED
      BY <3>4, <2>1, <1>2, <1>6 DEF Extends
  <2>2. CASE d # c
    <3>1. LatestFact(d)' = LatestFact(d)
      BY <2>2, <1>1, <1>6 DEF LatestFact, Authority, Witness
    <3> QED
      BY <3>1, <2>2, <1>6 DEF History, ProjectionsAgree
  <2> QED
    BY <2>1, <2>2
<1>12. \A d \in Class : RootsPresent(hist'[d])
  BY <1>2, <1>6 DEF Extends, History
<1>13. \A d \in Class : \A h \in hist'[d] : EvidenceAccepted(d, h)'
  <2>1. \A d \in Class : \A h \in hist'[d] : EvidenceAccepted(d, h)
    BY <1>2, <1>6 DEF Extends, History
  <2> QED
    BY <2>1, <1>1, EvidenceMonotone
<1> QED
  BY <1>7, <1>8, <1>9, <1>10, <1>11, <1>12, <1>13 DEF History

-----------------------------------------------------------------------------
\* IInv is an invariant of the specification.
THEOREM Invariance ==
    Spec => []IInv
<1>1. IInv /\ [Next]_vars => IInv'
  <2> SUFFICES ASSUME IInv, [Next]_vars PROVE IInv'
    OBVIOUS
  <2>1. CASE LinkEvidence
    BY <2>1, LinkStep
  <2>2. ASSUME NEW r \in Request, Observe(r) PROVE IInv'
    BY <2>2, ObserveStep
  <2>3. ASSUME NEW r \in Request, Begin(r) PROVE IInv'
    BY <2>3, BeginStep
  <2>4. ASSUME NEW r \in Request, AdmitOrdinary(r) PROVE IInv'
    BY <2>4, OrdinaryStep
  <2>5. ASSUME NEW r \in Request, AdmitCorrection(r) PROVE IInv'
    BY <2>5, CorrectionStep
  <2>6. ASSUME NEW r \in Request, Commit(r) PROVE IInv'
    BY <2>6, CommitStep
  <2>7. ASSUME NEW r \in Request, Rollback(r) PROVE IInv'
    BY <2>7, RollbackStep
  <2>8. CASE UNCHANGED vars
    <3>1. History'
      BY <2>8, HistoryFrame DEF vars, IInv
    <3>2. Planned'
      BY <2>8, PlanFrame DEF vars, IInv, Planned
    <3> QED
      BY <2>8, <3>1, <3>2 DEF vars, IInv, Shape, Locked, ReadsCurrent, Admitted
  <2> QED
    BY <2>1, <2>2, <2>3, <2>4, <2>5, <2>6, <2>7, <2>8 DEF Next
<1> QED
  BY <1>1, InitIInv, PTL DEF Spec

\* Tables hold rows of their own class and projections represented values.
THEOREM TypeCorrect ==
    Spec => []TypeOK
<1>1. IInv => TypeOK
  BY DEF IInv, Shape, TypeOK, Phase
<1> QED
  BY <1>1, Invariance, PTL

\* The five history tables together produce each version exactly once.
THEOREM VersionsProven ==
    Spec => []HistoryAccountsForVersion
<1>1. IInv => HistoryAccountsForVersion
  BY DEF IInv, History, HistoryAccountsForVersion
<1> QED
  BY <1>1, Invariance, PTL

\* Each projection is what the latest effective row or the witness says.
THEOREM ProjectionsProven ==
    Spec => []ProjectionsFollowHistory
<1>1. IInv => ProjectionsFollowHistory
  BY DEF IInv, History, ProjectionsFollowHistory
<1> QED
  BY <1>1, Invariance, PTL

\* A request admitted on the version its caller read acts on what it saw.
THEOREM NoLostUpdateProven ==
    Spec => []NoLostUpdate
<1>1. IInv => NoLostUpdate
  BY DEF IInv, ReadsCurrent, Admitted, NoLostUpdate
<1> QED
  BY <1>1, Invariance, PTL

\* RETIRED is always backed by a disposal link of the evidence it names.
THEOREM RetirementProvenAlways ==
    Spec => []RetirementProven
<1>1. IInv => RetirementProven
  <2> SUFFICES ASSUME IInv, projection["state"] = "RETIRED"
               PROVE  \E h \in LatestFact("state") :
                          ValidAssetEvidence(h.evidence, "DISPOSAL_EVIDENCE")
    BY DEF RetirementProven
  <2>1. PICK h \in LatestFact("state") : projection["state"] = Shown("state", h)
    BY DEF IInv, History, ProjectionsAgree, Class
  <2>2. h.to = "RETIRED"
    BY <2>1 DEF Shown
  <2>3. h \in hist["state"] /\ h.role # "REVERSAL"
    BY <2>1 DEF LatestFact, Authority, Witness, Newest, Effective
  <2>4. EvidenceAccepted("state", h)
    BY <2>3 DEF IInv, History, Class
  <2>5. Purpose(h.to, h.role) = "DISPOSAL_EVIDENCE"
    BY <2>2, <2>3 DEF Purpose
  <2>6. ValidAssetEvidence(h.evidence, "DISPOSAL_EVIDENCE")
    BY <2>4, <2>5, ConstantsAssumption DEF EvidenceAccepted
  <2> QED
    BY <2>6, <2>1
<1> QED
  BY <1>1, Invariance, PTL
=============================================================================
