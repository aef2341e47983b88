---------------------------- MODULE AssetHistory ----------------------------
(***************************************************************************)
(* One Asset row, its five immutable history tables and the requests that  *)
(* compete for it.                                                         *)
(*                                                                         *)
(* Every history-producing operation (transition_asset, move_asset,        *)
(* change_custody, change_ownership, assign_asset, unassign_asset and the  *)
(* five correct_* functions) follows one protocol: lock the Asset row,     *)
(* compare the caller's expected version, read the authoritative prior     *)
(* fact, append one row (or a REVERSAL/CORRECTED pair), move the           *)
(* projection and the single global version, commit.  The module keeps     *)
(* lock, admission and commit as separate steps so that the row lock, and  *)
(* not the atomicity of the model, is what serialises the requests.        *)
(*                                                                         *)
(* A history row is identified inside its table by the version it          *)
(* produced: uq_<table>_version makes that a key.  `root` and `pair` are   *)
(* such identities, with 0 for SQL NULL.  Rows of another Asset never      *)
(* matter: every statement is qualified by asset_id.                       *)
(***************************************************************************)
EXTENDS Integers, FiniteSets

CONSTANTS
    Location,    \* the tenant's locations
    Party,       \* the tenant's parties: custodians and owners
    Assignee,    \* the tenant's actors, locations and parties an Asset may be assigned to
    Attachment,  \* captured evidence objects
    Request,     \* concurrent callers
    Null,        \* SQL NULL
    Foreign,     \* an identifier that names no row of this tenant
    MaxVersion,  \* the largest value of assets.version (a PostgreSQL integer)
    Guesses,     \* expected versions a caller may claim without having read them
    Exercised    \* the history classes the callers of this instance write

ASSUME ConstantsAssumption ==
    /\ MaxVersion \in Nat \ {0}
    /\ Guesses \subseteq 1..MaxVersion
    /\ Exercised \subseteq {"state", "location", "custody", "owner", "assignment"}
    /\ Null \notin Location \cup Party \cup Assignee \cup Attachment \cup Request
    /\ Null \notin {"DISPOSAL_EVIDENCE", "GENERAL"}
    /\ Foreign \notin Location \cup Party \cup Assignee \cup {Null}

VARIABLES
    version,     \* assets.version, shared by the five history classes
    projection,  \* assets.current_state, current_location_id, custodian_party_id, ...
    hist,        \* the five history tables, one set of rows per class
    baseline,    \* asset_initial_facts and asset_initial_assignment_facts
    links,       \* attachment_links of this Asset: <<attachment, link_role>>
    rowLock,     \* the request that holds SELECT ... FOR UPDATE on the Asset row
    req          \* what each caller is doing

vars == <<version, projection, hist, baseline, links, rowLock, req>>

AssetState == {"RECEIVED", "IN_STOCK", "CONFIGURING", "READY", "DEPLOYED",
               "ON_HOLD", "OUT_OF_SERVICE", "RETIRED"}

\* The graph owned by Python. ON_HOLD additionally returns to its entry state.
LIFECYCLE == [s \in AssetState |->
    CASE s = "RECEIVED"       -> {"IN_STOCK", "ON_HOLD"}
      [] s = "IN_STOCK"       -> {"CONFIGURING", "ON_HOLD", "RETIRED"}
      [] s = "CONFIGURING"    -> {"READY", "ON_HOLD"}
      [] s = "READY"          -> {"DEPLOYED", "IN_STOCK", "ON_HOLD"}
      [] s = "DEPLOYED"       -> {"ON_HOLD", "OUT_OF_SERVICE", "READY"}
      [] s = "ON_HOLD"        -> {"OUT_OF_SERVICE"}
      [] s = "OUT_OF_SERVICE" -> {"CONFIGURING", "RETIRED"}
      [] s = "RETIRED"        -> {}]

\* validate_edge(from_state, to_state, previous_state): the states it admits.
Allowed(from, previous) ==
    LIFECYCLE[from] \cup (IF from = "ON_HOLD" /\ previous # Null THEN {previous} ELSE {})

Class == {"state", "location", "custody", "owner", "assignment"}

\* The values a class may hold, by the foreign keys and the CHECKs of its table.
Fact == [c \in Class |->
    IF c = "state" THEN AssetState
    ELSE IF c = "location" THEN Location \cup {Null}
    ELSE IF c = "custody" THEN Party \cup {Null}
    ELSE IF c = "owner" THEN Party
    ELSE Assignee \cup {Null}]

LinkRole == {"DISPOSAL_EVIDENCE", "GENERAL"}

NoEvent == 0   \* current_assignment_id IS NULL

-----------------------------------------------------------------------------
(***************************************************************************)
(* Effective history: the views effective_<table> over one table T.        *)
(***************************************************************************)

RootOf(h) == IF h.root = 0 THEN h.ver ELSE h.root

\* Mutant: the view forgets to leave out the reversals.
Effective_KeepsReversals(T) ==
    {h \in T : ~ \E k \in T : k.role = "CORRECTED" /\ k.root = RootOf(h) /\ k.gen > h.gen}

Effective(T) ==
    {h \in T : /\ h.role # "REVERSAL"
               /\ ~ \E k \in T : /\ k.role = "CORRECTED"
                                 /\ k.root = RootOf(h)
                                 /\ k.gen > h.gen}

\* ORDER BY result_version DESC LIMIT 1
Newest(S) == {h \in S : \A k \in S : k.ver <= h.ver}

\* The creation witness answers until the class has effective history of its own.
Witness(c) ==
    IF c = "state" THEN {}
    ELSE {[ver |-> 0, from |-> Null, to |-> baseline[c], role |-> "NONE",
           root |-> 0, pair |-> 0, gen |-> 0, evidence |-> Null]}

Authority(c, S) == IF S = {} THEN Witness(c) ELSE Newest(S)

LatestFact(c) == Authority(c, Effective(hist[c]))

\* Mutant: the root itself counts as its own predecessor (ver <= root).
PriorFact_Inclusive(c, T, root) == Authority(c, {h \in Effective(T) : h.ver <= root})

\* The fact in force when the ordinary row `root` was written.
PriorFact(c, T, root) == Authority(c, {h \in Effective(T) : h.ver < root})

\* What the assets row shows for a fact: the assignment projection names the
\* establishing event, the other four name the value.
Shown(c, h) ==
    IF c # "assignment" THEN h.to ELSE IF h.to = Null THEN NoEvent ELSE h.ver

\* Mutant: the facts are taken from the effective views.
CaptureAssetFacts_Effective(v) ==
    [c \in Class |-> {h.to : h \in Authority(c, {k \in Effective(hist[c]) : k.ver <= v})}]

\* capture_asset_facts: the facts that a sync conflict quotes for a version, from
\* the rows as they were recorded, reversals and corrected rows included.
CaptureAssetFacts(v) ==
    [c \in Class |-> {h.to : h \in Authority(c, {k \in hist[c] : k.ver <= v})}]

-----------------------------------------------------------------------------
(***************************************************************************)
(* Evidence: an attachment proves something about this Asset only through  *)
(* a link, and retirement only through a DISPOSAL_EVIDENCE link.           *)
(***************************************************************************)

ValidAssetEvidence(a, purpose) ==
    \E l \in links : l[1] = a /\ (purpose = Null \/ l[2] = purpose)

\* Mutant: any linked attachment proves a retirement.
Purpose_Any(to, role) == Null

Purpose(to, role) ==
    IF to = "RETIRED" /\ role # "REVERSAL" THEN "DISPOSAL_EVIDENCE" ELSE Null

EvidenceAccepted(c, h) ==
    (c = "state" /\ (h.evidence # Null \/ Purpose(h.to, h.role) # Null))
        => ValidAssetEvidence(h.evidence, Purpose(h.to, h.role))

-----------------------------------------------------------------------------
(***************************************************************************)
(* asset_correction_anomalies: the shapes of correction history that the   *)
(* operations refuse to build on, here as the well-formedness of table T.  *)
(***************************************************************************)

RolesWellFormed(T) ==
    \A h \in T :
        IF h.role = "NONE" THEN h.root = 0 /\ h.pair = 0 /\ h.gen = 0
        ELSE /\ \E r \in T : r.ver = h.root /\ r.role = "NONE"
             /\ h.pair # 0 /\ h.gen >= 1

PairsComplete(T) ==
    \A h \in T : h.role # "NONE" =>
        \E rev, cor \in T :
            /\ rev.role = "REVERSAL" /\ cor.role = "CORRECTED"
            /\ {k \in T : k.role # "NONE" /\ k.pair = h.pair} = {rev, cor}
            /\ rev.root = cor.root /\ rev.gen = cor.gen
            /\ cor.ver = rev.ver + 1

GenerationsContiguous(T) ==
    LET Corrected == {k \in T : k.role = "CORRECTED"}
    IN  /\ \A h \in Corrected : \A g \in 1..h.gen :
               \E k \in Corrected : k.root = h.root /\ k.gen = g
        /\ \A h, k \in Corrected : h.root = k.root /\ h.gen = k.gen => h = k

\* The assertion that reversal h cancels: its root, or the previous generation.
Cancels(h, p) ==
    \/ h.gen = 1 /\ p.ver = h.root
    \/ h.gen > 1 /\ p.role = "CORRECTED" /\ p.root = h.root /\ p.gen = h.gen - 1

ReversalsCopyCancelled(T) ==
    \A h, p \in T : h.role = "REVERSAL" /\ Cancels(h, p) =>
        /\ h.ver = p.ver + 1
        /\ h.from = p.from /\ h.to = p.to /\ h.evidence = p.evidence

SourcesCoherent(c, T) ==
    \A h \in T : h.role = "CORRECTED" =>
        \E p \in PriorFact(c, T, h.root) : h.from = p.to

WellFormed(c, T) ==
    /\ RolesWellFormed(T)
    /\ PairsComplete(T)
    /\ GenerationsContiguous(T)
    /\ ReversalsCopyCancelled(T)
    /\ SourcesCoherent(c, T)
    /\ \A h \in T : EvidenceAccepted(c, h)

\* assert_asset_correction_authority, the gate of every correction.
VersionsExact ==
    /\ \A c \in Class : \A h \in hist[c] : h.ver \in 1..version
    /\ \A v \in 1..version : \E c \in Class : \E h \in hist[c] : h.ver = v
    /\ \A c, d \in Class : \A h \in hist[c], k \in hist[d] :
           h.ver = k.ver => c = d /\ h = k

ProjectionsAgree ==
    \A c \in Class : \E h \in LatestFact(c) : projection[c] = Shown(c, h)

AuthorityComplete ==
    /\ ProjectionsAgree
    /\ \A c \in Class : WellFormed(c, hist[c])
    /\ VersionsExact

\* lifecycle_correction_issues: corrected edges, superseded ones included, are
\* re-validated by Python against the effective fact before their root.
LifecycleSound ==
    \A h \in hist["state"] : h.role = "CORRECTED" =>
        \E p \in PriorFact("state", hist["state"], h.root) :
            /\ h.to \in Allowed(p.to, p.from)
            /\ h.to = "RETIRED" => ValidAssetEvidence(h.evidence, "DISPOSAL_EVIDENCE")

-----------------------------------------------------------------------------
(***************************************************************************)
(* Requests.  A caller first reads the Asset (and, for the lifecycle, the  *)
(* offered choices), then submits an operation that names the version it   *)
(* read; Guesses are versions claimed without a read.  The arguments are   *)
(* chosen at admission, where they first meet the locked row.              *)
(***************************************************************************)

Requested(c) == IF c = "state" THEN AssetState ELSE Fact[c] \cup {Null, Foreign}

\* The arguments of the six ordinary operations; the caller of transition_asset
\* also names the state it believes the Asset is in.
Ordinary(r, c) ==
    [cls : {c}, to : Requested(c), from : IF c = "state" THEN AssetState ELSE {Null},
     evidence : IF c = "state" THEN Attachment \cup {Null} ELSE {Null},
     expected : {req[r].seen.version} \cup Guesses]

\* Those of the five corrections, which name the root they correct.
Correction(r, c) ==
    [cls : {c}, to : Requested(c), root : 1..MaxVersion,
     evidence : IF c = "state" THEN Attachment \cup {Null} ELSE {Null},
     expected : {req[r].seen.version} \cup Guesses]

\* The checks transition_asset makes in Python before it takes the lock.  They
\* read only the arguments and the evidence links, which are never removed, so
\* they are evaluated at admission, with the arguments.
Preflight(op) ==
    op.cls = "state" =>
        /\ op.from # "ON_HOLD" => op.to \in LIFECYCLE[op.from]
        /\ op.to = "RETIRED" => op.evidence # Null
        /\ op.evidence # Null => ValidAssetEvidence(op.evidence, Purpose(op.to, "NONE"))

Doing(phase, seen, plan) == [phase |-> phase, seen |-> seen, plan |-> plan]

Idle == Doing("idle", Null, Null)

\* Mutant: the way back out of ON_HOLD is not offered.
TransitionOptions_NoReturn ==
    UNION {LIFECYCLE[h.to] : h \in {k \in LatestFact("state") : k.to = projection["state"]}}

\* transition_options: the choices offered from one snapshot.
TransitionOptions ==
    UNION {IF h.to = projection["state"] /\ h.ver <= version
           THEN Allowed(h.to, h.from) ELSE {} : h \in LatestFact("state")}

\* GET the Asset and its transition options.
Observe(r) ==
    /\ req[r].phase = "idle"
    /\ req' = [req EXCEPT ![r] = Doing("observed", [version |-> version,
                                                    projection |-> projection], Null)]
    /\ UNCHANGED <<version, projection, hist, baseline, links, rowLock>>

\* Mutant: a plain SELECT, which does not wait for the holder of the row.
LockAsset_NoWait(r) == rowLock' = r

\* SELECT ... FROM assets ... FOR UPDATE.
LockAsset(r) == rowLock = Null /\ rowLock' = r

Begin(r) ==
    /\ req[r].phase = "observed"
    /\ LockAsset(r)
    /\ req' = [req EXCEPT ![r] = Doing("locked", req[r].seen, Null)]
    /\ UNCHANGED <<version, projection, hist, baseline, links>>

-----------------------------------------------------------------------------
(***************************************************************************)
(* Admission under the lock.                                               *)
(***************************************************************************)

NewRow(v, from, to, role, root, pair, gen, evidence) ==
    [ver |-> v, from |-> from, to |-> to, role |-> role,
     root |-> root, pair |-> pair, gen |-> gen, evidence |-> evidence]

\* Mutant: the assignment projection keeps naming the event that ended it.
Plan_KeepsEvent(op, rows, last) ==
    [cls |-> op.cls, rows |-> rows, version |-> last.ver, expected |-> op.expected,
     shown |-> IF op.cls = "assignment" THEN last.ver ELSE last.to]

\* Mutant: a correction, which writes two rows, advances the version by one.
Plan_OneVersion(op, rows, last) ==
    [cls |-> op.cls, rows |-> rows, version |-> op.expected + 1, expected |-> op.expected,
     shown |-> Shown(op.cls, last)]

\* The inserts and the update the admitted operation is about to commit.
Plan(op, rows, last) ==
    [cls |-> op.cls, rows |-> rows, shown |-> Shown(op.cls, last), version |-> last.ver,
     expected |-> op.expected]

\* Mutant: the expected version is not compared under the lock.
VersionAdmitted_Unchecked(op) == TRUE

VersionAdmitted(op) == op.expected = version

\* Mutant: the target's tenant and the owner's NOT NULL are not checked.
TargetAccepted_AnyId(op, prior) ==
    op.cls = "assignment" => op.to # Null \/ prior.to # Null

TargetAccepted(op, prior) ==
    /\ op.to \in Fact[op.cls]
    /\ op.cls = "assignment" => op.to # Null \/ prior.to # Null

\* Mutant: the hold is read before the lock is granted, and may be an earlier one.
EdgeAccepted_AnyHold(op, latest) ==
    op.cls = "state" =>
        /\ op.from = latest.to
        /\ op.from = "ON_HOLD" => \E h \in Effective(hist["state"]) :
               h.to = "ON_HOLD" /\ op.to \in Allowed(op.from, h.from)

\* An ordinary edge out of ON_HOLD is legal by its entry state, read under the lock.
EdgeAccepted(op, latest) ==
    op.cls = "state" =>
        /\ op.from = latest.to
        /\ op.from = "ON_HOLD" => op.to \in Allowed(op.from, latest.from)

AdmitOrdinary(r) ==
    /\ req[r].phase = "locked"
    /\ version + 1 <= MaxVersion
    /\ \A d \in Class : WellFormed(d, hist[d])
    /\ \E c \in Exercised : \E op \in Ordinary(r, c), latest \in LatestFact(c) :
           LET row == NewRow(version + 1, latest.to, op.to, "NONE", 0, 0, 0, op.evidence)
           IN  /\ Preflight(op)
               /\ VersionAdmitted(op)
               /\ latest.ver <= version
               /\ projection[op.cls] = Shown(op.cls, latest)
               /\ TargetAccepted(op, latest) /\ EdgeAccepted(op, latest)
               /\ EvidenceAccepted(op.cls, row)
               /\ req' = [req EXCEPT ![r] =
                              Doing("admitted", req[r].seen, Plan(op, {row}, row))]
    /\ UNCHANGED <<version, projection, hist, baseline, links, rowLock>>

\* A correction replaces the head only: the effective row of the named root must
\* be the one that produced the current global version.
IsGlobalHead(head) == head.ver = version

\* The replacement starts from the fact before the root, not from the cancelled one.
CorrectedRow(head, prior, op) ==
    NewRow(version + 2, prior.to, op.to, "CORRECTED", op.root, version + 1,
           head.gen + 1, op.evidence)

ReversalRow(head, op) ==
    NewRow(version + 1, head.from, head.to, "REVERSAL", op.root, version + 1,
           head.gen + 1, head.evidence)

\* Mutant: the corrected edge is not re-validated against the lifecycle graph.
CorrectedEdgeAccepted_Any(op, prior) ==
    op.cls = "state" /\ op.to = "RETIRED" => op.evidence # Null

CorrectedEdgeAccepted(op, prior) ==
    op.cls = "state" =>
        /\ op.to \in Allowed(prior.to, prior.from)
        /\ op.to = "RETIRED" => op.evidence # Null

AdmitCorrection(r) ==
    /\ req[r].phase = "locked"
    /\ version + 2 <= MaxVersion
    /\ LifecycleSound
    /\ AuthorityComplete
    /\ \E c \in Exercised : \E op \in Correction(r, c) :
           /\ VersionAdmitted(op)
           /\ \E root \in hist[op.cls] : root.ver = op.root /\ root.role = "NONE"
           /\ \E head \in Effective(hist[op.cls]),
                 prior \in PriorFact(op.cls, hist[op.cls], op.root) :
                  LET rev == ReversalRow(head, op)
                      cor == CorrectedRow(head, prior, op)
                  IN  /\ RootOf(head) = op.root
                      /\ IsGlobalHead(head)
                      /\ projection[op.cls] = Shown(op.cls, head)
                      /\ TargetAccepted(op, prior) /\ CorrectedEdgeAccepted(op, prior)
                      /\ EvidenceAccepted(op.cls, rev) /\ EvidenceAccepted(op.cls, cor)
                      /\ req' = [req EXCEPT ![r] =
                                     Doing("admitted", req[r].seen, Plan(op, {rev, cor}, cor))]
    /\ UNCHANGED <<version, projection, hist, baseline, links, rowLock>>

-----------------------------------------------------------------------------
(***************************************************************************)
(* The end of the transaction.                                             *)
(***************************************************************************)

\* uq_<table>_version, and the deferred trigger check_<table>_pairs.
CommitAccepted(plan) ==
    LET T == hist[plan.cls]
    IN  /\ \A h \in T, n \in plan.rows : h.ver # n.ver
        /\ WellFormed(plan.cls, T \cup plan.rows)

Commit(r) ==
    LET plan == req[r].plan
    IN  /\ req[r].phase = "admitted"
        /\ CommitAccepted(plan)
        /\ hist' = [hist EXCEPT ![plan.cls] = @ \cup plan.rows]
        /\ projection' = [projection EXCEPT ![plan.cls] = plan.shown]
        /\ version' = plan.version
        /\ rowLock' = Null
        /\ req' = [req EXCEPT ![r] = Idle]
        /\ UNCHANGED <<baseline, links>>

\* A refusal at any point, a lost connection or a cancelled request: the
\* transaction rolls back and its row lock goes with it.
Rollback(r) ==
    /\ req[r].phase \in {"locked", "admitted"}
    /\ rowLock' = Null
    /\ req' = [req EXCEPT ![r] = Idle]
    /\ UNCHANGED <<version, projection, hist, baseline, links>>

\* Evidence links are appended without the Asset lock.
LinkEvidence ==
    /\ \E a \in Attachment, role \in LinkRole : links' = links \cup {<<a, role>>}
    /\ UNCHANGED <<version, projection, hist, baseline, rowLock, req>>

\* create_received_unit has just committed: version 1, RECEIVED, both witnesses.
Init ==
    /\ version = 1
    /\ baseline \in {b \in [Class -> Location \cup Party \cup {Null}] :
                       /\ b["location"] \in Location /\ b["owner"] \in Party
                       /\ b["custody"] \in Party \cup {Null}
                       /\ b["state"] = Null /\ b["assignment"] = Null}
    /\ projection = [baseline EXCEPT !["state"] = "RECEIVED", !["assignment"] = NoEvent]
    /\ hist = [c \in Class |->
                 IF c = "state"
                 THEN {NewRow(1, Null, "RECEIVED", "NONE", 0, 0, 0, Null)} ELSE {}]
    /\ links = {}
    /\ rowLock = Null
    /\ req = [r \in Request |-> Idle]

Next ==
    \/ LinkEvidence
    \/ \E r \in Request :
          \/ Observe(r) \/ Begin(r) \/ AdmitOrdinary(r) \/ AdmitCorrection(r)
          \/ Commit(r) \/ Rollback(r)

Spec == Init /\ [][Next]_vars

-----------------------------------------------------------------------------
(***************************************************************************)
(* Properties.                                                             *)
(***************************************************************************)

Rows(c) == [ver : 1..MaxVersion, from : Fact[c] \cup {Null}, to : Fact[c],
            role : {"NONE", "REVERSAL", "CORRECTED"}, root : 0..MaxVersion,
            pair : 0..MaxVersion, gen : Nat,
            evidence : Attachment \cup {Null}]

ShownValues(c) == IF c = "assignment" THEN 0..MaxVersion ELSE Fact[c]

\* Every table holds rows of its own class and every projection a represented
\* value: in particular the owner is never NULL and no foreign id gets in.
TypeOK ==
    /\ version \in 1..MaxVersion
    /\ \A c \in Class : /\ hist[c] \subseteq Rows(c)
                        /\ projection[c] \in ShownValues(c)
                        /\ c # "state" => baseline[c] \in Fact[c]
    /\ links \subseteq Attachment \X LinkRole
    /\ rowLock \in Request \cup {Null}
    /\ \A r \in Request : req[r].phase \in {"idle", "observed", "locked", "admitted"}

\* ADR-005: the five classes together produce each version 1..assets.version
\* exactly once, whatever the interleaving of requests.
HistoryAccountsForVersion == VersionsExact

\* D3: each projection of the assets row is what the latest effective row of its
\* class, or the creation witness, says (reconcile_assets finds no mismatch).
ProjectionsFollowHistory == ProjectionsAgree

\* asset_correction_anomalies stays empty, so no operation is ever refused with
\* "Malformed correction authority", and _correct never meets an illegal
\* corrected edge: honest histories do not lock themselves out.
NeverAnomalous == LifecycleSound /\ \A c \in Class : WellFormed(c, hist[c])

\* What admission prepared under the lock is still what the unique constraint
\* and the deferred pair trigger accept when the transaction commits.
CommitNeverRefused ==
    \A r \in Request : req[r].phase = "admitted" => CommitAccepted(req[r].plan)

\* Effective history is one unbroken chain per class: each effective row starts
\* from the fact that was in force before its root.
EffectiveChain ==
    \A c \in Class : \A h \in Effective(hist[c]) :
        \/ c = "state" /\ h.ver = 1
        \/ \E p \in PriorFact(c, hist[c], RootOf(h)) : h.from = p.to

\* After any mix of transitions and corrections every effective lifecycle edge is
\* legal where it stands; an exit from ON_HOLD returns to its effective entry state.
EffectiveLifecycleLegal ==
    \A h \in Effective(hist["state"]) : h.ver # 1 =>
        \E p \in PriorFact("state", hist["state"], RootOf(h)) :
            h.to \in Allowed(p.to, p.from)

\* D17: an Asset is RETIRED only by an effective row whose evidence is linked to
\* it for disposal.
RetirementProven ==
    projection["state"] = "RETIRED" =>
        \E h \in LatestFact("state") : ValidAssetEvidence(h.evidence, "DISPOSAL_EVIDENCE")

\* A request that is admitted on the version its caller read acts on exactly the
\* facts its caller saw: no other commit came between the read and the lock.
NoLostUpdate ==
    \A r \in Request :
        /\ req[r].phase = "admitted"
        /\ req[r].plan.expected = req[r].seen.version
        => projection = req[r].seen.projection

\* transition_options and transition_asset agree: what the read offers is what
\* admission at the same version accepts (evidence apart), and nothing else.
OptionsMatchAdmission ==
    LET Op(to) == [cls |-> "state", from |-> projection["state"], to |-> to,
                   evidence |-> Null, expected |-> version]
    IN  TransitionOptions =
            UNION {{to \in AssetState :
                        /\ projection["state"] # "ON_HOLD" => to \in LIFECYCLE[projection["state"]]
                        /\ EdgeAccepted(Op(to), latest)} : latest \in LatestFact("state")}

\* What a reader of the Asset row took a class to be: an assignment projection
\* stands for the assignee of the event it names.
Understood(c, shown) ==
    IF c # "assignment" THEN {shown}
    ELSE IF shown = NoEvent THEN {Null}
    ELSE {h.to : h \in {k \in hist[c] : k.ver = shown}}

\* A sync conflict quotes the expected version as its caller saw it: whatever was
\* written, reversed and corrected since, capture_asset_facts still gives the
\* facts that a read of that version showed, and those of the current version
\* are the projections.
FactsAsSeen ==
    /\ \A c \in Class : CaptureAssetFacts(version)[c] = Understood(c, projection[c])
    /\ \A r \in Request : req[r].phase # "idle" =>
           \A c \in Class : CaptureAssetFacts(req[r].seen.version)[c]
                               = Understood(c, req[r].seen.projection[c])

\* The five histories with their locks, plans and correction pairs are the one
\* ledger of AssetLedger: the entries are the effective rows of all classes, and
\* what a reader of the Asset row understands is the newest of each.  A commit
\* is one operation, or one correction of the newest entry and of nothing else.
Ledger == INSTANCE AssetLedger WITH
              LedgerClass <- Class, LedgerFact <- Fact,
              entries <- UNION {{[cls |-> c, to |-> h.to, at |-> h.ver] :
                                    h \in Effective(hist[c])} : c \in Class},
              facts <- [c \in Class |-> CHOOSE f \in Fact[c] : Understood(c, projection[c]) = {f}]

ImplementsLedger == Ledger!LedgerSpec
=============================================================================
