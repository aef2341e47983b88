--------------------------- MODULE ReceiptCorrections ---------------------------
(***************************************************************************)
(* Corrections of one sealed receipt and the statuses of its exceptions.   *)
(* A correction holds the order, the receipt and then every workflow row   *)
(* of the receipt; it appends a pair, evaluates the whole receipt again,   *)
(* resolves the observations that lost their support and opens new ones.   *)
(* A person who changes one status locks that one workflow row.            *)
(***************************************************************************)
EXTENDS Classification

CONSTANTS
    Receipt,         \* the receipt
    Captured,        \* the sealed receipts of this instance: [order, packing, lines, bound]
    Orders,          \* the issued orders of this instance: sequences of order lines
    Identifiers,     \* asset_identifiers of other Assets: [asset, serial]
    Changes,         \* the values a correction may give, as partial records
    Correctors,      \* transactions that correct lines
    Latecomers,      \* transactions that try to add a line to the sealed receipt
    Reviewers,       \* transactions that change the status of one exception
    MaxEvaluation,   \* bound on the corrections of the receipt
    MaxException     \* bound on its observations

Tx == Correctors \cup Latecomers \cup Reviewers

\* Rows of receipt_lines, and the facts of a line that a correction may give.
Serials == {i.serial : i \in Identifiers} \cup {Unreadable, Null}

Condition == {"GOOD", "DAMAGED", "OPENED", "UNKNOWN"}

ReceiptLine ==
    [id : Nat, receipt : {Receipt}, poLine : PoLine \cup {Null}, item : Item,
     quantity : Nat \ {0}, uom : Uom, condition : Condition, packing : Nat \cup {Null},
     serialized : BOOLEAN, asset : Nat \cup {Null} \cup {i.asset : i \in Identifiers},
     serial : Serials]

LinePair == [reversal : ReceiptLine, corrected : ReceiptLine]

\* receipt_comparators with the evaluation that introduced them, 0 for receiving.
Comparator == [receipt : {Receipt}, line : PoLine, generation : Nat, introduced : Nat]

CorrectionPlan == [line : Nat, pair : LinePair, bound : SUBSET Comparator]

CorrectableFacts(v) ==
    /\ "poLine" \in DOMAIN v => v.poLine \in PoLine \cup {Null}
    /\ "item" \in DOMAIN v => v.item \in Item
    /\ "quantity" \in DOMAIN v => v.quantity \in Nat \ {0}
    /\ "uom" \in DOMAIN v => v.uom \in Uom
    /\ "condition" \in DOMAIN v => v.condition \in Condition
    /\ "packing" \in DOMAIN v => v.packing \in Nat \cup {Null}
    /\ "serial" \in DOMAIN v => v.serial \in Serials

\* An order as it is issued: one line for every logical line.
IssuedOrder(o) ==
    /\ o \in Seq(PurchaseOrderLine) /\ Len(o) <= MaxLine
    /\ \A l \in DOMAIN o : o[l].supersedes = Null
    /\ \A k, l \in DOMAIN o : o[k].number = o[l].number => k = l

\* A receipt as it is sealed: every line that selects an order line has pinned it.
SealedReceipt(r) ==
    /\ r.order \in BOOLEAN /\ r.packing \in BOOLEAN
    /\ r.lines \in Seq(ReceiptLine) /\ r.bound \subseteq PoLine
    /\ \A l \in DOMAIN r.lines : r.lines[l].poLine \in r.bound \cup {Null}

ASSUME ReceiptCorrectionsAssumption ==
    /\ MaxEvaluation \in Nat /\ MaxException \in Nat
    /\ Null \notin Tx \cup {Receipt, Unreadable, "correct", "late", "status"}
    /\ Null \notin CorrectionPlan
    /\ \A i \in Identifiers : i.asset # Null
    /\ \A v \in Changes : CorrectableFacts(v)
    /\ \A o \in Orders : IssuedOrder(o)
    /\ \A r \in Captured : SealedReceipt(r)

VARIABLES
    receipt,       \* the header and the receipt_lines
    corrections,   \* receipt_line_corrections: the pairs of every line
    observations,  \* receiving_exceptions in order of insertion: [key, origin]
    workflow,      \* exception_workflows: [status, seq] of every observation
    events,        \* exception_events: [from, to, cause] of every observation
    evaluations,   \* receipt_correction_evaluations with what they pin and link
    tx             \* the transactions

correctionVars == <<receipt, corrections, observations, workflow, events, evaluations, tx>>

vars == <<poVars, correctionVars>>

LineId == DOMAIN receipt.lines

Observed == DOMAIN observations

Edges == INSTANCE ExceptionStatus WITH Exception <- 1..MaxException, Unopened <- Null,
             status <- [o \in 1..MaxException |->
                           IF o \in Observed THEN workflow[o].status ELSE Null]

\* Rows of the tables of 0011.
PinRow == [line : PoLine, generation : Nat]

LinkRow == [supported : BOOLEAN, prior : Nat]

EvaluationRow ==
    [line : Nat, pins : Seq(Nat), expectations : SUBSET PinRow, links : Seq(LinkRow)]

WorkflowRow == [status : Edges!Status, seq : Nat]

EventRow == [from : Edges!Status, to : Edges!Status, cause : Nat]

-----------------------------------------------------------------------------
(***************************************************************************)
(* Effective facts and classification.                                     *)
(***************************************************************************)
\* The facts of a line at a generation; generation 0 is the line as captured.
FactsAt(C, l, g) == IF g = 0 THEN receipt.lines[l] ELSE C[l][g].corrected

EffectiveReceiptLine(C, l) == FactsAt(C, l, Len(C[l]))

ExpectationAt(p, g) == IF g = 0 THEN Stated(p) ELSE poCorrections[p][g].corrected

\* The Asset whose serial a conflict line repeats.
Conflicting(f) ==
    LET held == {i \in Identifiers : i.serial = f.serial}
    IN  IF f.asset # Null \/ held = {} THEN Null ELSE (CHOOSE i \in held : TRUE).asset

\* The generation of an order line among pinned expectations.
PinnedExpectation(pins, p) ==
    IF p = Null THEN Null ELSE ExpectationAt(p, (CHOOSE c \in pins : c.line = p).generation)

\* _disagreements: S is the population of lines, pins the expectations.
Disagreements(S, pins) ==
    (UNION {LineExceptions(f, PinnedExpectation(pins, f.poLine), Conflicting(f)) : f \in S})
    \cup (UNION {{Aggregate(Receipt, c.line, k) :
                      k \in AggregateKinds(S, c.line, ExpectationAt(c.line, c.generation))} :
                 c \in pins})

Pins(comps) == {[line |-> c.line, generation |-> c.generation] : c \in comps}

\* receipt_line_corrections_anomalies: every reversal repeats what it replaces.
LineCoherent(C, l) == \A g \in DOMAIN C[l] : C[l][g].reversal = FactsAt(C, l, g - 1)

-----------------------------------------------------------------------------
(***************************************************************************)
(* Locks.  A transaction takes the locks of its list in order and waits    *)
(* for each; a workflow row is read when its lock is granted.              *)
(***************************************************************************)
OrderLock == <<"order", 0>>
ReceiptLock == <<"receipt", 0>>
WorkflowLock(o) == <<"workflow", o>>

Free == [kind |-> Null, held |-> {}, todo |-> <<>>, seen |-> <<>>, ask |-> Null, plan |-> Null]

LockPlan_ReceiptFirst(kind) ==
    IF ~ receipt.order THEN <<ReceiptLock>>
    ELSE IF kind = "correct" THEN <<ReceiptLock, OrderLock>> ELSE <<OrderLock, ReceiptLock>>

\* lock_receiving_context: the order, then the receipt.
LockPlan(kind) == IF receipt.order THEN <<OrderLock, ReceiptLock>> ELSE <<ReceiptLock>>

WorkflowPlan_None == <<>>

\* _evaluate locks the workflows of the receipt in order of identity.
WorkflowPlan == [o \in Observed |-> WorkflowLock(o)]

Holders(k) == {t \in Tx : k \in tx[t].held}

\* The progress of transaction t becomes x.
Stage(t, x) == tx' = [tx EXCEPT ![t] = x]

\* A line that comes after the seal takes the same locks before it is refused.
OpenContext(t, kind) ==
    /\ tx[t].kind = Null
    /\ kind = "correct" => Len(evaluations) < MaxEvaluation
    /\ Stage(t, [tx[t] EXCEPT !.kind = kind, !.todo = LockPlan(kind)])
    /\ UNCHANGED <<poVars, receipt, corrections, observations, workflow, events, evaluations>>

\* transition_exception: expected is the status that a person read at some time.
AskStatus(t, o, expected, to) ==
    /\ tx[t].kind = Null
    /\ to \in Edges!WORKFLOW[expected]
    /\ Stage(t, [tx[t] EXCEPT !.kind = "status", !.todo = <<WorkflowLock(o)>>,
                              !.ask = [target |-> o, expected |-> expected, to |-> to]])
    /\ UNCHANGED <<poVars, receipt, corrections, observations, workflow, events, evaluations>>

\* What a transaction has read when it is granted the lock k.
Reading(seen, k) ==
    IF k[1] # "workflow" THEN seen
    ELSE [o \in DOMAIN seen \cup {k[2]} |-> IF o = k[2] THEN workflow[o] ELSE seen[o]]

Acquire(t) ==
    /\ tx[t].todo # <<>>
    /\ LET k == Head(tx[t].todo)
       IN  /\ Holders(k) = {}
           /\ Stage(t, [tx[t] EXCEPT !.held = @ \cup {k}, !.todo = Tail(@),
                                     !.seen = Reading(@, k)])
           /\ IF k = OrderLock THEN poLock = Null /\ poLock' = t ELSE poLock' = poLock
    /\ UNCHANGED <<catalog, status, lines, poCorrections, comparators, receipt, corrections,
                   observations, workflow, events, evaluations>>

Release_KeepsOrder(t) == tx' = [tx EXCEPT ![t] = Free] /\ poLock' = poLock

Release(t) ==
    /\ tx' = [tx EXCEPT ![t] = Free]
    /\ poLock' = IF poLock = t THEN Null ELSE poLock

\* A refused statement, a lost connection or a deadlock victim.
Rollback(t) ==
    /\ tx[t].kind # Null
    /\ Release(t)
    /\ UNCHANGED <<catalog, status, lines, poCorrections, comparators, receipt, corrections,
                   observations, workflow, events, evaluations>>

-----------------------------------------------------------------------------
(***************************************************************************)
(* The pair and the comparator: correct_receipt_line up to _evaluate.      *)
(***************************************************************************)
Given(values, field, kept) == IF field \in DOMAIN values THEN values[field] ELSE kept

\* The values on top of the facts of a line; who and what the line is stays.
Replaced(line, values) ==
    [line EXCEPT !.poLine = Given(values, "poLine", @), !.item = Given(values, "item", @),
                 !.quantity = Given(values, "quantity", @), !.uom = Given(values, "uom", @),
                 !.condition = Given(values, "condition", @),
                 !.packing = Given(values, "packing", @), !.serial = Given(values, "serial", @)]

Overlay_Original(l, values) == Replaced(receipt.lines[l], values)

\* _pair: the given values on top of the effective head.
Overlay(l, values) == Replaced(EffectiveReceiptLine(corrections, l), values)

ActiveSelection(p) == receipt.order /\ p \in Present /\ status = "ISSUED" /\ Active(p)

\* record_guard for receipt lines: original is the line as captured, head its
\* effective facts, new the replacement.
ReplacementAdmitted(original, head, new) ==
    /\ original.serialized => new.quantity = 1 /\ new.item = original.item
    /\ ~ original.serialized => new.serial = Null /\ ~ catalog[new.item].serialized
    /\ original.asset # Null => new.serial = original.serial
    /\ original.serialized /\ original.asset = Null => Conflicting(new) # Null
    /\ new.packing # Null => receipt.packing
    /\ new.poLine \notin {Null, head.poLine} => ActiveSelection(new.poLine)

Own(C) == {c \in C : c.receipt = Receipt}

OwnComparators == Own(comparators)

\* _bind_comparator: a selection that the receipt already has keeps its generation.
BindingAdmitted(p, expected) ==
    \/ p = Null
    \/ \E c \in OwnComparators : c.line = p
    \/ ActiveSelection(p) /\ expected = Generation(p) /\ PairsCoherent(p)

Introduced(p) ==
    IF p = Null \/ \E c \in OwnComparators : c.line = p THEN {}
    ELSE {[receipt |-> Receipt, line |-> p, generation |-> Generation(p),
           introduced |-> Len(evaluations) + 1]}

-----------------------------------------------------------------------------
(***************************************************************************)
(* Evaluation.  The rows of a correction are one record of the tables they *)
(* change, so that the same conditions can be asked of what is committed   *)
(* and of what a transaction is about to commit.                           *)
(***************************************************************************)
Tables == [corrections |-> corrections, comparators |-> comparators,
           observations |-> observations, workflow |-> workflow, events |-> events,
           evaluations |-> evaluations]

\* The support that the latest evaluation gave an observation, TRUE before any.
PriorSupport(o) ==
    IF evaluations = <<>> THEN TRUE ELSE Last(evaluations).links[o].supported

StillSupported_Revived(o, desired) == observations[o].key \in desired

\* Once superseded, an observation is never the record of a later disagreement.
StillSupported(o, desired) == PriorSupport(o) /\ observations[o].key \in desired

\* An observation that lost its support is resolved unless a person closed it.
Superseded_OpenOnly(t, supported) ==
    {o \in Observed \ supported : tx[t].seen[o].status = "OPEN"}

Superseded(t, supported) ==
    {o \in Observed \ supported : tx[t].seen[o].status \in Edges!Unresolved}

PinnedLines_Own(C, l) == [k \in LineId |-> IF k = l THEN Len(C[k]) ELSE 0]

\* receipt_evaluation_lines: every line is pinned, corrected or not.
PinnedLines(C, l) == [k \in LineId |-> Len(C[k])]

Corrected(p) == [corrections EXCEPT ![p.line] = Append(@, p.pair)]

BoundBy(p) == comparators \cup p.bound

Population(C) == {EffectiveReceiptLine(C, l) : l \in LineId}

\* What the receipt disagrees with once the plan p is carried out.
Desired(p) == Disagreements(Population(Corrected(p)), Pins(Own(BoundBy(p))))

Supported(desired) == {o \in Observed : StillSupported(o, desired)}

Keys(O) == {observations[o].key : o \in O}

\* The disagreements that no supported observation records, in some order.
Unrecorded(desired) == SetToSeq(desired \ Keys(Supported(desired)))

ObservationsAfter(fresh, seq) ==
    observations \o [n \in DOMAIN fresh |-> [key |-> fresh[n], origin |-> seq]]

WorkflowAfter(fresh, closing) ==
    [o \in Observed |-> IF o \in closing THEN [status |-> "RESOLVED", seq |-> workflow[o].seq + 1]
                        ELSE workflow[o]]
    \o [n \in DOMAIN fresh |-> [status |-> "OPEN", seq |-> 0]]

EventsAfter(fresh, closing, seq) ==
    [o \in Observed |-> IF o \in closing
                        THEN Append(events[o], [from |-> workflow[o].status, to |-> "RESOLVED",
                                                cause |-> seq])
                        ELSE events[o]]
    \o [n \in DOMAIN fresh |-> <<>>]

\* A link repeats the sequence number that the workflow had when it was locked.
LinksAfter(seen, fresh, supported) ==
    [o \in 1..(Len(observations) + Len(fresh)) |->
        IF o \in Observed THEN [supported |-> o \in supported, prior |-> seen[o].seq]
        ELSE [supported |-> TRUE, prior |-> 0]]

\* _evaluate, with the pair and the comparator that precede it.
After(t) ==
    LET p         == tx[t].plan
        seq       == Len(evaluations) + 1
        desired   == Desired(p)
        supported == Supported(desired)
        closing   == Superseded(t, supported)
        fresh     == Unrecorded(desired)
    IN  [corrections  |-> Corrected(p),
         comparators  |-> BoundBy(p),
         observations |-> ObservationsAfter(fresh, seq),
         workflow     |-> WorkflowAfter(fresh, closing),
         events       |-> EventsAfter(fresh, closing, seq),
         evaluations  |-> Append(evaluations,
                              [line  |-> p.line,
                               pins  |-> PinnedLines(Corrected(p), p.line),
                               expectations |-> Pins(Own(BoundBy(p))),
                               links |-> LinksAfter(tx[t].seen, fresh, supported)])]

-----------------------------------------------------------------------------
(***************************************************************************)
(* receipt_evaluation_anomalies: what the tables T say of evaluation n.    *)
(***************************************************************************)
\* receipt_evaluation_disagreements: classified from the pins, never from today.
DisagreementsThen(T, n) ==
    LET e == T.evaluations[n]
    IN  Disagreements({FactsAt(T.corrections, l, e.pins[l]) : l \in LineId}, e.expectations)

CausedBy(T, l, n) == Cardinality({m \in 1..n : T.evaluations[m].line = l})

PopulationSound(T, n) ==
    LET e == T.evaluations[n]
    IN  /\ \A l \in LineId : e.pins[l] = CausedBy(T, l, n)
        /\ e.expectations =
               Pins({c \in T.comparators : c.receipt = Receipt /\ c.introduced <= n})
        /\ DOMAIN e.links = {o \in DOMAIN T.observations : T.observations[o].origin <= n}

SupersededBefore(T, o, n) ==
    \E m \in 1..(n - 1) : o \in DOMAIN T.evaluations[m].links /\ ~ T.evaluations[m].links[o].supported

SupportSound(T, n) ==
    LET links == T.evaluations[n].links
        key(o) == T.observations[o].key
        disagreements == DisagreementsThen(T, n)
    IN  /\ \A o \in DOMAIN links :
              links[o].supported <=> key(o) \in disagreements /\ ~ SupersededBefore(T, o, n)
        /\ \A d \in disagreements :
              Cardinality({o \in DOMAIN links : links[o].supported /\ key(o) = d}) = 1

StatusAfter(T, o, seq) == IF seq = 0 THEN "OPEN" ELSE T.events[o][seq].to

ConsequencesSound(T, n) ==
    \A o \in DOMAIN T.evaluations[n].links :
        LET x        == T.evaluations[n].links[o]
            caused   == {s \in DOMAIN T.events[o] : T.events[o][s].cause = n}
        IN  /\ x.prior <= Len(T.events[o])
            /\ caused = IF ~ x.supported /\ StatusAfter(T, o, x.prior) \in Edges!Unresolved
                        THEN {x.prior + 1} ELSE {}

EvaluationSound(T, n) == PopulationSound(T, n) /\ SupportSound(T, n) /\ ConsequencesSound(T, n)

\* exception_workflow_anomalies.
WorkflowSound(T, o) ==
    /\ T.workflow[o].seq = Len(T.events[o])
    /\ T.workflow[o].status = StatusAfter(T, o, Len(T.events[o]))
    /\ \A s \in DOMAIN T.events[o] :
          /\ T.events[o][s].from = StatusAfter(T, o, s - 1)
          /\ T.events[o][s].to \in Edges!WORKFLOW[T.events[o][s].from]

Healthy(T) ==
    /\ \A l \in LineId : LineCoherent(T.corrections, l)
    /\ \A n \in DOMAIN T.evaluations : EvaluationSound(T, n)
    /\ \A o \in DOMAIN T.observations : WorkflowSound(T, o)

-----------------------------------------------------------------------------
(***************************************************************************)
(* The steps of a correction and of a status change.                       *)
(***************************************************************************)
\* The values, the generation of the line and that of the order line that it
\* selects come from what the caller read before.
PlanCorrection(t, l, expected, poExpected, values) ==
    /\ tx[t].kind = "correct" /\ tx[t].todo = <<>> /\ tx[t].plan = Null
    /\ LineCoherent(corrections, l)
    /\ \A n \in DOMAIN evaluations : EvaluationSound(Tables, n)
    /\ expected = Len(corrections[l])
    /\ LET head == EffectiveReceiptLine(corrections, l)
           new  == Overlay(l, values)
       IN  /\ ReplacementAdmitted(receipt.lines[l], head, new)
           /\ BindingAdmitted(new.poLine, poExpected)
           /\ Stage(t, [tx[t] EXCEPT
                          !.plan = [line |-> l, pair |-> [reversal |-> head, corrected |-> new],
                                    bound |-> Introduced(new.poLine)],
                          !.todo = WorkflowPlan])
    /\ UNCHANGED <<poVars, receipt, corrections, observations, workflow, events, evaluations>>

Evaluating(t) == tx[t].plan # Null /\ tx[t].todo = <<>>

\* transition_exception and the two times that
\* assert_receipt_correction_complete runs.
Complete(t) ==
    /\ \A o \in Observed : tx[t].seen[o] = workflow[o]
    /\ Healthy(After(t))

CommitCorrection(t) ==
    /\ Evaluating(t) /\ Complete(t)
    /\ Len(After(t).observations) <= MaxException
    /\ LET T == After(t)
       IN  /\ corrections' = T.corrections /\ comparators' = T.comparators
           /\ observations' = T.observations /\ workflow' = T.workflow
           /\ events' = T.events /\ evaluations' = T.evaluations
    /\ Release(t)
    /\ UNCHANGED <<catalog, status, lines, poCorrections, receipt>>

MoveAdmitted_TrustsCaller(o, expected, to) == to \in Edges!WORKFLOW[expected]

\* fleetops.transition_exception under the row lock, and the CHECK of the event.
MoveAdmitted(o, expected, to) ==
    /\ WorkflowSound(Tables, o)
    /\ expected = workflow[o].status
    /\ to \in Edges!WORKFLOW[workflow[o].status]

CommitStatus(t) ==
    /\ tx[t].kind = "status" /\ tx[t].todo = <<>>
    /\ LET a == tx[t].ask
       IN  /\ MoveAdmitted(a.target, a.expected, a.to)
           /\ events' = [events EXCEPT ![a.target] =
                  Append(@, [from |-> workflow[a.target].status, to |-> a.to, cause |-> 0])]
           /\ workflow' = [workflow EXCEPT ![a.target] =
                  [status |-> a.to, seq |-> workflow[a.target].seq + 1]]
    /\ Release(t)
    /\ UNCHANGED <<catalog, status, lines, poCorrections, comparators, receipt, corrections,
                   observations, evaluations>>

\* Receiving leaves exactly the disagreements of what it captured, all OPEN.
Opening(r) ==
    SetToSeq({[key |-> k, origin |-> 0] :
                  k \in Disagreements({r.lines[l] : l \in DOMAIN r.lines},
                                      Pins({[line |-> p, generation |-> 0] : p \in r.bound}))})

Init ==
    /\ catalog \in [Item -> [uom : Uom, serialized : BOOLEAN]]
    /\ status = "ISSUED" /\ poLock = Null
    /\ lines \in {[l \in PoLine |-> IF l \in DOMAIN o THEN o[l] ELSE Null] : o \in Orders}
    /\ poCorrections = [l \in PoLine |-> <<>>]
    /\ receipt \in Captured /\ receipt.bound \subseteq Present
    /\ \A l \in LineId : catalog[receipt.lines[l].item].serialized = receipt.lines[l].serialized
    /\ comparators = {[receipt |-> Receipt, line |-> p, generation |-> 0, introduced |-> 0] :
                          p \in receipt.bound}
    /\ corrections = [l \in LineId |-> <<>>]
    /\ observations = Opening(receipt)
    /\ workflow = [o \in Observed |-> [status |-> "OPEN", seq |-> 0]]
    /\ events = [o \in Observed |-> <<>>]
    /\ evaluations = <<>>
    /\ tx = [t \in Tx |-> Free]

OrderNext ==
    \/ \E l \in PoLine, i \in Item, q \in Quantity : AmendLine(l, i, q)
    \/ \E l \in PoLine, g \in 0..MaxGeneration, e \in Expectation : CorrectProcurement(l, g, e)
    \/ \E i \in Item, u \in Uom, s \in BOOLEAN : UpdateItem(i, u, s)

Correct(t, values) ==
    \/ OpenContext(t, "correct")
    \/ \E l \in LineId, g \in 0..MaxEvaluation, p \in 0..MaxGeneration, v \in values :
          PlanCorrection(t, l, g, p, v)
    \/ CommitCorrection(t)

Review(t) ==
    \/ \E o \in Observed, from \in Edges!Status, to \in Edges!Status : AskStatus(t, o, from, to)
    \/ CommitStatus(t)

Next ==
    \/ OrderNext /\ UNCHANGED correctionVars
    \/ \E t \in Correctors : Correct(t, Changes)
    \/ \E t \in Latecomers : OpenContext(t, "late")
    \/ \E t \in Reviewers : Review(t)
    \/ \E t \in Tx : Acquire(t) \/ Rollback(t)

Spec == Init /\ [][Next]_vars
-----------------------------------------------------------------------------
(***************************************************************************)
(* Properties.                                                             *)
(***************************************************************************)
\* The rows of the 0011 tables keep their shape and number each other without a
\* hole, and only a transaction in progress holds a lock.
CorrectionsTypeOK ==
    /\ poLock \in Tx \cup {Null}
    /\ \A c \in comparators : c.line \in Present /\ c.introduced \in 0..Len(evaluations)
    /\ corrections \in [LineId -> Seq(LinePair)] /\ evaluations \in Seq(EvaluationRow)
    /\ workflow \in [Observed -> WorkflowRow]
    /\ events \in [Observed -> Seq(EventRow)]
    /\ \A t \in Tx : tx[t].kind = Null => tx[t].held = {} /\ poLock # t
    /\ \A t \in Tx : poLock = t <=> OrderLock \in tx[t].held

\* What the effective lines say against the effective expectations of the order,
\* as they are at this moment.
Today ==
    Disagreements(Population(corrections),
                  {[line |-> c.line, generation |-> Generation(c.line)] : c \in OwnComparators})

Live == {o \in Observed : PriorSupport(o)}

\* ADR-013: the supported observations are one to one the disagreements of today,
\* although lines were corrected, order lines amended or corrected and other
\* comparators bound since the receipt was sealed.
SupportExact ==
    /\ {observations[o].key : o \in Live} = Today
    /\ \A o, p \in Live : observations[o].key = observations[p].key => o = p

\* D11: whatever is still listed as open is a disagreement of today; a person who
\* acts on an old status cannot bring a superseded observation back, and no
\* supported observation was closed by a correction.
OpenMeansLive ==
    /\ \A o \in Observed : workflow[o].status \in Edges!Unresolved => o \in Live
    /\ \A o \in Live : \A s \in DOMAIN events[o] : events[o][s].cause = 0

\* What the service computed passes assert_receipt_correction_complete, for this
\* evaluation and for every earlier one, and every automatic resolution meets the
\* status it expects: an admitted correction is never refused for what happened
\* while it waited, and no old evaluation becomes an anomaly that blocks the next.
CorrectionCommits == \A t \in Tx : Evaluating(t) => Complete(t)

Blocking(t) == IF tx[t].todo = <<>> THEN {} ELSE Holders(Head(tx[t].todo)) \ {t}

\* "This path already holds PO then receipt, and never reverses that order": no
\* set of corrections, late arrivals and status changes waits in a circle.
NoCircularWait ==
    \A S \in (SUBSET Tx) \ {{}} : \E t \in S : Blocking(t) \cap S = {}

\* Corrections and people together move every observation as one workflow.
ImplementsStatus == Edges!Spec
=============================================================================
