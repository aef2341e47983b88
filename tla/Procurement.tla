----------------------------- MODULE Procurement -----------------------------
(***************************************************************************)
(* One purchase order: its draft, its issue, the lineages of amendments of *)
(* its lines and the typed corrections of issued lines.  Every operation   *)
(* takes the row lock of the order before it decides anything and commits  *)
(* before it releases it, so it is one step that waits for the lock.       *)
(***************************************************************************)
EXTENDS Integers, FiniteSets, Sequences, SequencesExt

CONSTANTS
    Item, Uom,       \* the catalog and its units of measure
    Quantity,        \* the quantities an expectation may have
    Number,          \* logical line numbers of the order
    MaxLine,         \* bound on the versions of all lines together
    MaxGeneration,   \* bound on the corrections of one line
    Null

\* A row of purchase_order_lines.
PurchaseOrderLine ==
    [number : Number, item : Item, quantity : Quantity, uom : Uom,
     supersedes : 1..MaxLine \cup {Null}]

ASSUME ProcurementAssumption ==
    /\ MaxLine \in Nat /\ MaxGeneration \in Nat
    /\ Null \notin Nat /\ Null \notin PurchaseOrderLine
    /\ Quantity \subseteq Nat \ {0}

VARIABLES
    catalog,        \* items: the default uom and whether units are serialized
    status,         \* purchase_orders.status
    poLock,         \* the transaction that holds the order FOR NO KEY UPDATE
    lines,          \* purchase_order_lines, numbered in order of insertion
    poCorrections,  \* purchase_order_line_corrections: the pairs of every line
    comparators     \* receipt_comparators: which expectation a receipt has pinned

poVars == <<catalog, status, poLock, lines, poCorrections, comparators>>

PoLine == 1..MaxLine

Expectation == [item : Item, quantity : Quantity, uom : Uom]

Present == {l \in PoLine : lines[l] # Null}

\* Active is the absence of a successor, never a mark on the row.
Active(l) == \A s \in Present : lines[s].supersedes # l

Stated(l) == [item |-> lines[l].item, quantity |-> lines[l].quantity, uom |-> lines[l].uom]

Generation(l) == Len(poCorrections[l])

EffectiveLine_Original(l) == Stated(l)

\* effective_purchase_order_lines: the latest CORRECTED row, or the line itself.
EffectiveLine(l) ==
    IF poCorrections[l] = <<>> THEN Stated(l) ELSE Last(poCorrections[l]).corrected

\* purchase_order_line_corrections_anomalies: every reversal must repeat the
\* authority that its pair replaces.
PairsCoherent(l) ==
    \A g \in DOMAIN poCorrections[l] :
        poCorrections[l][g].reversal =
            IF g = 1 THEN Stated(l) ELSE poCorrections[l][g - 1].corrected

-----------------------------------------------------------------------------
Fresh(l) == l = Cardinality(Present) + 1

\* uom is copied from the Item once, in the trigger.
Insert(l, number, item, quantity, prior) ==
    lines' = [lines EXCEPT ![l] =
                 [number |-> number, item |-> item, quantity |-> quantity,
                  uom |-> catalog[item].uom, supersedes |-> prior]]

CreateLine(number, item, quantity) ==
    /\ poLock = Null
    /\ status = "DRAFT"
    /\ \A l \in Present : lines[l].number # number
    /\ \E l \in PoLine : Fresh(l) /\ Insert(l, number, item, quantity, Null)
    /\ UNCHANGED <<catalog, status, poLock, poCorrections, comparators>>

\* Draft edits keep the uom that was captured, whatever Item they select.
UpdateLine(l, item, quantity) ==
    /\ poLock = Null
    /\ status = "DRAFT"
    /\ l \in Present
    /\ lines' = [lines EXCEPT ![l].item = item, ![l].quantity = quantity]
    /\ UNCHANGED <<catalog, status, poLock, poCorrections, comparators>>

IssueOrder ==
    /\ poLock = Null
    /\ status = "DRAFT"
    /\ status' = "ISSUED"
    /\ UNCHANGED <<catalog, poLock, lines, poCorrections, comparators>>

AmendAdmitted_AnyVersion(prior) == prior \in Present

AmendAdmitted(prior) == prior \in Present /\ Active(prior)

\* create_line with a predecessor: the successor keeps its line number.
AmendLine(prior, item, quantity) ==
    /\ poLock = Null
    /\ status = "ISSUED"
    /\ AmendAdmitted(prior)
    /\ \E l \in PoLine : Fresh(l) /\ Insert(l, lines[prior].number, item, quantity, prior)
    /\ UNCHANGED <<catalog, status, poLock, poCorrections, comparators>>

Pinned(l) == \E c \in comparators : c.line = l

CorrectionAdmitted_Thawed(l, expected) == expected = Generation(l)

CorrectionAdmitted(l, expected) == ~ Pinned(l) /\ expected = Generation(l)

\* correct_procurement: a reversal of the effective facts and their replacement.
CorrectProcurement(l, expected, replacement) ==
    /\ poLock = Null
    /\ status = "ISSUED"
    /\ l \in Present
    /\ CorrectionAdmitted(l, expected)
    /\ PairsCoherent(l)
    /\ Generation(l) < MaxGeneration
    /\ poCorrections' = [poCorrections EXCEPT ![l] =
           Append(@, [reversal |-> EffectiveLine(l), corrected |-> replacement])]
    /\ UNCHANGED <<catalog, status, poLock, lines, comparators>>

\* update_item changes the defaults of later lines only.
UpdateItem(item, uom, serialized) ==
    /\ catalog' = [catalog EXCEPT ![item] = [uom |-> uom, serialized |-> serialized]]
    /\ UNCHANGED <<status, poLock, lines, poCorrections, comparators>>

ProcurementInit ==
    /\ catalog \in [Item -> [uom : Uom, serialized : BOOLEAN]]
    /\ status = "DRAFT" /\ poLock = Null
    /\ lines = [l \in PoLine |-> Null]
    /\ poCorrections = [l \in PoLine |-> <<>>]
    /\ comparators = {}

ProcurementNext ==
    \/ \E n \in Number, i \in Item, q \in Quantity : CreateLine(n, i, q)
    \/ \E l \in PoLine, i \in Item, q \in Quantity : UpdateLine(l, i, q) \/ AmendLine(l, i, q)
    \/ \E l \in PoLine, g \in 0..MaxGeneration, e \in Expectation : CorrectProcurement(l, g, e)
    \/ IssueOrder

\* The order by itself, before any receipt.
ProcurementSpec ==
    ProcurementInit
    /\ [][ProcurementNext \/ \E i \in Item, u \in Uom, s \in BOOLEAN : UpdateItem(i, u, s)]_poVars

-----------------------------------------------------------------------------
(***************************************************************************)
(* list_lines follows every lineage from its root and raises an error when *)
(* a row is left over, visited twice or has two successors.                *)
(***************************************************************************)
Lineage(number) == {l \in Present : lines[l].number = number}

\* ADR-009: at every moment a logical line is one chain, from one root to one
\* active leaf, so the listing is complete and a receipt has one version to
\* compare with.
LineagesLinear ==
    \A n \in Number : Lineage(n) # {} =>
        /\ Cardinality({l \in Lineage(n) : lines[l].supersedes = Null}) = 1
        /\ Cardinality({l \in Lineage(n) : Active(l)}) = 1
        /\ \A l \in Lineage(n) : lines[l].supersedes # Null =>
               lines[l].supersedes \in Lineage(n) /\ lines[l].supersedes < l

\* ADR-013: however often a line is corrected, every pair cancels exactly what it
\* replaces.  A line that failed this could never be corrected again.
CorrectionsCoherent == \A l \in Present : PairsCoherent(l)

\* The facts that a receipt was compared with are the facts its pinned
\* generation still has: nobody corrects them after they were bound, however
\* the correction and the receipt interleave.
ExpectationsFrozen ==
    \A c \in comparators : c.line \in Present /\ c.generation = Generation(c.line)
=============================================================================
