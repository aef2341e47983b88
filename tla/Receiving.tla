------------------------------ MODULE Receiving ------------------------------
(***************************************************************************)
(* Receipts against one purchase order or against none.  A receiving       *)
(* transaction holds the row lock of the order, then that of the receipt,  *)
(* and keeps its rows to itself until it commits.  Serial numbers belong   *)
(* to the whole organisation and are guarded by a unique index only.       *)
(***************************************************************************)
EXTENDS Classification

CONSTANTS
    Receipt, Tx,
    Headers,      \* the receipt headers of this instance: [po, dock, packing]
    Requests,     \* the requests of this instance on a receipt that exists
    Arrivals,     \* the observations of this instance, see Arrival
    Serial,       \* readable serial numbers
    MaxArrival,   \* bound on receipt lines
    Skew          \* whether the UUIDv7 clocks of server processes may disagree

Condition == {"GOOD", "DAMAGED", "OPENED", "UNKNOWN"}

Header == [po : BOOLEAN, dock : BOOLEAN, packing : BOOLEAN]

Arrival == [item : Item, quantity : Nat \ {0}, uom : Uom, condition : Condition,
            packing : Nat \cup {Null}, unit : Serial \cup {Unreadable, Null}]

ASSUME ReceivingAssumption ==
    /\ Requests \subseteq {"add", "scan", "reconcile"}
    /\ Headers \subseteq Header /\ Arrivals \subseteq Arrival
    /\ MaxArrival \in Nat /\ Skew \in BOOLEAN
    /\ Null \notin Serial \cup {Unreadable} \cup Tx \cup Receipt \cup Header
    /\ Unreadable \notin Serial

VARIABLES
    receipts,      \* the header of every receipt, Null before its creation
    receiptLock,   \* the transaction that holds the receipt FOR NO KEY UPDATE
    arrived,       \* receipt_lines
    sealed,        \* receipts with a receipt_reconciliations row
    exceptions,    \* receiving_exceptions
    identifiers,   \* asset_identifiers: [asset, serial]; an Asset is named by its line
    scans,         \* answers to RECEIVE_SCAN: the line appended, the line reported
    tx             \* the receiving transactions

receivingVars == <<receipts, receiptLock, arrived, sealed, exceptions, identifiers, scans, tx>>

vars == <<poVars, receivingVars>>

Free == [phase |-> "idle", kind |-> Null, receipt |-> Null, header |-> Null, bound |-> {},
         lines |-> {}, seals |-> FALSE, exceptions |-> {}, pending |-> Null]

SeenLines_Committed(t) == {l \in arrived : l.receipt = tx[t].receipt}

\* What a transaction sees: the committed rows and its own.
SeenLines(t) == {l \in arrived \cup tx[t].lines : l.receipt = tx[t].receipt}

SeenComparators(t) == {c \in comparators \cup tx[t].bound : c.receipt = tx[t].receipt}

Units(S) == {[asset |-> l.asset, serial |-> l.serial] : l \in {k \in S : k.asset # Null}}

SeenIdentifiers(t) == identifiers \cup Units(tx[t].lines)

Sealed_Own(t) == tx[t].seals

Sealed(t) == tx[t].seals \/ tx[t].receipt \in sealed

\* The rows and the progress of transaction t become x.
Stage(t, x) == tx' = [tx EXCEPT ![t] = x]

-----------------------------------------------------------------------------
(***************************************************************************)
(* Arrivals are compared with the effective expectations of the order.     *)
(***************************************************************************)
Expected(l) == IF l.poLine = Null THEN Null ELSE EffectiveLine(l.poLine)

Aggregates(r, S, C) ==
    UNION {{Aggregate(r, p, k) : k \in AggregateKinds(S, p, EffectiveLine(p))} :
           p \in {c.line : c \in C}}

-----------------------------------------------------------------------------
(***************************************************************************)
(* Transactions.  kind is "create" (POST /receipts), "add" (add_line),     *)
(* "scan" (RECEIVE_SCAN, which may also reconcile) or "reconcile".         *)
(***************************************************************************)
CreateReceipt(t, r, h) ==
    /\ tx[t].phase = "idle" /\ receipts[r] = Null
    /\ \A u \in Tx : tx[u].receipt # r
    /\ IF h.po THEN poLock = Null /\ status = "ISSUED" /\ poLock' = t ELSE poLock' = poLock
    /\ receiptLock' = [receiptLock EXCEPT ![r] = t]
    /\ Stage(t, [tx[t] EXCEPT !.phase = "open", !.kind = "create", !.receipt = r, !.header = h])
    /\ UNCHANGED <<catalog, status, lines, poCorrections, comparators, receipts, arrived,
                   sealed, exceptions, identifiers, scans>>

TakesOrderLock_Never(h) == FALSE

TakesOrderLock(h) == h.po

\* lock_receiving_context takes the order first and then waits for the receipt.
OpenReceipt(t, r, kind) ==
    /\ tx[t].phase = "idle" /\ receipts[r] # Null
    /\ IF TakesOrderLock(receipts[r]) THEN poLock = Null /\ poLock' = t ELSE poLock' = poLock
    /\ Stage(t, [tx[t] EXCEPT !.phase = "waiting", !.kind = kind, !.receipt = r,
                           !.header = receipts[r]])
    /\ UNCHANGED <<catalog, status, lines, poCorrections, comparators, receipts, receiptLock,
                   arrived, sealed, exceptions, identifiers, scans>>

LockReceipt(t) ==
    /\ tx[t].phase = "waiting"
    /\ receiptLock[tx[t].receipt] = Null
    /\ receiptLock' = [receiptLock EXCEPT ![tx[t].receipt] = t]
    /\ Stage(t, [tx[t] EXCEPT !.phase = "open"])
    /\ UNCHANGED <<poVars, receipts, arrived, sealed, exceptions, identifiers, scans>>

Bound(t, l) == \E c \in SeenComparators(t) : c.line = l

\* A comparator that is bound already is kept, whatever generation the caller
\* expects; a new one pins the effective generation of an active line.
Bindable(t, l, expected) ==
    /\ tx[t].header.po /\ l \in Present
    /\ Active(l) /\ status = "ISSUED"
    /\ Bound(t, l) \/ expected = Generation(l)

Binding(t, l) ==
    IF Bound(t, l) THEN {}
    ELSE {[receipt |-> tx[t].receipt, line |-> l, generation |-> Generation(l)]}

\* A comparator without an arrival, bound when the receipt is created.
BindComparator(t, l, expected) ==
    /\ tx[t].phase = "open" /\ tx[t].kind = "create"
    /\ tx[t].lines = {} /\ ~ Sealed(t)
    /\ ~ Bound(t, l) /\ Bindable(t, l, expected)
    /\ Stage(t, [tx[t] EXCEPT !.bound = @ \cup Binding(t, l)])
    /\ UNCHANGED <<poVars, receipts, receiptLock, arrived, sealed, exceptions, identifiers, scans>>

MayRecord(t) == ~ Sealed(t) /\ (tx[t].kind \in {"add", "scan"} => tx[t].lines = {})
                            /\ tx[t].kind # "reconcile"

Conflict_Newest(t, unit) ==
    IF \E i \in SeenIdentifiers(t) : unit \in Serial /\ i.serial = unit
    THEN Max({i.asset : i \in SeenIdentifiers(t)}) ELSE Null

\* The Asset that already carries a readable serial.
Conflict(t, unit) ==
    LET held == {i \in SeenIdentifiers(t) : unit \in Serial /\ i.serial = unit}
    IN  IF held = {} THEN Null ELSE (CHOOSE i \in held : TRUE).asset

\* The first half of _record_line: bind, read the Item, look for the serial.
InspectArrival(t, o, l, expected) ==
    /\ tx[t].phase = "open" /\ MayRecord(t)
    /\ l # Null => Bindable(t, l, expected)
    /\ catalog[o.item].serialized = (o.unit # Null)
    /\ catalog[o.item].serialized => o.quantity = 1
    /\ Stage(t, [tx[t] EXCEPT
                 !.phase = "inspected",
                 !.bound = @ \cup (IF l = Null THEN {} ELSE Binding(t, l)),
                 !.pending = [arrival |-> o, poLine |-> l, conflict |-> Conflict(t, o.unit)]])
    /\ UNCHANGED <<poVars, receipts, receiptLock, arrived, sealed, exceptions, identifiers, scans>>

Used == {l.id : l \in arrived \cup UNION {tx[u].lines : u \in Tx}}

\* Mutant: a line is numbered by the committed lines that come before it.
Uuid7_Numbered(t) == {Cardinality(arrived) + 1} \cap 1..MaxArrival

\* UUIDv7 rises within one transaction; between processes only as their clocks do.
Uuid7(t) ==
    {id \in 1..MaxArrival : /\ id \notin Used
                            /\ \A l \in tx[t].lines : l.id < id
                            /\ ~ Skew => \A k \in 1..(id - 1) : k \in Used}

\* The row that the insert trigger completes: serialized is read again.
LineRow(t, id, asset) ==
    LET p == tx[t].pending
    IN  [id |-> id, receipt |-> tx[t].receipt, poLine |-> p.poLine, item |-> p.arrival.item,
         quantity |-> p.arrival.quantity, uom |-> p.arrival.uom,
         condition |-> p.arrival.condition, packing |-> p.arrival.packing,
         serialized |-> catalog[p.arrival.item].serialized, asset |-> asset,
         serial |-> p.arrival.unit]

\* enforce_receiving_record and the unit_shape constraint.
RowAccepted(t, l) ==
    /\ l.packing # Null => tx[t].header.packing
    /\ l.serialized => l.quantity = 1
    /\ l.serialized = (tx[t].pending.arrival.unit # Null)

Recorded(t, l) ==
    /\ RowAccepted(t, l)
    /\ Stage(t, [tx[t] EXCEPT
                 !.phase = "open", !.pending = Null, !.lines = @ \cup {l},
                 !.exceptions = @ \cup LineExceptions(l, Expected(l), tx[t].pending.conflict)])
    /\ UNCHANGED <<poVars, receipts, receiptLock, arrived, sealed, exceptions, identifiers, scans>>

\* A quantity without units, or a unit whose serial is known to be taken.
InsertLine(t) ==
    /\ tx[t].phase = "inspected"
    /\ tx[t].pending.arrival.unit = Null \/ tx[t].pending.conflict # Null
    /\ \E id \in Uuid7(t) : Recorded(t, LineRow(t, id, Null))

Claims(u) == {l.serial : l \in {k \in tx[u].lines : k.asset # Null}} \cap Serial

SerialFree_Unguarded(t, unit) == TRUE

\* The unique index waits for a claim in flight and refuses a committed one.
SerialFree(t, unit) ==
    unit \in Serial =>
        /\ \A i \in SeenIdentifiers(t) : i.serial # unit
        /\ \A u \in Tx \ {t} : unit \notin Claims(u)

CreateReceivedUnit(t) ==
    /\ tx[t].phase = "inspected"
    /\ tx[t].pending.arrival.unit # Null /\ tx[t].pending.conflict = Null
    /\ tx[t].header.dock
    /\ SerialFree(t, tx[t].pending.arrival.unit)
    /\ \E id \in Uuid7(t) : Recorded(t, LineRow(t, id, id))

MaySeal(t) == tx[t].kind \in {"create", "reconcile"} \/ (tx[t].kind = "scan" /\ tx[t].lines # {})

ReconcileReceipt(t) ==
    /\ tx[t].phase = "open" /\ MaySeal(t) /\ ~ Sealed(t)
    /\ Stage(t, [tx[t] EXCEPT
                 !.seals = TRUE,
                 !.exceptions = @ \cup Aggregates(tx[t].receipt, SeenLines(t), SeenComparators(t))])
    /\ UNCHANGED <<poVars, receipts, receiptLock, arrived, sealed, exceptions, identifiers, scans>>

Finished(t) ==
    /\ tx[t].phase = "open"
    /\ CASE tx[t].kind = "create" -> TRUE
         [] tx[t].kind = "reconcile" -> tx[t].seals
         [] OTHER -> tx[t].lines # {}

\* enforce_receiving_completeness, deferred to the commit: what the rows imply
\* now must have been recorded.
Complete(t) ==
    /\ \A l \in tx[t].lines :
          \A k \in LineKinds(l, Expected(l),
                              IF l.asset = Null /\ l.serial \in Serial THEN l.serial ELSE Null) :
              \E e \in tx[t].exceptions : e.line = l.id /\ e.kind = k
    /\ tx[t].seals =>
          Aggregates(tx[t].receipt, SeenLines(t), SeenComparators(t)) \subseteq tx[t].exceptions

\* RECEIVE_SCAN answers with the last line of the receipt in order of identity.
ScanAnswer(t) ==
    {[appended |-> l.id, reported |-> Max({k.id : k \in SeenLines(t)})] : l \in tx[t].lines}

Release(t) ==
    /\ poLock' = IF poLock = t THEN Null ELSE poLock
    /\ receiptLock' = [r \in Receipt |-> IF receiptLock[r] = t THEN Null ELSE receiptLock[r]]
    /\ tx' = [tx EXCEPT ![t] = Free]

Commit(t) ==
    /\ Finished(t) /\ Complete(t)
    /\ receipts' = [receipts EXCEPT ![tx[t].receipt] = tx[t].header]
    /\ comparators' = comparators \cup tx[t].bound
    /\ arrived' = arrived \cup tx[t].lines
    /\ identifiers' = SeenIdentifiers(t)
    /\ sealed' = IF tx[t].seals THEN sealed \cup {tx[t].receipt} ELSE sealed
    /\ exceptions' = exceptions \cup tx[t].exceptions
    /\ scans' = IF tx[t].kind = "scan" THEN scans \cup ScanAnswer(t) ELSE scans
    /\ Release(t)
    /\ UNCHANGED <<catalog, status, lines, poCorrections>>

\* A refused statement, a lost connection or a deadlock victim.
Rollback(t) ==
    /\ tx[t].phase # "idle"
    /\ Release(t)
    /\ UNCHANGED <<catalog, status, lines, poCorrections, comparators, receipts, arrived,
                   sealed, exceptions, identifiers, scans>>

\* A catalog edit waits for the transactions that hold the Item FOR SHARE.
EditItem(item, uom, serialized) ==
    /\ \A t \in Tx : \A l \in tx[t].lines : l.item # item
    /\ UpdateItem(item, uom, serialized)
    /\ UNCHANGED receivingVars

Init ==
    /\ ProcurementInit
    /\ receipts = [r \in Receipt |-> Null] /\ receiptLock = [r \in Receipt |-> Null]
    /\ arrived = {} /\ sealed = {} /\ exceptions = {} /\ identifiers = {} /\ scans = {}
    /\ tx = [t \in Tx |-> Free]

Receive(t) ==
    \/ \E r \in Receipt, h \in Headers : CreateReceipt(t, r, h)
    \/ \E r \in Receipt, kind \in Requests : OpenReceipt(t, r, kind)
    \/ \E l \in PoLine, g \in 0..MaxGeneration : BindComparator(t, l, g)
    \/ \E o \in Arrivals, g \in 0..MaxGeneration :
          \E l \in PoLine \cup {Null} : InspectArrival(t, o, l, g)
    \/ LockReceipt(t) \/ InsertLine(t) \/ CreateReceivedUnit(t) \/ ReconcileReceipt(t)
    \/ Commit(t) \/ Rollback(t)

Next ==
    \/ ProcurementNext /\ UNCHANGED receivingVars
    \/ \E i \in Item, u \in Uom, s \in BOOLEAN : EditItem(i, u, s)
    \/ \E t \in Tx : Receive(t)

Spec == Init /\ [][Next]_vars
-----------------------------------------------------------------------------
(***************************************************************************)
(* Properties.                                                             *)
(***************************************************************************)
LinesOf(r) == {l \in arrived : l.receipt = r}

ComparatorsOf(r) == {c \in comparators : c.receipt = r}

\* The tables and the transactions hold what their schemas say, and a row lock
\* belongs to a transaction in progress.
ReceivingTypeOK ==
    /\ catalog \in [Item -> [uom : Uom, serialized : BOOLEAN]]
    /\ status \in {"DRAFT", "ISSUED"} /\ poLock \in Tx \cup {Null}
    /\ receipts \in [Receipt -> Headers \cup {Null}]
    /\ receiptLock \in [Receipt -> Tx \cup {Null}]
    /\ sealed \subseteq {r \in Receipt : receipts[r] # Null}
    /\ \A l \in arrived : /\ l.id \in 1..MaxArrival /\ l.receipt \in Receipt
                          /\ l.poLine \in Present \cup {Null} /\ l.asset \in {Null, l.id}
                          /\ \A k \in arrived : k.id = l.id => k = l
    /\ \A c \in comparators : c.receipt \in Receipt /\ c.line \in Present
    /\ \A t \in Tx : /\ tx[t].phase \in {"idle", "waiting", "open", "inspected"}
                      /\ tx[t].phase = "idle" =>
                             poLock # t /\ \A r \in Receipt : receiptLock[r] # t

\* The Asset whose serial a conflicting arrival repeats.
Holder(l) ==
    IF l.asset # Null \/ l.serial \notin Serial THEN Null
    ELSE (CHOOSE i \in identifiers : i.serial = l.serial).asset

\* ADR-010/012: the recorded exceptions are at every moment exactly the
\* disagreements of the recorded arrivals with the expectations as they are now,
\* although orders are amended and corrected and Items edited in the meantime.
ExceptionsExact ==
    exceptions = (UNION {LineExceptions(l, Expected(l), Holder(l)) : l \in arrived})
                 \cup (UNION {Aggregates(r, LinesOf(r), ComparatorsOf(r)) : r \in sealed})

\* A readable serial names one Asset, every Asset came from one arrival, and
\* every serialized arrival became an Asset or an explicit conflict, whichever
\* of two receipts scans the serial first and however the Item's policy changes.
UnitsAccounted ==
    /\ \A i, j \in identifiers : i.serial \in Serial /\ i.serial = j.serial => i = j
    /\ identifiers = Units(arrived)
    /\ \A l \in arrived : IF l.serialized
                           THEN l.asset # Null \/ \E i \in identifiers : i.serial = l.serial
                           ELSE l.asset = Null /\ l.serial = Null

\* The order lines that a transaction has bound or compared an arrival with.
Selected(t) == {c.line : c \in tx[t].bound} \cup ({l.poLine : l \in tx[t].lines} \ {Null})

\* What a receiving transaction has decided is still right when it commits: the
\* deferred trigger finds its exceptions complete, so no admitted delivery is
\* refused, and no line that it has selected was superseded by an amendment in the
\* meantime.
ReceivingCommits ==
    \A t \in Tx : Finished(t) => Complete(t) /\ \A l \in Selected(t) : Active(l)

\* Reconciliation closes the population for good: a line that was being added
\* while the receipt was reconciled is either part of it or refused.
SealedForever ==
    [][\A r \in sealed : /\ r \in sealed'
                         /\ {l \in arrived' : l.receipt = r} = LinesOf(r)]_vars

\* ADR-008: UUIDv7 supplies identity and not order; the line that a scan reports,
\* and to which the device then links the photo, is the line the scan appended.
ScanNamesItsLine == \A s \in scans : s.reported = s.appended
=============================================================================
