--------------------------- MODULE ReceivingProofs ---------------------------
(***************************************************************************)
(* Proofs about Receiving, for every number of receipts, transactions,     *)
(* arrivals and serial numbers.                                            *)
(*                                                                         *)
(* ReceivingInv adds four parts to OrderInv.  Locking says which row locks *)
(* a transaction in progress holds.  Committed is what the tables satisfy, *)
(* the property ExceptionsExact included.  Row is what the uncommitted     *)
(* rows of one transaction satisfy in its own view, and Distinct says that *)
(* identities and claimed serials never collide, committed or not.         *)
(*                                                                         *)
(* The argument: every expectation that an arrival was compared with is    *)
(* frozen, by its committed comparator or by the order lock of the         *)
(* transaction that is about to bind it; and the population of a receipt   *)
(* changes only under the receipt lock.  So what a transaction classified  *)
(* is still what its rows imply when it commits.                           *)
(***************************************************************************)
EXTENDS Receiving, ProcurementProofs

TxKind == {"create", "add", "scan", "reconcile"}

Comparator == [receipt : Receipt, line : PoLine, generation : Nat]

AssetId == 1..MaxArrival \cup {Null}

ReceiptLine ==
    [id : 1..MaxArrival, receipt : Receipt, poLine : PoLine \cup {Null}, item : Item,
     quantity : Nat \ {0}, uom : Uom, condition : Condition, packing : Nat \cup {Null},
     serialized : BOOLEAN, asset : AssetId, serial : Serial \cup {Unreadable, Null}]

Kind == {"UNEXPECTED_ITEM", "SUBSTITUTION", "UOM_MISMATCH", "DAMAGED", "OPENED",
         "QUANTITY_VARIANCE", "SERIAL_UNREADABLE", "SERIAL_MISMATCH", "SHORT", "OVER"}

Finding ==
    [kind : Kind, receipt : Receipt, line : 1..MaxArrival \cup {Null},
     poLine : PoLine \cup {Null}, asset : AssetId, conflicting : AssetId]

Pending == [arrival : Arrivals, poLine : PoLine \cup {Null}, conflict : AssetId]

TxRow ==
    [phase : {"idle", "waiting", "open", "inspected"}, kind : TxKind \cup {Null},
     receipt : Receipt \cup {Null}, header : Headers \cup {Null}, bound : SUBSET Comparator,
     lines : SUBSET ReceiptLine, seals : BOOLEAN, exceptions : SUBSET Finding,
     pending : Pending \cup {Null}]

Open(x) == x.phase \in {"open", "inspected"}

Locking ==
    /\ poLock \in Tx \cup {Null} /\ receiptLock \in [Receipt -> Tx \cup {Null}]
    /\ \A t \in Tx : poLock = t <=> tx[t].phase # "idle" /\ tx[t].header.po
    /\ \A t \in Tx : \A r \in Receipt : receiptLock[r] = t <=> Open(tx[t]) /\ tx[t].receipt = r

-----------------------------------------------------------------------------
(***************************************************************************)
(* One transaction, x.                                                     *)
(***************************************************************************)
LinesFor(x) == {l \in arrived \cup x.lines : l.receipt = x.receipt}

ComparatorsFor(x) == {c \in comparators \cup x.bound : c.receipt = x.receipt}

Carried(x) == identifiers \cup Units(x.lines)

Formed(x) ==
    /\ x \in TxRow
    /\ x.phase = "idle" => x = Free
    /\ x.phase # "idle" => x.receipt \in Receipt /\ x.header \in Headers /\ x.kind \in TxKind
    /\ x.phase = "waiting" => x.lines = {} /\ x.bound = {} /\ ~ x.seals /\ x.exceptions = {}
    /\ x.phase = "inspected" => x.pending \in Pending /\ ~ x.seals

\* The line p is pinned for the receipt of x, committed or not.
Fixed(x, p) == \E c \in ComparatorsFor(x) : c.line = p

Binds(x) ==
    /\ \A l \in x.lines : l.receipt = x.receipt
    /\ \A c \in x.bound : /\ c.receipt = x.receipt /\ c.line \in Present
                          /\ c.generation = Generation(c.line)
    /\ x.bound # {} => x.header.po /\ status = "ISSUED"
    /\ \A l \in x.lines : l.poLine # Null => Fixed(x, l.poLine)
    /\ x.phase = "inspected" /\ x.pending.poLine # Null => Fixed(x, x.pending.poLine)

\* The receipt of x was reconciled by another transaction: x adds nothing.
Late(x) ==
    x.receipt \in sealed =>
        x.lines = {} /\ x.bound = {} /\ ~ x.seals /\ x.phase # "inspected"

\* A serialized line is an Asset or repeats a serial of I.
UnitOf(l, I) ==
    IF l.serialized
    THEN \/ l.asset = l.id
         \/ l.asset = Null /\ l.serial \in Serial /\ \E i \in I : i.serial = l.serial
    ELSE l.asset = Null /\ l.serial = Null

HolderIn(I, l) ==
    IF l.asset # Null \/ l.serial \notin Serial THEN Null
    ELSE (CHOOSE i \in I : i.serial = l.serial).asset

Accounted(x) ==
    /\ \A l \in x.lines : UnitOf(l, Carried(x))
    /\ x.phase = "inspected" /\ x.pending.conflict # Null =>
           /\ x.pending.arrival.unit \in Serial
           /\ \E i \in Carried(x) : i.serial = x.pending.arrival.unit
                                    /\ i.asset = x.pending.conflict

LinesClassified(S, I) == UNION {LineExceptions(l, Expected(l), HolderIn(I, l)) : l \in S}

Classified(x) ==
    x.exceptions = LinesClassified(x.lines, Carried(x))
        \cup (IF x.seals THEN Aggregates(x.receipt, LinesFor(x), ComparatorsFor(x)) ELSE {})

Row(x) == Formed(x) /\ Binds(x) /\ Late(x) /\ Accounted(x) /\ Classified(x)

-----------------------------------------------------------------------------
(***************************************************************************)
(* The tables.                                                             *)
(***************************************************************************)
SealedClassified == UNION {Aggregates(r, LinesOf(r), ComparatorsOf(r)) : r \in sealed}

TablesTyped ==
    /\ receipts \in [Receipt -> Headers \cup {Null}]
    /\ sealed \subseteq {r \in Receipt : receipts[r] # Null}
    /\ arrived \subseteq ReceiptLine /\ comparators \subseteq Comparator
    /\ exceptions \subseteq Finding

Committed ==
    /\ TablesTyped
    /\ ExpectationsFrozen
    /\ comparators # {} => status = "ISSUED"
    /\ \A l \in arrived : l.poLine # Null =>
           \E c \in comparators : c.receipt = l.receipt /\ c.line = l.poLine
    /\ identifiers = Units(arrived)
    /\ \A l \in arrived : UnitOf(l, identifiers)
    /\ exceptions = LinesClassified(arrived, identifiers) \cup SealedClassified

\* Every line, committed or not.
Written(l) == l \in arrived \/ \E t \in Tx : l \in tx[t].lines

Distinct ==
    \A l, k : Written(l) /\ Written(k) =>
        /\ l.id = k.id => l = k
        /\ l.asset # Null /\ k.asset # Null /\ l.serial \in Serial /\ l.serial = k.serial => l = k

Rows == \A t \in Tx : Row(tx[t])

ReceivingInv ==
    /\ OrderInv /\ Committed /\ Locking /\ Distinct
    /\ tx \in [Tx -> TxRow] /\ Rows

tables == <<receipts, arrived, sealed, exceptions, identifiers, comparators>>

-----------------------------------------------------------------------------
(***************************************************************************)
(* Frames: nothing that the predicates read has changed.                   *)
(***************************************************************************)
LEMMA ClassifiedFrame ==
    ASSUME UNCHANGED <<lines, poCorrections>>
    PROVE  /\ \A p : EffectiveLine(p)' = EffectiveLine(p) /\ Generation(p)' = Generation(p)
           /\ \A S, I : LinesClassified(S, I)' = LinesClassified(S, I)
           /\ \A r, S, C : Aggregates(r, S, C)' = Aggregates(r, S, C)
<1>1. \A p : EffectiveLine(p)' = EffectiveLine(p) /\ Generation(p)' = Generation(p)
  BY DEF EffectiveLine, Stated, Generation
<1>2. \A l : Expected(l)' = Expected(l)
  BY <1>1 DEF Expected
<1> QED
  BY <1>1, <1>2 DEF LinesClassified, Aggregates

LEMMA RowFrame ==
    ASSUME UNCHANGED <<status, lines, poCorrections, comparators, arrived, identifiers, sealed>>,
           NEW x, Row(x)
    PROVE  Row(x)'
<1>1. /\ LinesFor(x)' = LinesFor(x) /\ ComparatorsFor(x)' = ComparatorsFor(x)
      /\ Carried(x)' = Carried(x)
  BY DEF LinesFor, ComparatorsFor, Carried
<1>2. Formed(x)' /\ Late(x)' /\ Accounted(x)'
  BY <1>1 DEF Row, Formed, Late, Accounted
<1>3. Present' = Present /\ \A p : Generation(p)' = Generation(p)
  BY DEF Present, Generation
<1>4. \A p : Fixed(x, p)' <=> Fixed(x, p)
  BY <1>1 DEF Fixed
<1>5. Binds(x)'
  BY <1>3, <1>4 DEF Row, Binds
<1>6. Classified(x)'
  BY <1>1, ClassifiedFrame DEF Row, Classified
<1> QED
  BY <1>2, <1>5, <1>6 DEF Row

LEMMA CommittedFrame ==
    ASSUME UNCHANGED <<status, lines, poCorrections>>, UNCHANGED tables, Committed
    PROVE  Committed'
<1>1. Present' = Present /\ \A p : Generation(p)' = Generation(p)
  BY DEF Present, Generation
<1>2. ExpectationsFrozen'
  BY <1>1 DEF Committed, ExpectationsFrozen, tables
<1>3. \A r : LinesOf(r)' = LinesOf(r) /\ ComparatorsOf(r)' = ComparatorsOf(r)
  BY DEF LinesOf, ComparatorsOf, tables
<1>4. SealedClassified' = SealedClassified
  BY <1>3, ClassifiedFrame DEF SealedClassified, tables
<1>5. LinesClassified(arrived, identifiers)' = LinesClassified(arrived, identifiers)
  <2>1. PICK S, I : S = arrived /\ I = identifiers
    OBVIOUS
  <2>2. S = arrived' /\ I = identifiers'
    BY <2>1 DEF tables
  <2>3. LinesClassified(S, I)' = LinesClassified(S, I)
    BY ClassifiedFrame
  <2> QED
    BY <2>1, <2>2, <2>3
<1> QED
  BY <1>2, <1>4, <1>5 DEF Committed, TablesTyped, tables

\* A transaction goes on with the rows x, and the tables stay as they are.
LEMMA StageStep ==
    ASSUME ReceivingInv, UNCHANGED <<catalog, status, lines, poCorrections>>, UNCHANGED tables,
           NEW t \in Tx, NEW x, tx' = [tx EXCEPT ![t] = x], Row(x), Locking', Distinct'
    PROVE  ReceivingInv'
<1>1. OrderInv'
  BY OrderStep DEF ReceivingInv, orderVars
<1>2. Committed'
  BY CommittedFrame DEF ReceivingInv
<1>3. x \in TxRow
  BY DEF Row, Formed
<1>4. tx' \in [Tx -> TxRow] /\ tx'[t] = x /\ \A u \in Tx : u # t => tx'[u] = tx[u]
  BY <1>3 DEF ReceivingInv
<1>5. \A y : Row(y) => Row(y)'
  BY RowFrame DEF tables
<1>6. ASSUME NEW u \in Tx PROVE Row(tx[u])'
  <2>1. PICK y : y = tx'[u]
    OBVIOUS
  <2>2. Row(y)
    BY <2>1, <1>4 DEF ReceivingInv, Rows
  <2>3. Row(y)'
    BY <2>2, <1>5
  <2> QED
    BY <2>1, <2>3
<1> QED
  BY <1>1, <1>2, <1>4, <1>6 DEF ReceivingInv, Rows

\* The transaction writes no line.
LEMMA StageDistinct ==
    ASSUME ReceivingInv, UNCHANGED tables, NEW t \in Tx, NEW x, tx' = [tx EXCEPT ![t] = x],
           x.lines \subseteq tx[t].lines
    PROVE  Distinct'
<1>1. tx'[t] = x /\ \A u \in Tx : u # t => tx'[u] = tx[u]
  BY DEF ReceivingInv
<1>2. \A l : Written(l)' => Written(l)
  BY <1>1 DEF Written, tables
<1> QED
  BY <1>2 DEF ReceivingInv, Distinct

\* A transaction that has written nothing yet.
LEMMA EmptyRow ==
    ASSUME NEW x \in TxRow, x.phase \in {"waiting", "open"}, x.lines = {}, x.bound = {},
           x.seals = FALSE, x.exceptions = {},
           x.receipt \in Receipt, x.header \in Headers, x.kind \in TxKind
    PROVE  Row(x)
<1>1. LinesClassified(x.lines, Carried(x)) = {}
  BY DEF LinesClassified
<1> QED
  BY <1>1 DEF Row, Formed, Binds, Late, Accounted, Classified

\* The transaction keeps the locks it has.
LEMMA LocksKept ==
    ASSUME ReceivingInv, UNCHANGED <<poLock, receiptLock>>, NEW t \in Tx, NEW x,
           tx' = [tx EXCEPT ![t] = x], Open(tx[t]), Open(x), x.receipt = tx[t].receipt,
           x.header = tx[t].header
    PROVE  Locking'
<1>1. tx'[t] = x /\ \A u \in Tx : u # t => tx'[u] = tx[u]
  BY DEF ReceivingInv
<1>2. x.phase # "idle" /\ tx[t].phase # "idle"
  BY DEF Open
<1> QED
  BY <1>1, <1>2 DEF ReceivingInv, Locking, Open

-----------------------------------------------------------------------------
(***************************************************************************)
(* The beginning of a transaction.                                         *)
(***************************************************************************)
LEMMA CreateReceiptStep ==
    ASSUME ReceivingInv, NEW t \in Tx, NEW r \in Receipt, NEW h \in Headers, CreateReceipt(t, r, h)
    PROVE  ReceivingInv'
<1>1. PICK y : y = tx[t]
  OBVIOUS
<1>2. y \in TxRow /\ y = Free
  BY <1>1 DEF ReceivingInv, Rows, Row, Formed, CreateReceipt
<1>3. PICK x : x = [y EXCEPT !.phase = "open", !.kind = "create", !.receipt = r, !.header = h]
  OBVIOUS
<1>4. y.lines = {} /\ y.bound = {} /\ y.seals = FALSE /\ y.exceptions = {} /\ y.phase = "idle"
  BY <1>2 DEF Free
<1>5. /\ x \in TxRow /\ x.phase = "open" /\ x.lines = {} /\ x.bound = {} /\ x.seals = FALSE
      /\ x.exceptions = {} /\ x.receipt = r /\ x.header = h /\ x.kind = "create"
  BY <1>2, <1>3, <1>4 DEF TxRow, TxKind
<1>6. tx' = [tx EXCEPT ![t] = x] /\ UNCHANGED <<catalog, status, lines, poCorrections>> /\ UNCHANGED tables
  BY <1>1, <1>3 DEF CreateReceipt, Stage, tables
<1>7. Row(x)
  BY <1>5, EmptyRow DEF TxKind
<1>8. Distinct'
  BY <1>1, <1>4, <1>5, <1>6, StageDistinct
<1>9. tx'[t] = x /\ \A u \in Tx : u # t => tx'[u] = tx[u]
  BY <1>6 DEF ReceivingInv
<1>10. Null \notin Tx /\ h.po \in BOOLEAN
  BY ReceivingAssumption DEF Header
<1>11. poLock' \in Tx \cup {Null} /\ \A u \in Tx : poLock' = u <=> tx'[u].phase # "idle" /\ tx'[u].header.po
  <2>1. CASE h.po
    BY <2>1, <1>5, <1>9, <1>10 DEF CreateReceipt, ReceivingInv, Locking
  <2>2. CASE ~ h.po
    BY <2>2, <1>1, <1>4, <1>5, <1>9 DEF CreateReceipt, ReceivingInv, Locking
  <2> QED
    BY <2>1, <2>2
<1>12. receiptLock' = [receiptLock EXCEPT ![r] = t] /\ \A u \in Tx : tx[u].receipt # r
  BY DEF CreateReceipt
<1>13. receiptLock' \in [Receipt -> Tx \cup {Null}]
       /\ \A u \in Tx : \A q \in Receipt : receiptLock'[q] = u <=> Open(tx'[u]) /\ tx'[u].receipt = q
  BY <1>1, <1>4, <1>5, <1>9, <1>12 DEF ReceivingInv, Locking, Open
<1>14. Locking'
  BY <1>11, <1>13 DEF Locking, Open
<1> QED
  BY <1>6, <1>7, <1>8, <1>14, StageStep

LEMMA OpenReceiptStep ==
    ASSUME ReceivingInv, NEW t \in Tx, NEW r \in Receipt, NEW kind \in Requests,
           OpenReceipt(t, r, kind)
    PROVE  ReceivingInv'
<1>1. PICK y, h : y = tx[t] /\ h = receipts[r]
  OBVIOUS
<1>2. y \in TxRow /\ y = Free
  BY <1>1 DEF ReceivingInv, Rows, Row, Formed, OpenReceipt
<1>3. h \in Headers /\ kind \in TxKind
  BY <1>1, ReceivingAssumption DEF OpenReceipt, ReceivingInv, Committed, TablesTyped, TxKind
<1>4. PICK x : x = [y EXCEPT !.phase = "waiting", !.kind = kind, !.receipt = r, !.header = h]
  OBVIOUS
<1>5. y.lines = {} /\ y.bound = {} /\ y.seals = FALSE /\ y.exceptions = {} /\ y.phase = "idle"
  BY <1>2 DEF Free
<1>6. /\ x \in TxRow /\ x.phase = "waiting" /\ x.lines = {} /\ x.bound = {} /\ x.seals = FALSE
      /\ x.exceptions = {} /\ x.receipt = r /\ x.header = h /\ x.kind = kind
  BY <1>2, <1>3, <1>4, <1>5 DEF TxRow
<1>7. tx' = [tx EXCEPT ![t] = x] /\ UNCHANGED <<catalog, status, lines, poCorrections>>
      /\ UNCHANGED tables /\ UNCHANGED receiptLock
  BY <1>1, <1>4 DEF OpenReceipt, Stage, tables
<1>8. Row(x)
  BY <1>3, <1>6, EmptyRow
<1>9. Distinct'
  BY <1>1, <1>5, <1>6, <1>7, StageDistinct
<1>10. tx'[t] = x /\ \A u \in Tx : u # t => tx'[u] = tx[u]
  BY <1>7 DEF ReceivingInv
<1>11. Null \notin Tx /\ h.po \in BOOLEAN
  BY <1>3, ReceivingAssumption DEF Header
<1>12. poLock' \in Tx \cup {Null} /\ \A u \in Tx : poLock' = u <=> tx'[u].phase # "idle" /\ tx'[u].header.po
  <2>1. CASE h.po
    BY <2>1, <1>1, <1>6, <1>10, <1>11 DEF OpenReceipt, TakesOrderLock, ReceivingInv, Locking
  <2>2. CASE ~ h.po
    BY <2>2, <1>1, <1>5, <1>6, <1>10 DEF OpenReceipt, TakesOrderLock, ReceivingInv, Locking
  <2> QED
    BY <2>1, <2>2
<1>13. receiptLock' \in [Receipt -> Tx \cup {Null}]
       /\ \A u \in Tx : \A q \in Receipt : receiptLock'[q] = u <=> Open(tx'[u]) /\ tx'[u].receipt = q
  BY <1>1, <1>5, <1>6, <1>7, <1>10 DEF ReceivingInv, Locking, Open
<1>14. Locking'
  BY <1>12, <1>13 DEF Locking, Open
<1> QED
  BY <1>7, <1>8, <1>9, <1>14, StageStep

LEMMA LockReceiptStep ==
    ASSUME ReceivingInv, NEW t \in Tx, LockReceipt(t)
    PROVE  ReceivingInv'
<1>1. PICK y, r : y = tx[t] /\ r = y.receipt
  OBVIOUS
<1>2. /\ y \in TxRow /\ y.phase = "waiting" /\ y.lines = {} /\ y.bound = {} /\ y.seals = FALSE
      /\ y.exceptions = {} /\ y.receipt \in Receipt /\ y.header \in Headers /\ y.kind \in TxKind
  BY <1>1 DEF ReceivingInv, Rows, Row, Formed, LockReceipt, TxRow
<1>3. PICK x : x = [y EXCEPT !.phase = "open"]
  OBVIOUS
<1>4. /\ x \in TxRow /\ x.phase = "open" /\ x.lines = {} /\ x.bound = {} /\ x.seals = FALSE
      /\ x.exceptions = {} /\ x.receipt = r /\ x.header = y.header /\ x.kind = y.kind
  BY <1>1, <1>2, <1>3 DEF TxRow
<1>5. tx' = [tx EXCEPT ![t] = x] /\ UNCHANGED <<catalog, status, lines, poCorrections>>
      /\ UNCHANGED tables /\ UNCHANGED poLock
  BY <1>1, <1>3 DEF LockReceipt, Stage, tables, poVars
<1>6. Row(x)
  BY <1>1, <1>2, <1>4, EmptyRow
<1>7. Distinct'
  BY <1>1, <1>2, <1>4, <1>5, StageDistinct
<1>8. tx'[t] = x /\ \A u \in Tx : u # t => tx'[u] = tx[u]
  BY <1>5 DEF ReceivingInv
<1>9. \A u \in Tx : poLock' = u <=> tx'[u].phase # "idle" /\ tx'[u].header.po
  BY <1>1, <1>2, <1>4, <1>5, <1>8 DEF ReceivingInv, Locking
<1>10. receiptLock[r] = Null /\ receiptLock' = [receiptLock EXCEPT ![r] = t] /\ Null \notin Tx
  BY <1>1, ReceivingAssumption DEF LockReceipt
<1>11. receiptLock' \in [Receipt -> Tx \cup {Null}]
       /\ \A u \in Tx : \A q \in Receipt : receiptLock'[q] = u <=> Open(tx'[u]) /\ tx'[u].receipt = q
  BY <1>1, <1>2, <1>4, <1>8, <1>10 DEF ReceivingInv, Locking, Open
<1>12. Locking'
  BY <1>5, <1>9, <1>11 DEF Locking, Open, ReceivingInv
<1> QED
  BY <1>5, <1>6, <1>7, <1>12, StageStep

-----------------------------------------------------------------------------
(***************************************************************************)
(* Comparators and arrivals.                                               *)
(***************************************************************************)

\* The names of the specification, and those used here for one transaction.
LEMMA OwnView ==
    ASSUME NEW t \in Tx, NEW y, y = tx[t]
    PROVE  /\ SeenLines(t) = LinesFor(y) /\ SeenComparators(t) = ComparatorsFor(y)
           /\ SeenIdentifiers(t) = Carried(y)
           /\ Sealed(t) <=> y.seals \/ y.receipt \in sealed
           /\ \A l : Bound(t, l) <=> Fixed(y, l)
BY DEF SeenLines, SeenComparators, SeenIdentifiers, LinesFor, ComparatorsFor, Carried, Sealed,
       Bound, Fixed

\* The identifiers in view name Assets, and an arrival's serial is looked up in them.
LEMMA CarriedTyped ==
    ASSUME ReceivingInv, NEW y \in TxRow, NEW i \in Carried(y)
    PROVE  i.asset \in 1..MaxArrival
<1>1. PICK l \in arrived \cup y.lines : l.asset # Null /\ i = [asset |-> l.asset, serial |-> l.serial]
  BY DEF ReceivingInv, Committed, Carried, Units
<1>2. l \in ReceiptLine
  BY DEF ReceivingInv, Committed, TablesTyped, TxRow
<1>3. l.asset \in AssetId
  BY <1>2 DEF ReceiptLine
<1> QED
  BY <1>1, <1>3 DEF AssetId

LEMMA ConflictSeen ==
    ASSUME ReceivingInv, NEW t \in Tx, NEW y, y = tx[t], NEW unit
    PROVE  /\ Conflict(t, unit) \in AssetId
           /\ Conflict(t, unit) # Null =>
                  /\ unit \in Serial
                  /\ \E i \in Carried(y) : i.serial = unit /\ i.asset = Conflict(t, unit)
<1>1. PICK held : held = {i \in SeenIdentifiers(t) : unit \in Serial /\ i.serial = unit}
  OBVIOUS
<1>2. Conflict(t, unit) = IF held = {} THEN Null ELSE (CHOOSE i \in held : TRUE).asset
  BY <1>1 DEF Conflict
<1>3. CASE held = {}
  BY <1>2, <1>3 DEF AssetId
<1>4. CASE held # {}
  <2>1. PICK i : i = CHOOSE j \in held : TRUE
    OBVIOUS
  <2>2. i \in held
    BY <2>1, <1>4
  <2>3. i \in Carried(y) /\ unit \in Serial /\ i.serial = unit
    BY <2>2, <1>1, OwnView
  <2>4. y \in TxRow
    BY DEF ReceivingInv
  <2>5. i.asset \in 1..MaxArrival
    BY <2>3, <2>4, CarriedTyped
  <2>6. Conflict(t, unit) = i.asset
    BY <1>2, <1>4, <2>1
  <2> QED
    BY <2>3, <2>5, <2>6 DEF AssetId
<1> QED
  BY <1>3, <1>4

\* A transaction binds the comparators B and may now have an arrival in hand.
LEMMA BoundRow ==
    ASSUME NEW y, Row(y), NEW x, Formed(x), NEW B, x.bound = y.bound \cup B,
           x.receipt = y.receipt, x.header = y.header, x.lines = y.lines,
           x.exceptions = y.exceptions, x.seals = FALSE, y.seals = FALSE, y.receipt \notin sealed,
           \A c \in B : c.receipt = y.receipt /\ c.line \in Present /\ c.generation = Generation(c.line),
           B # {} => y.header.po /\ status = "ISSUED",
           x.phase = "inspected" =>
               /\ x.pending.poLine # Null => Fixed(x, x.pending.poLine)
               /\ x.pending.conflict # Null =>
                      /\ x.pending.arrival.unit \in Serial
                      /\ \E i \in Carried(y) : i.serial = x.pending.arrival.unit
                                               /\ i.asset = x.pending.conflict
    PROVE  Row(x)
<1>1. Carried(x) = Carried(y)
  BY DEF Carried
<1>2. \A p : Fixed(y, p) => Fixed(x, p)
  BY DEF Fixed, ComparatorsFor
<1>3. Binds(x)
  BY <1>2 DEF Row, Binds
<1>4. Accounted(x)
  BY <1>1 DEF Row, Accounted
<1>5. Classified(x)
  BY <1>1 DEF Row, Classified
<1>6. Late(x)
  BY DEF Late
<1> QED
  BY <1>3, <1>4, <1>5, <1>6 DEF Row

\* What Binding adds, and that it fixes the line.
LEMMA BindingFixes ==
    ASSUME ReceivingInv, NEW t \in Tx, NEW y, y = tx[t], y.receipt \in Receipt,
           NEW l, NEW g, Bindable(t, l, g), NEW B, B = Binding(t, l)
    PROVE  /\ B \subseteq Comparator
           /\ \A c \in B : /\ c.receipt = y.receipt /\ c.line \in Present
                           /\ c.generation = Generation(c.line)
           /\ y.header.po /\ status = "ISSUED"
           /\ \A x : x.receipt = y.receipt /\ x.bound = y.bound \cup B => Fixed(x, l)
<1>1. l \in Present /\ y.header.po /\ status = "ISSUED"
  BY DEF Bindable
<1>2. Generation(l) \in Nat /\ l \in PoLine
  BY <1>1 DEF ReceivingInv, OrderInv, OrderShape, Generation, Present
<1>3. PICK c : c = [receipt |-> y.receipt, line |-> l, generation |-> Generation(l)]
  OBVIOUS
<1>4. c \in Comparator /\ c.receipt = y.receipt /\ c.line = l /\ c.generation = Generation(l)
  BY <1>2, <1>3 DEF Comparator
<1>5. B = IF Fixed(y, l) THEN {} ELSE {c}
  BY <1>3, OwnView DEF Binding
<1>6. \A x : x.receipt = y.receipt /\ x.bound = y.bound \cup B => Fixed(x, l)
  BY <1>4, <1>5 DEF Fixed, ComparatorsFor
<1> QED
  BY <1>1, <1>4, <1>5, <1>6

LEMMA BindComparatorStep ==
    ASSUME ReceivingInv, NEW t \in Tx, NEW l, NEW g, BindComparator(t, l, g)
    PROVE  ReceivingInv'
<1>1. PICK y, B : y = tx[t] /\ B = Binding(t, l)
  OBVIOUS
<1>2. y \in TxRow /\ Row(y) /\ y.phase = "open"
  BY <1>1 DEF ReceivingInv, Rows, BindComparator
<1>3. y.receipt \in Receipt /\ y.header \in Headers /\ y.kind \in TxKind
  BY <1>2 DEF Row, Formed
<1>4. y.seals = FALSE /\ y.receipt \notin sealed
  BY <1>1, <1>2, OwnView DEF BindComparator, TxRow
<1>5. Bindable(t, l, g)
  BY DEF BindComparator
<1>6. /\ B \subseteq Comparator
      /\ \A c \in B : c.receipt = y.receipt /\ c.line \in Present /\ c.generation = Generation(c.line)
      /\ y.header.po /\ status = "ISSUED"
  BY <1>1, <1>3, <1>5, BindingFixes
<1>7. PICK x : x = [y EXCEPT !.bound = y.bound \cup B]
  OBVIOUS
<1>8. /\ x \in TxRow /\ x.bound = y.bound \cup B /\ x.phase = "open" /\ x.receipt = y.receipt
      /\ x.header = y.header /\ x.lines = y.lines /\ x.exceptions = y.exceptions
      /\ x.seals = FALSE /\ x.kind = y.kind
  BY <1>2, <1>4, <1>6, <1>7 DEF TxRow
<1>9. Formed(x)
  BY <1>3, <1>8 DEF Formed
<1>10. Row(x)
  BY <1>2, <1>4, <1>6, <1>8, <1>9, BoundRow
<1>11. tx' = [tx EXCEPT ![t] = x] /\ UNCHANGED <<catalog, status, lines, poCorrections>>
       /\ UNCHANGED tables /\ UNCHANGED <<poLock, receiptLock>>
  BY <1>1, <1>7 DEF BindComparator, Stage, tables, poVars
<1>12. Distinct'
  BY <1>1, <1>8, <1>11, StageDistinct
<1>13. Locking'
  BY <1>1, <1>2, <1>8, <1>11, LocksKept DEF Open
<1> QED
  BY <1>10, <1>11, <1>12, <1>13, StageStep

LEMMA InspectArrivalStep ==
    ASSUME ReceivingInv, NEW t \in Tx, NEW o \in Arrivals, NEW l \in PoLine \cup {Null}, NEW g,
           InspectArrival(t, o, l, g)
    PROVE  ReceivingInv'
<1>1. PICK y, B, p : /\ y = tx[t] /\ B = IF l = Null THEN {} ELSE Binding(t, l)
                     /\ p = [arrival |-> o, poLine |-> l, conflict |-> Conflict(t, o.unit)]
  OBVIOUS
<1>2. y \in TxRow /\ Row(y) /\ y.phase = "open"
  BY <1>1 DEF ReceivingInv, Rows, InspectArrival
<1>3. y.receipt \in Receipt /\ y.header \in Headers /\ y.kind \in TxKind
  BY <1>2 DEF Row, Formed
<1>4. y.seals = FALSE /\ y.receipt \notin sealed
  BY <1>1, <1>2, OwnView DEF InspectArrival, MayRecord, TxRow
<1>5. /\ B \subseteq Comparator
      /\ \A c \in B : c.receipt = y.receipt /\ c.line \in Present /\ c.generation = Generation(c.line)
      /\ B # {} => y.header.po /\ status = "ISSUED"
      /\ l # Null => \A z : z.receipt = y.receipt /\ z.bound = y.bound \cup B => Fixed(z, l)
  <2>1. CASE l = Null
    BY <1>1, <2>1
  <2>2. CASE l # Null
    <3>1. Bindable(t, l, g) /\ B = Binding(t, l)
      BY <1>1, <2>2 DEF InspectArrival
    <3> QED
      BY <1>1, <1>3, <3>1, BindingFixes
  <2> QED
    BY <2>1, <2>2
<1>6. PICK conflict : conflict = Conflict(t, o.unit)
  OBVIOUS
<1>7. conflict \in AssetId /\ (conflict # Null => /\ o.unit \in Serial
            /\ \E i \in Carried(y) : i.serial = o.unit /\ i.asset = conflict)
  BY <1>1, <1>6, ConflictSeen
<1>8. p \in Pending /\ p.arrival = o /\ p.poLine = l /\ p.conflict = conflict
  BY <1>1, <1>6, <1>7 DEF Pending
<1>9. PICK x : x = [y EXCEPT !.phase = "inspected", !.bound = y.bound \cup B, !.pending = p]
  OBVIOUS
<1>10. /\ x \in TxRow /\ x.bound = y.bound \cup B /\ x.phase = "inspected" /\ x.receipt = y.receipt
       /\ x.header = y.header /\ x.lines = y.lines /\ x.exceptions = y.exceptions
       /\ x.seals = FALSE /\ x.pending = p /\ x.kind = y.kind
  BY <1>2, <1>4, <1>5, <1>8, <1>9 DEF TxRow
<1>11. Formed(x)
  BY <1>3, <1>8, <1>10 DEF Formed
<1>12. x.pending.poLine # Null => Fixed(x, x.pending.poLine)
  BY <1>5, <1>8, <1>10
<1>13. Row(x)
  BY <1>2, <1>4, <1>5, <1>7, <1>8, <1>10, <1>11, <1>12, BoundRow
<1>14. tx' = [tx EXCEPT ![t] = x] /\ UNCHANGED <<catalog, status, lines, poCorrections>>
       /\ UNCHANGED tables /\ UNCHANGED <<poLock, receiptLock>>
  BY <1>1, <1>9 DEF InspectArrival, Stage, tables, poVars
<1>15. Distinct'
  BY <1>1, <1>10, <1>14, StageDistinct
<1>16. Locking'
  BY <1>1, <1>2, <1>10, <1>14, LocksKept DEF Open
<1> QED
  BY <1>13, <1>14, <1>15, <1>16, StageStep

-----------------------------------------------------------------------------
(***************************************************************************)
(* Serials and classification.                                             *)
(***************************************************************************)
SerialsUnique(I) == \A i, j \in I : i.serial \in Serial /\ i.serial = j.serial => i = j

\* Lines S that do not claim a serial twice.
ClaimsUnique(S) ==
    \A l, k \in S :
        l.asset # Null /\ k.asset # Null /\ l.serial \in Serial /\ l.serial = k.serial => l = k

LEMMA UnitsUnique ==
    ASSUME NEW S, ClaimsUnique(S), NEW I, I \subseteq Units(S)
    PROVE  SerialsUnique(I)
<1> SUFFICES ASSUME NEW i \in I, NEW j \in I, i.serial \in Serial, i.serial = j.serial
             PROVE  i = j
  BY DEF SerialsUnique
<1>1. PICK l \in S : l.asset # Null /\ i = [asset |-> l.asset, serial |-> l.serial]
  BY DEF Units
<1>2. PICK k \in S : k.asset # Null /\ j = [asset |-> k.asset, serial |-> k.serial]
  BY DEF Units
<1>3. l = k
  BY <1>1, <1>2 DEF ClaimsUnique
<1> QED
  BY <1>1, <1>2, <1>3

\* The Asset that a conflict names is the one that carries the serial, and more
\* identifiers do not change it.
LEMMA HolderIs ==
    ASSUME NEW J, SerialsUnique(J), NEW l, l.asset = Null, l.serial \in Serial,
           NEW i \in J, i.serial = l.serial
    PROVE  HolderIn(J, l) = i.asset
<1>1. PICK k : k = CHOOSE j \in J : j.serial = l.serial
  OBVIOUS
<1>2. k \in J /\ k.serial = l.serial
  BY <1>1
<1>3. k = i
  BY <1>2 DEF SerialsUnique
<1> QED
  BY <1>1, <1>3 DEF HolderIn

LEMMA HolderKept ==
    ASSUME NEW I, NEW J, I \subseteq J, SerialsUnique(J), NEW l \in ReceiptLine, UnitOf(l, I)
    PROVE  HolderIn(J, l) = HolderIn(I, l) /\ UnitOf(l, J)
<1>1. CASE l.asset # Null \/ l.serial \notin Serial
  BY <1>1 DEF HolderIn, UnitOf
<1>2. CASE l.asset = Null /\ l.serial \in Serial
  <2>1. l.id # Null /\ Null \notin Serial
    BY ProcurementAssumption, ReceivingAssumption DEF ReceiptLine
  <2>2. PICK i \in I : i.serial = l.serial
    BY <1>2, <2>1 DEF UnitOf
  <2>3. SerialsUnique(I)
    BY DEF SerialsUnique
  <2>4. HolderIn(I, l) = i.asset
    BY <1>2, <2>2, <2>3, HolderIs
  <2>5. HolderIn(J, l) = i.asset
    BY <1>2, <2>2, HolderIs
  <2> QED
    BY <2>4, <2>5 DEF UnitOf
<1> QED
  BY <1>1, <1>2

LEMMA LinesClassifiedKept ==
    ASSUME NEW I, NEW J, I \subseteq J, SerialsUnique(J), NEW S, S \subseteq ReceiptLine,
           \A l \in S : UnitOf(l, I)
    PROVE  LinesClassified(S, J) = LinesClassified(S, I)
<1>1. \A l \in S : HolderIn(J, l) = HolderIn(I, l)
  BY HolderKept
<1> QED
  BY <1>1 DEF LinesClassified

LEMMA LinesClassifiedJoin ==
    ASSUME NEW I, NEW S, NEW T, NEW U, U = S \cup T
    PROVE  LinesClassified(U, I) = LinesClassified(S, I) \cup LinesClassified(T, I)
BY DEF LinesClassified

\* Exceptions are rows of receiving_exceptions.
LEMMA FindingsTyped ==
    ASSUME NEW l \in ReceiptLine, NEW e, NEW conflict \in AssetId
    PROVE  LineExceptions(l, e, conflict) \subseteq Finding
<1> SUFFICES ASSUME NEW k \in LineKinds(l, e, conflict)
             PROVE  LineException(l, k, conflict) \in Finding
  BY DEF LineExceptions
<1>1. k \in Kind
  BY DEF LineKinds, Kind
<1>2. /\ l.receipt \in Receipt /\ l.id \in 1..MaxArrival /\ l.poLine \in PoLine \cup {Null}
      /\ l.asset \in AssetId /\ Null \in AssetId
  BY DEF ReceiptLine, AssetId
<1> QED
  BY <1>1, <1>2 DEF LineException, Finding

LEMMA AggregatesTyped ==
    ASSUME NEW r \in Receipt, NEW S, NEW C, \A c \in C : c.line \in PoLine
    PROVE  Aggregates(r, S, C) \subseteq Finding
<1> SUFFICES ASSUME NEW c \in C, NEW k \in AggregateKinds(S, c.line, EffectiveLine(c.line))
             PROVE  Aggregate(r, c.line, k) \in Finding
  BY DEF Aggregates
<1>1. k \in Kind
  BY DEF AggregateKinds, Kind
<1> QED
  BY <1>1 DEF Aggregate, Finding, AssetId

-----------------------------------------------------------------------------
(***************************************************************************)
(* A line is recorded.                                                     *)
(***************************************************************************)

\* The line is new, and so is the serial it claims.
LEMMA RecordedDistinct ==
    ASSUME ReceivingInv, UNCHANGED tables, NEW t \in Tx, NEW x, tx' = [tx EXCEPT ![t] = x],
           NEW l, x.lines = tx[t].lines \cup {l}, l.id \notin Used,
           l.asset # Null => SerialFree(t, l.serial)
    PROVE  Distinct'
<1>1. tx'[t] = x /\ \A u \in Tx : u # t => tx'[u] = tx[u]
  BY DEF ReceivingInv
<1>2. \A k : Written(k)' => Written(k) \/ k = l
  BY <1>1 DEF Written, tables
<1>3. ASSUME NEW k, Written(k) PROVE k.id # l.id
  BY <1>3 DEF Written, Used
<1>4. ASSUME NEW k, Written(k), k.asset # Null, l.asset # Null, l.serial \in Serial
      PROVE  k.serial # l.serial
  <2>1. SerialFree(t, l.serial)
    BY <1>4
  <2>2. CASE k \in arrived
    <3>1. [asset |-> k.asset, serial |-> k.serial] \in SeenIdentifiers(t)
      BY <1>4, <2>2 DEF ReceivingInv, Committed, SeenIdentifiers, Units
    <3> QED
      BY <3>1, <2>1, <1>4 DEF SerialFree
  <2>3. CASE k \in tx[t].lines
    <3>1. [asset |-> k.asset, serial |-> k.serial] \in SeenIdentifiers(t)
      BY <1>4, <2>3 DEF SeenIdentifiers, Units
    <3> QED
      BY <3>1, <2>1, <1>4 DEF SerialFree
  <2>4. ASSUME NEW u \in Tx, u # t, k \in tx[u].lines PROVE k.serial # l.serial
    BY <2>4, <2>1, <1>4 DEF SerialFree, Claims
  <2> QED
    BY <2>2, <2>3, <2>4, <1>4 DEF Written
<1> QED
  BY <1>2, <1>3, <1>4 DEF ReceivingInv, Distinct

LEMMA RecordedStep ==
    ASSUME ReceivingInv, NEW t \in Tx, NEW y, y = tx[t], y.phase = "inspected",
           NEW id \in Uuid7(t), NEW asset \in {Null, id}, NEW l, l = LineRow(t, id, asset),
           Recorded(t, l),
           asset = Null => y.pending.arrival.unit = Null \/ y.pending.conflict # Null,
           asset = id => /\ y.pending.arrival.unit # Null /\ y.pending.conflict = Null
                         /\ SerialFree(t, y.pending.arrival.unit)
    PROVE  ReceivingInv'
<1>1. y \in TxRow /\ Row(y)
  BY DEF ReceivingInv, Rows
<1>2. PICK p, o : p = y.pending /\ o = p.arrival
  OBVIOUS
<1>3. p \in Pending /\ y.seals = FALSE /\ y.receipt \in Receipt /\ y.header \in Headers /\ y.kind \in TxKind
  BY <1>1, <1>2 DEF Row, Formed, TxRow
<1>4. o \in Arrival /\ p.poLine \in PoLine \cup {Null} /\ p.conflict \in AssetId
  BY <1>2, <1>3, ReceivingAssumption DEF Pending
<1>5. id \in 1..MaxArrival /\ id \notin Used /\ id # Null
  BY ProcurementAssumption DEF Uuid7
<1>6. /\ l.id = id /\ l.receipt = y.receipt /\ l.poLine = p.poLine /\ l.asset = asset
      /\ l.serial = o.unit
  BY <1>2 DEF LineRow
<1>7. l \in ReceiptLine
  <2>1. catalog[o.item].serialized \in BOOLEAN
    BY <1>4 DEF ReceivingInv, OrderInv, OrderShape, Arrival
  <2>2. asset \in AssetId
    BY <1>5 DEF AssetId
  <2> QED
    BY <1>2, <1>3, <1>4, <1>5, <2>1, <2>2 DEF LineRow, ReceiptLine, Arrival
<1>8. l.serialized <=> o.unit # Null
  BY <1>2, <1>7 DEF Recorded, RowAccepted, ReceiptLine
<1>9. p.conflict # Null => o.unit \in Serial /\ \E i \in Carried(y) : i.serial = o.unit
                                                       /\ i.asset = p.conflict
  BY <1>1, <1>2 DEF Row, Accounted
<1>10. PICK F : F = LineExceptions(l, Expected(l), p.conflict)
  OBVIOUS
<1>11. F \subseteq Finding
  BY <1>4, <1>7, <1>10, FindingsTyped
<1>12. PICK x : x = [y EXCEPT !.phase = "open", !.pending = Null, !.lines = y.lines \cup {l},
                              !.exceptions = y.exceptions \cup F]
  OBVIOUS
<1>13. /\ x \in TxRow /\ x.phase = "open" /\ x.lines = y.lines \cup {l}
       /\ x.exceptions = y.exceptions \cup F /\ x.receipt = y.receipt /\ x.header = y.header
       /\ x.bound = y.bound /\ x.seals = FALSE /\ x.kind = y.kind
  BY <1>1, <1>3, <1>7, <1>11, <1>12 DEF TxRow
<1>14. tx' = [tx EXCEPT ![t] = x] /\ UNCHANGED <<catalog, status, lines, poCorrections>>
       /\ UNCHANGED tables /\ UNCHANGED <<poLock, receiptLock>>
  BY <1>2, <1>10, <1>12 DEF Recorded, Stage, tables, poVars
<1>15. Distinct'
  <2>1. l.asset # Null => SerialFree(t, l.serial)
    BY <1>2, <1>6
  <2>2. l.id \notin Used /\ x.lines = tx[t].lines \cup {l}
    BY <1>5, <1>6, <1>13
  <2> QED
    BY <2>1, <2>2, <1>14, RecordedDistinct
<1>16. Locking'
  BY <1>13, <1>14, LocksKept DEF Open
<1>17. PICK I, J : I = Carried(y) /\ J = Carried(x)
  OBVIOUS
<1>18. I \subseteq J
  BY <1>13, <1>17 DEF Carried, Units
<1>19. SerialsUnique(J)
  <2>1. PICK S : S = arrived \cup x.lines
    OBVIOUS
  <2>2. \A k \in S : Written(k)'
    <3>1. tx'[t] = x
      BY <1>14 DEF ReceivingInv
    <3> QED
      BY <2>1, <3>1, <1>14 DEF Written, tables
  <2>3. ClaimsUnique(S)
    <3> SUFFICES ASSUME NEW k \in S, NEW m \in S, k.asset # Null, m.asset # Null,
                        k.serial \in Serial, k.serial = m.serial
                 PROVE  k = m
      BY DEF ClaimsUnique
    <3>1. Written(k)' /\ Written(m)'
      BY <2>2
    <3> QED
      BY <3>1, <1>15 DEF Distinct
  <2>4. J \subseteq Units(S)
    BY <1>17, <2>1 DEF Carried, Units, ReceivingInv, Committed
  <2> QED
    BY <2>3, <2>4, UnitsUnique
<1>20. UnitOf(l, J) /\ HolderIn(J, l) = p.conflict
  <2>1. CASE asset = id
    BY <2>1, <1>2, <1>5, <1>6, <1>8 DEF UnitOf, HolderIn
  <2>2. CASE asset = Null /\ p.conflict = Null
    <3>1. o.unit = Null /\ Null \notin Serial
      BY <2>2, <1>2, ReceivingAssumption
    <3> QED
      BY <2>2, <3>1, <1>6, <1>8 DEF UnitOf, HolderIn
  <2>3. CASE asset = Null /\ p.conflict # Null
    <3>1. PICK i \in I : i.serial = o.unit /\ i.asset = p.conflict
      BY <2>3, <1>9, <1>17
    <3>2. o.unit \in Serial /\ i \in J /\ o.unit # Null
      BY <2>3, <3>1, <1>9, <1>18, ReceivingAssumption
    <3>3. HolderIn(J, l) = i.asset
      BY <2>3, <3>1, <3>2, <1>6, <1>19, HolderIs
    <3> QED
      BY <2>3, <3>1, <3>2, <3>3, <1>6, <1>8 DEF UnitOf
  <2> QED
    BY <2>1, <2>2, <2>3
<1>21. \A k \in y.lines : UnitOf(k, I) /\ k \in ReceiptLine
  BY <1>1, <1>17 DEF Row, Accounted, TxRow
<1>22. Accounted(x)
  <2>1. \A k \in y.lines : UnitOf(k, J)
    BY <1>18, <1>19, <1>21, HolderKept
  <2> QED
    BY <2>1, <1>13, <1>17, <1>20 DEF Accounted
<1>23. Classified(x)
  <2>1. LinesClassified(y.lines, J) = LinesClassified(y.lines, I)
    BY <1>18, <1>19, <1>21, LinesClassifiedKept
  <2>2. LinesClassified({l}, J) = F
    BY <1>10, <1>20 DEF LinesClassified
  <2>3. LinesClassified(x.lines, J) = LinesClassified(y.lines, J) \cup LinesClassified({l}, J)
    BY <1>13, LinesClassifiedJoin
  <2>4. y.exceptions = LinesClassified(y.lines, I)
    BY <1>1, <1>3, <1>17 DEF Row, Classified
  <2> QED
    BY <2>1, <2>2, <2>3, <2>4, <1>13, <1>17 DEF Classified
<1>24. Binds(x)
  <2>1. \A q : Fixed(x, q) <=> Fixed(y, q)
    BY <1>13 DEF Fixed, ComparatorsFor
  <2> QED
    BY <2>1, <1>1, <1>2, <1>6, <1>13 DEF Row, Binds
<1>25. Late(x)
  BY <1>1, <1>13 DEF Row, Late
<1>26. Row(x)
  BY <1>3, <1>13, <1>22, <1>23, <1>24, <1>25 DEF Row, Formed
<1> QED
  BY <1>14, <1>15, <1>16, <1>26, StageStep

LEMMA InsertLineStep ==
    ASSUME ReceivingInv, NEW t \in Tx, InsertLine(t) \/ CreateReceivedUnit(t)
    PROVE  ReceivingInv'
<1>1. PICK y : y = tx[t]
  OBVIOUS
<1>2. CASE InsertLine(t)
  <2>1. PICK id \in Uuid7(t) : Recorded(t, LineRow(t, id, Null))
    BY <1>2 DEF InsertLine
  <2>2. PICK l : l = LineRow(t, id, Null)
    OBVIOUS
  <2>3. id # Null
    BY ProcurementAssumption DEF Uuid7
  <2> QED
    BY <1>1, <1>2, <2>1, <2>2, <2>3, RecordedStep DEF InsertLine
<1>3. CASE CreateReceivedUnit(t)
  <2>1. PICK id \in Uuid7(t) : Recorded(t, LineRow(t, id, id))
    BY <1>3 DEF CreateReceivedUnit
  <2>2. PICK l : l = LineRow(t, id, id)
    OBVIOUS
  <2>3. id # Null
    BY ProcurementAssumption DEF Uuid7
  <2> QED
    BY <1>1, <1>3, <2>1, <2>2, <2>3, RecordedStep DEF CreateReceivedUnit
<1> QED
  BY <1>2, <1>3

LEMMA ReconcileReceiptStep ==
    ASSUME ReceivingInv, NEW t \in Tx, ReconcileReceipt(t)
    PROVE  ReceivingInv'
<1>1. PICK y, F : y = tx[t] /\ F = Aggregates(y.receipt, LinesFor(y), ComparatorsFor(y))
  OBVIOUS
<1>2. y \in TxRow /\ Row(y) /\ y.phase = "open"
  BY <1>1 DEF ReceivingInv, Rows, ReconcileReceipt
<1>3. y.receipt \in Receipt /\ y.header \in Headers /\ y.kind \in TxKind
  BY <1>2 DEF Row, Formed
<1>4. y.seals = FALSE /\ y.receipt \notin sealed
  BY <1>1, <1>2, OwnView DEF ReconcileReceipt, TxRow
<1>5. F \subseteq Finding
  <2>1. \A c \in ComparatorsFor(y) : c.line \in PoLine
    BY <1>2 DEF ComparatorsFor, ReceivingInv, Committed, TablesTyped, TxRow, Comparator
  <2> QED
    BY <1>1, <1>3, <2>1, AggregatesTyped
<1>6. PICK x : x = [y EXCEPT !.seals = TRUE, !.exceptions = y.exceptions \cup F]
  OBVIOUS
<1>7. /\ x \in TxRow /\ x.phase = "open" /\ x.lines = y.lines /\ x.bound = y.bound
      /\ x.exceptions = y.exceptions \cup F /\ x.receipt = y.receipt /\ x.header = y.header
      /\ x.seals = TRUE /\ x.kind = y.kind
  BY <1>2, <1>5, <1>6 DEF TxRow
<1>8. tx' = [tx EXCEPT ![t] = x] /\ UNCHANGED <<catalog, status, lines, poCorrections>>
      /\ UNCHANGED tables /\ UNCHANGED <<poLock, receiptLock>>
  BY <1>1, <1>6, OwnView DEF ReconcileReceipt, Stage, tables, poVars
<1>9. /\ LinesFor(x) = LinesFor(y) /\ ComparatorsFor(x) = ComparatorsFor(y)
      /\ Carried(x) = Carried(y)
  BY <1>7 DEF LinesFor, ComparatorsFor, Carried
<1>10. Binds(x)
  BY <1>2, <1>7, <1>9 DEF Row, Binds, Fixed
<1>11. Accounted(x) /\ Late(x)
  BY <1>2, <1>4, <1>7, <1>9 DEF Row, Accounted, Late
<1>12. Classified(x)
  BY <1>1, <1>2, <1>4, <1>7, <1>9 DEF Row, Classified
<1>13. Row(x)
  BY <1>3, <1>7, <1>10, <1>11, <1>12 DEF Row, Formed
<1>14. Distinct'
  BY <1>1, <1>7, <1>8, StageDistinct
<1>15. Locking'
  BY <1>1, <1>2, <1>7, <1>8, LocksKept DEF Open
<1> QED
  BY <1>8, <1>13, <1>14, <1>15, StageStep

-----------------------------------------------------------------------------
(***************************************************************************)
(* A rollback, and the steps of the order under the transactions.          *)
(***************************************************************************)
LEMMA FreeRow ==
    Row(Free) /\ Free.phase = "idle" /\ Free.lines = {}
<1>1. Free \in TxRow /\ Free.phase = "idle"
  BY DEF Free, TxRow
<1>2. /\ Free.lines = {} /\ Free.bound = {} /\ Free.seals = FALSE /\ Free.exceptions = {}
  BY DEF Free
<1>3. LinesClassified(Free.lines, Carried(Free)) = {}
  BY <1>2 DEF LinesClassified
<1> QED
  BY <1>1, <1>2, <1>3 DEF Row, Formed, Binds, Late, Accounted, Classified

LEMMA ReleaseLocking ==
    ASSUME ReceivingInv, NEW t \in Tx, Release(t)
    PROVE  Locking'
<1>1. tx'[t] = Free /\ \A u \in Tx : u # t => tx'[u] = tx[u]
  BY DEF ReceivingInv, Release
<1>2. Null \notin Tx /\ Free.phase = "idle"
  BY ReceivingAssumption, FreeRow
<1>3. poLock' \in Tx \cup {Null} /\ \A u \in Tx : poLock' = u <=> tx'[u].phase # "idle" /\ tx'[u].header.po
  BY <1>1, <1>2 DEF Release, ReceivingInv, Locking
<1>4. receiptLock' \in [Receipt -> Tx \cup {Null}]
  BY DEF Release, ReceivingInv, Locking
<1>5. \A u \in Tx : \A q \in Receipt : receiptLock'[q] = u <=> Open(tx'[u]) /\ tx'[u].receipt = q
  BY <1>1, <1>2 DEF Release, ReceivingInv, Locking, Open
<1> QED
  BY <1>3, <1>4, <1>5 DEF Locking, Open

LEMMA RollbackStep ==
    ASSUME ReceivingInv, NEW t \in Tx, Rollback(t)
    PROVE  ReceivingInv'
<1>1. PICK x : x = Free
  OBVIOUS
<1>2. Row(x) /\ x.lines = {}
  BY <1>1, FreeRow
<1>3. tx' = [tx EXCEPT ![t] = x] /\ UNCHANGED <<catalog, status, lines, poCorrections>>
      /\ UNCHANGED tables
  BY <1>1 DEF Rollback, Release, tables
<1>4. Distinct'
  BY <1>2, <1>3, StageDistinct
<1>5. Locking'
  BY ReleaseLocking DEF Rollback
<1> QED
  BY <1>2, <1>3, <1>4, <1>5, StageStep

\* The expectations of the lines in P stay as they are.
Steady(P) == \A p \in P : p \in Present' /\ EffectiveLine(p)' = EffectiveLine(p)
                                         /\ Generation(p)' = Generation(p)

LEMMA SteadyClassified ==
    ASSUME NEW S, NEW C, NEW P, Steady(P), \A l \in S : l.poLine # Null => l.poLine \in P,
           \A c \in C : c.line \in P
    PROVE  /\ \A I : LinesClassified(S, I)' = LinesClassified(S, I)
           /\ \A r, T : Aggregates(r, T, C)' = Aggregates(r, T, C)
<1>1. \A l \in S : Expected(l)' = Expected(l)
  BY DEF Expected, Steady
<1>2. \A c \in C : EffectiveLine(c.line)' = EffectiveLine(c.line)
  BY DEF Steady
<1> QED
  BY <1>1, <1>2 DEF LinesClassified, Aggregates

\* What an open transaction relies on does not move with the order.
LEMMA SteadyRow ==
    ASSUME NEW x, Row(x), UNCHANGED <<comparators, arrived, identifiers, sealed>>,
           status = "ISSUED" => status' = "ISSUED", NEW P, Steady(P),
           \A c \in ComparatorsFor(x) : c.line \in P
    PROVE  Row(x)'
<1>1. /\ LinesFor(x)' = LinesFor(x) /\ ComparatorsFor(x)' = ComparatorsFor(x)
      /\ Carried(x)' = Carried(x)
  BY DEF LinesFor, ComparatorsFor, Carried
<1>2. Formed(x)' /\ Late(x)' /\ Accounted(x)'
  BY <1>1 DEF Row, Formed, Late, Accounted
<1>3. \A p : Fixed(x, p)' <=> Fixed(x, p)
  BY <1>1 DEF Fixed
<1>4. \A c \in x.bound : c \in ComparatorsFor(x)
  BY DEF Row, Binds, ComparatorsFor
<1>5. Binds(x)'
  BY <1>3, <1>4 DEF Row, Binds, Steady
<1>6. \A l \in x.lines : l.poLine # Null => l.poLine \in P
  BY DEF Row, Binds, Fixed
<1>7. /\ \A I : LinesClassified(x.lines, I)' = LinesClassified(x.lines, I)
      /\ \A r, T : Aggregates(r, T, ComparatorsFor(x))' = Aggregates(r, T, ComparatorsFor(x))
  <2>1. PICK S, C : S = x.lines /\ C = ComparatorsFor(x)
    OBVIOUS
  <2>2. C = ComparatorsFor(x)'
    BY <2>1, <1>1
  <2>3. /\ \A I : LinesClassified(S, I)' = LinesClassified(S, I)
        /\ \A r, T : Aggregates(r, T, C)' = Aggregates(r, T, C)
    BY <2>1, <1>6, SteadyClassified
  <2> QED
    BY <2>1, <2>2, <2>3
<1>8. Classified(x)'
  BY <1>1, <1>7 DEF Row, Classified
<1> QED
  BY <1>2, <1>5, <1>8 DEF Row

LEMMA SteadyCommitted ==
    ASSUME ReceivingInv, UNCHANGED tables, status = "ISSUED" => status' = "ISSUED",
           NEW P, Steady(P), \A c \in comparators : c.line \in P
    PROVE  Committed'
<1>1. ExpectationsFrozen'
  BY DEF ReceivingInv, Committed, ExpectationsFrozen, tables, Steady
<1>2. \A l \in arrived : l.poLine # Null => l.poLine \in P
  BY DEF ReceivingInv, Committed
<1>3. LinesClassified(arrived, identifiers)' = LinesClassified(arrived, identifiers)
  <2>1. PICK S, I : S = arrived /\ I = identifiers
    OBVIOUS
  <2>2. S = arrived' /\ I = identifiers'
    BY <2>1 DEF tables
  <2>3. LinesClassified(S, I)' = LinesClassified(S, I)
    BY <2>1, <1>2, SteadyClassified
  <2> QED
    BY <2>1, <2>2, <2>3
<1>4. \A r : Aggregates(r, LinesOf(r), ComparatorsOf(r))' = Aggregates(r, LinesOf(r), ComparatorsOf(r))
  <2> SUFFICES ASSUME NEW r
               PROVE  Aggregates(r, LinesOf(r), ComparatorsOf(r))' = Aggregates(r, LinesOf(r), ComparatorsOf(r))
    OBVIOUS
  <2>1. PICK S, C : S = LinesOf(r) /\ C = ComparatorsOf(r)
    OBVIOUS
  <2>2. S = LinesOf(r)' /\ C = ComparatorsOf(r)'
    BY <2>1 DEF LinesOf, ComparatorsOf, tables
  <2>3. \A c \in C : c.line \in P
    BY <2>1 DEF ComparatorsOf
  <2>4. Aggregates(r, S, C)' = Aggregates(r, S, C)
    <3>1. \A l \in S : l.poLine # Null => l.poLine \in P
      BY <2>1, <1>2 DEF LinesOf
    <3> QED
      BY <2>3, <3>1, SteadyClassified
  <2> QED
    BY <2>1, <2>2, <2>4
<1>5. SealedClassified' = SealedClassified
  BY <1>4 DEF SealedClassified, tables
<1> QED
  BY <1>1, <1>3, <1>5 DEF ReceivingInv, Committed, TablesTyped, tables

LEMMA ReceivingOrderStep ==
    ASSUME ReceivingInv, UNCHANGED receivingVars,
           \/ ProcurementNext
           \/ \E i \in Item, u \in Uom, s \in BOOLEAN : UpdateItem(i, u, s)
    PROVE  ReceivingInv'
<1>1. OrderInv'
  BY OrderStep DEF ReceivingInv
<1>2. UNCHANGED <<poLock, comparators>> /\ (status = "ISSUED" => status' = "ISSUED")
  BY DEF ProcurementNext, CreateLine, UpdateLine, AmendLine, CorrectProcurement, IssueOrder,
         UpdateItem
<1>3. UNCHANGED tables /\ UNCHANGED <<receipts, receiptLock, arrived, sealed, exceptions, identifiers, scans, tx>>
  BY <1>2 DEF tables, receivingVars
<1>4. PICK P : P = {p \in Present : status = "ISSUED" /\ (Pinned(p) \/ poLock # Null)}
  OBVIOUS
<1>5. Steady(P)
  BY <1>4, OrderFreezes DEF ReceivingInv, Steady
<1>6. \A c \in comparators : c.line \in P
  BY <1>4 DEF ReceivingInv, Committed, ExpectationsFrozen, Pinned
<1>7. ASSUME NEW t \in Tx PROVE \A c \in ComparatorsFor(tx[t]) : c.line \in P
  <2>1. PICK x : x = tx[t]
    OBVIOUS
  <2>2. Row(x)
    BY <2>1 DEF ReceivingInv, Rows
  <2>3. ASSUME NEW c \in x.bound PROVE c.line \in P
    <3>1. c.line \in Present /\ status = "ISSUED" /\ x.header.po
      BY <2>2, <2>3 DEF Row, Binds
    <3>2. x.phase # "idle"
      BY <2>2, <2>3, FreeRow DEF Row, Formed, Free
    <3>3. poLock = t /\ poLock # Null
      BY <2>1, <3>1, <3>2, ReceivingAssumption DEF ReceivingInv, Locking
    <3> QED
      BY <3>1, <3>3, <1>4
  <2> QED
    BY <2>1, <2>3, <1>6 DEF ComparatorsFor
<1>8. Committed'
  BY <1>2, <1>3, <1>5, <1>6, SteadyCommitted
<1>9. Locking'
  BY <1>2, <1>3 DEF ReceivingInv, Locking, Open
<1>10. Distinct'
  BY <1>3 DEF ReceivingInv, Distinct, Written
<1>11. ASSUME NEW t \in Tx PROVE Row(tx[t])'
  <2>1. PICK x : x = tx[t]
    OBVIOUS
  <2>2. Row(x) /\ x = tx'[t]
    BY <2>1, <1>3 DEF ReceivingInv, Rows
  <2>3. \A c \in ComparatorsFor(x) : c.line \in P
    BY <2>1, <1>7
  <2>4. Row(x)'
    BY <2>2, <2>3, <1>2, <1>3, <1>5, SteadyRow
  <2> QED
    BY <2>2, <2>4
<1> QED
  BY <1>1, <1>3, <1>8, <1>9, <1>10, <1>11 DEF ReceivingInv, Rows

-----------------------------------------------------------------------------
(***************************************************************************)
(* The commit.  Whatever the others have classified stays right: they work *)
(* on other receipts, or have not begun, and a serial keeps its Asset.     *)
(***************************************************************************)
LEMMA NothingWritten ==
    ASSUME NEW x, Formed(x), x.phase # "inspected", x.lines = {}, x.bound = {}, x.seals = FALSE,
           x.exceptions = {}
    PROVE  Row(x)'
<1>1. LinesClassified(x.lines, Carried(x))' = {}
  BY DEF LinesClassified
<1> QED
  BY <1>1 DEF Row, Formed, Binds, Late, Accounted, Classified

\* The rows of one open transaction reach the tables.
CommitRows(y) ==
    /\ UNCHANGED <<catalog, status, lines, poCorrections>>
    /\ receipts' = [receipts EXCEPT ![y.receipt] = y.header]
    /\ comparators' = comparators \cup y.bound
    /\ arrived' = arrived \cup y.lines
    /\ identifiers' = identifiers \cup Units(y.lines)
    /\ sealed' = IF y.seals THEN sealed \cup {y.receipt} ELSE sealed
    /\ exceptions' = exceptions \cup y.exceptions

\* Any two transactions and the tables together claim no serial twice.
LEMMA ClaimsTogether ==
    ASSUME ReceivingInv, NEW t \in Tx, NEW u \in Tx, NEW J,
           J \subseteq identifiers \cup Units(tx[t].lines) \cup Units(tx[u].lines)
    PROVE  SerialsUnique(J)
<1>1. PICK S : S = arrived \cup tx[t].lines \cup tx[u].lines
  OBVIOUS
<1>2. \A k \in S : Written(k)
  BY <1>1 DEF Written
<1>3. ClaimsUnique(S)
  BY <1>2 DEF ClaimsUnique, ReceivingInv, Distinct
<1>4. J \subseteq Units(S)
  BY <1>1 DEF Units, ReceivingInv, Committed
<1> QED
  BY <1>3, <1>4, UnitsUnique

LEMMA CommitOthers ==
    ASSUME ReceivingInv, NEW t \in Tx, NEW y, y = tx[t], Open(y), CommitRows(y),
           NEW u \in Tx \ {t}, NEW z, z = tx[u]
    PROVE  Row(z)'
<1>1. Row(y) /\ Row(z) /\ y \in TxRow /\ z \in TxRow
  BY DEF ReceivingInv, Rows
<1>2. y.receipt \in Receipt
  BY <1>1 DEF Open, Row, Formed
<1>3. CASE z.receipt = y.receipt
  <2>1. ~ Open(z)
    BY <1>2, <1>3 DEF ReceivingInv, Locking
  <2>2. z.phase \in {"idle", "waiting"}
    BY <2>1, <1>1 DEF Open, TxRow
  <2>3. z.phase = "idle" => z.receipt = Null
    BY <1>1 DEF Row, Formed, Free
  <2>4. z.phase = "waiting"
    BY <2>2, <2>3, <1>2, <1>3, ReceivingAssumption
  <2>5. z.lines = {} /\ z.bound = {} /\ z.seals = FALSE /\ z.exceptions = {} /\ Formed(z)
    BY <2>4, <1>1 DEF Row, Formed, TxRow
  <2> QED
    BY <2>4, <2>5, NothingWritten
<1>4. CASE z.receipt # y.receipt
  <2>1. /\ LinesFor(z)' = LinesFor(z) /\ ComparatorsFor(z)' = ComparatorsFor(z)
    BY <1>1, <1>4 DEF CommitRows, Row, Binds, LinesFor, ComparatorsFor
  <2>2. z.receipt \in sealed' <=> z.receipt \in sealed
    BY <1>4 DEF CommitRows
  <2>3. PICK I, J : I = Carried(z) /\ J = Carried(z)'
    OBVIOUS
  <2>4. I \subseteq J /\ J \subseteq identifiers \cup Units(tx[t].lines) \cup Units(tx[u].lines)
    BY <2>3 DEF Carried, CommitRows
  <2>5. SerialsUnique(J)
    BY <2>4, ClaimsTogether
  <2>6. \A l \in z.lines : UnitOf(l, I) /\ l \in ReceiptLine
    BY <1>1, <2>3 DEF Row, Accounted, TxRow
  <2>7. \A l \in z.lines : UnitOf(l, J)
    BY <2>4, <2>5, <2>6, HolderKept
  <2>8. Formed(z)' /\ Late(z)'
    BY <1>1, <2>2 DEF Row, Formed, Late
  <2>9. Accounted(z)'
    <3>1. \A l \in z.lines : UnitOf(l, Carried(z))'
      BY <2>3, <2>7 DEF UnitOf
    <3>2. z.phase = "inspected" /\ z.pending.conflict # Null =>
              /\ z.pending.arrival.unit \in Serial
              /\ \E i \in J : i.serial = z.pending.arrival.unit /\ i.asset = z.pending.conflict
      BY <1>1, <2>3, <2>4 DEF Row, Accounted
    <3> QED
      BY <3>1, <3>2, <2>3 DEF Accounted
  <2>10. Present' = Present /\ \A p : Generation(p)' = Generation(p)
    BY DEF Present, Generation, CommitRows
  <2>11. Binds(z)'
    <3>1. \A p : Fixed(z, p)' <=> Fixed(z, p)
      BY <2>1 DEF Fixed
    <3> QED
      BY <3>1, <2>10, <1>1 DEF Row, Binds, CommitRows
  <2>12. Classified(z)'
    <3>1. LinesClassified(z.lines, J) = LinesClassified(z.lines, I)
      BY <2>4, <2>5, <2>6, LinesClassifiedKept
    <3>2. /\ \A S, K : LinesClassified(S, K)' = LinesClassified(S, K)
          /\ \A r, S, C : Aggregates(r, S, C)' = Aggregates(r, S, C)
      BY ClassifiedFrame DEF CommitRows
    <3> QED
      BY <3>1, <3>2, <2>1, <2>3, <1>1 DEF Row, Classified
  <2> QED
    BY <2>8, <2>9, <2>11, <2>12 DEF Row
<1> QED
  BY <1>3, <1>4

\* The tables afterwards.
LEMMA CommitTables ==
    ASSUME ReceivingInv, NEW t \in Tx, NEW y, y = tx[t], Open(y), CommitRows(y)
    PROVE  TablesTyped' /\ ExpectationsFrozen' /\ (comparators' # {} => status' = "ISSUED")
           /\ \A l \in arrived' : l.poLine # Null =>
                  \E c \in comparators' : c.receipt = l.receipt /\ c.line = l.poLine
<1>1. Row(y) /\ y \in TxRow
  BY DEF ReceivingInv, Rows
<1>2. y.receipt \in Receipt /\ y.header \in Headers
  BY <1>1 DEF Open, Row, Formed
<1>3. y.header # Null
  BY <1>2, ReceivingAssumption
<1>4. TablesTyped'
  <2>1. receipts' \in [Receipt -> Headers \cup {Null}]
    BY <1>2 DEF ReceivingInv, Committed, TablesTyped, CommitRows
  <2>2. sealed' \subseteq {r \in Receipt : receipts'[r] # Null}
    BY <1>2, <1>3 DEF ReceivingInv, Committed, TablesTyped, CommitRows
  <2>3. arrived' \subseteq ReceiptLine /\ comparators' \subseteq Comparator /\ exceptions' \subseteq Finding
    BY <1>1 DEF ReceivingInv, Committed, TablesTyped, CommitRows, TxRow
  <2> QED
    BY <2>1, <2>2, <2>3 DEF TablesTyped
<1>5. Present' = Present /\ \A p : Generation(p)' = Generation(p)
  BY DEF Present, Generation, CommitRows
<1>6. ExpectationsFrozen'
  BY <1>1, <1>5 DEF ReceivingInv, Committed, ExpectationsFrozen, CommitRows, Row, Binds
<1>7. comparators' # {} => status' = "ISSUED"
  BY <1>1 DEF ReceivingInv, Committed, CommitRows, Row, Binds
<1>8. ASSUME NEW l \in y.lines, l.poLine # Null
      PROVE  \E c \in comparators' : c.receipt = l.receipt /\ c.line = l.poLine
  BY <1>1, <1>8 DEF CommitRows, Row, Binds, Fixed, ComparatorsFor
<1>9. ASSUME NEW l \in arrived, l.poLine # Null
      PROVE  \E c \in comparators' : c.receipt = l.receipt /\ c.line = l.poLine
  BY <1>9 DEF ReceivingInv, Committed, CommitRows
<1>10. arrived' = arrived \cup y.lines
  BY DEF CommitRows
<1> QED
  BY <1>4, <1>6, <1>7, <1>8, <1>9, <1>10

LEMMA CommitUnits ==
    ASSUME ReceivingInv, NEW t \in Tx, NEW y, y = tx[t], CommitRows(y)
    PROVE  /\ identifiers' = Units(arrived')
           /\ \A l \in arrived' : UnitOf(l, identifiers')
           /\ LinesClassified(arrived, identifiers)' =
                  LinesClassified(arrived, identifiers) \cup LinesClassified(y.lines, Carried(y))
<1>1. Row(y) /\ y \in TxRow
  BY DEF ReceivingInv, Rows
<1>2. PICK I, J, S : I = identifiers /\ J = identifiers' /\ S = arrived'
  OBVIOUS
<1>3. J = Carried(y) /\ I \subseteq J /\ S = arrived \cup y.lines
  BY <1>2 DEF Carried, CommitRows
<1>4. SerialsUnique(J)
  BY <1>3, ClaimsTogether DEF Carried
<1>5. J = Units(S)
  BY <1>2, <1>3 DEF CommitRows, Units, ReceivingInv, Committed
<1>6. \A l \in arrived : UnitOf(l, I) /\ l \in ReceiptLine
  BY <1>2 DEF ReceivingInv, Committed, TablesTyped
<1>7. \A l \in arrived : UnitOf(l, J)
  BY <1>3, <1>4, <1>6, HolderKept
<1>8. \A l \in y.lines : UnitOf(l, J)
  BY <1>1, <1>3 DEF Row, Accounted
<1>9. LinesClassified(arrived, J) = LinesClassified(arrived, I)
  BY <1>3, <1>4, <1>6, LinesClassifiedKept
<1>10. LinesClassified(S, J) = LinesClassified(arrived, J) \cup LinesClassified(y.lines, J)
  BY <1>3, LinesClassifiedJoin
<1>11. LinesClassified(S, J)' = LinesClassified(S, J)
  BY ClassifiedFrame DEF CommitRows
<1>12. LinesClassified(arrived, identifiers)' = LinesClassified(S, J)
  BY <1>2, <1>11
<1> QED
  BY <1>2, <1>3, <1>5, <1>7, <1>8, <1>9, <1>10, <1>12

\* A reconciled receipt keeps its population, and the one reconciled now has
\* the population that its transaction saw.
LEMMA CommitSealed ==
    ASSUME ReceivingInv, NEW t \in Tx, NEW y, y = tx[t], CommitRows(y)
    PROVE  /\ \A q \in sealed : LinesOf(q)' = LinesOf(q) /\ ComparatorsOf(q)' = ComparatorsOf(q)
           /\ SealedClassified' = SealedClassified \cup
                  (IF y.seals THEN Aggregates(y.receipt, LinesFor(y), ComparatorsFor(y)) ELSE {})
<1>1. Row(y) /\ y \in TxRow
  BY DEF ReceivingInv, Rows
<1>2. \A q \in sealed : LinesOf(q)' = LinesOf(q) /\ ComparatorsOf(q)' = ComparatorsOf(q)
  BY <1>1 DEF CommitRows, LinesOf, ComparatorsOf, Row, Binds, Late
<1>4. \A r, S, C : Aggregates(r, S, C)' = Aggregates(r, S, C)
  BY ClassifiedFrame DEF CommitRows
<1>5. \A q \in sealed : Aggregates(q, LinesOf(q), ComparatorsOf(q))' = Aggregates(q, LinesOf(q), ComparatorsOf(q))
  <2> SUFFICES ASSUME NEW q \in sealed
               PROVE  Aggregates(q, LinesOf(q), ComparatorsOf(q))' = Aggregates(q, LinesOf(q), ComparatorsOf(q))
    OBVIOUS
  <2>1. PICK S, C : S = LinesOf(q) /\ C = ComparatorsOf(q)
    OBVIOUS
  <2>2. S = LinesOf(q)' /\ C = ComparatorsOf(q)'
    BY <2>1, <1>2
  <2> QED
    BY <2>1, <2>2, <1>4
<1>6. PICK q : q = y.receipt
  OBVIOUS
<1>7. Aggregates(q, LinesOf(q), ComparatorsOf(q))' = Aggregates(q, LinesFor(y), ComparatorsFor(y))
  <2>1. PICK S, C : S = LinesFor(y) /\ C = ComparatorsFor(y)
    OBVIOUS
  <2>2. S = LinesOf(q)' /\ C = ComparatorsOf(q)'
    BY <2>1, <1>6 DEF CommitRows, LinesOf, ComparatorsOf, LinesFor, ComparatorsFor
  <2> QED
    BY <2>1, <2>2, <1>4
<1>8. CASE y.seals
  <2>1. sealed' = sealed \cup {q}
    BY <1>6, <1>8 DEF CommitRows
  <2> QED
    BY <2>1, <1>2, <1>5, <1>6, <1>7, <1>8 DEF SealedClassified
<1>9. CASE ~ y.seals
  <2>1. sealed' = sealed
    BY <1>9 DEF CommitRows
  <2> QED
    BY <2>1, <1>2, <1>5, <1>9 DEF SealedClassified
<1> QED
  BY <1>2, <1>8, <1>9

LEMMA CommitStep ==
    ASSUME ReceivingInv, NEW t \in Tx, Commit(t)
    PROVE  ReceivingInv'
<1>1. PICK y : y = tx[t]
  OBVIOUS
<1>2. y \in TxRow /\ Row(y) /\ y.phase = "open" /\ Open(y)
  BY <1>1 DEF ReceivingInv, Rows, Commit, Finished, Open
<1>3. CommitRows(y)
  BY <1>1 DEF Commit, CommitRows, SeenIdentifiers
<1>4. OrderInv'
  BY <1>3, OrderStep DEF CommitRows, ReceivingInv, orderVars
<1>5. exceptions' = LinesClassified(arrived, identifiers)' \cup SealedClassified'
  <2>1. y.exceptions = LinesClassified(y.lines, Carried(y))
            \cup (IF y.seals THEN Aggregates(y.receipt, LinesFor(y), ComparatorsFor(y)) ELSE {})
    BY <1>2 DEF Row, Classified
  <2>2. exceptions = LinesClassified(arrived, identifiers) \cup SealedClassified
    BY DEF ReceivingInv, Committed
  <2>3. exceptions' = exceptions \cup y.exceptions
    BY <1>3 DEF CommitRows
  <2>4. LinesClassified(arrived, identifiers)' =
            LinesClassified(arrived, identifiers) \cup LinesClassified(y.lines, Carried(y))
    BY <1>1, <1>3, CommitUnits
  <2>5. SealedClassified' = SealedClassified \cup
            (IF y.seals THEN Aggregates(y.receipt, LinesFor(y), ComparatorsFor(y)) ELSE {})
    BY <1>1, <1>3, CommitSealed
  <2> QED
    BY <2>1, <2>2, <2>3, <2>4, <2>5
<1>6. Committed'
  <2>1. TablesTyped' /\ ExpectationsFrozen' /\ (comparators' # {} => status' = "ISSUED")
        /\ \A l \in arrived' : l.poLine # Null =>
               \E c \in comparators' : c.receipt = l.receipt /\ c.line = l.poLine
    BY <1>1, <1>2, <1>3, CommitTables
  <2>2. identifiers' = Units(arrived') /\ \A l \in arrived' : UnitOf(l, identifiers')
    BY <1>1, <1>3, CommitUnits
  <2> QED
    BY <2>1, <2>2, <1>5 DEF Committed, Units, UnitOf
<1>7. tx' = [tx EXCEPT ![t] = Free] /\ Release(t)
  BY DEF Commit, Release
<1>8. tx' \in [Tx -> TxRow] /\ tx'[t] = Free /\ \A u \in Tx : u # t => tx'[u] = tx[u]
  BY <1>7, FreeRow DEF ReceivingInv, Row, Formed
<1>9. Locking'
  BY <1>7, ReleaseLocking
<1>10. Distinct'
  <2>1. \A l : Written(l)' => Written(l)
    BY <1>1, <1>3, <1>8, FreeRow DEF Written, CommitRows
  <2> QED
    BY <2>1 DEF ReceivingInv, Distinct
<1>11. ASSUME NEW u \in Tx PROVE Row(tx[u])'
  <2>1. PICK z : z = tx'[u]
    OBVIOUS
  <2>2. CASE u = t
    <3>1. z = Free /\ Formed(z)
      BY <2>1, <2>2, <1>8, FreeRow DEF Row
    <3>2. Row(z)'
      <4>1. z.phase # "inspected" /\ z.lines = {} /\ z.bound = {} /\ z.seals = FALSE /\ z.exceptions = {}
        BY <3>1 DEF Free
      <4> QED
        BY <3>1, <4>1, NothingWritten
    <3> QED
      BY <2>1, <3>2
  <2>3. CASE u # t
    <3>1. Row(z)'
      BY <2>1, <2>3, <1>1, <1>2, <1>3, <1>8, CommitOthers
    <3> QED
      BY <2>1, <3>1
  <2> QED
    BY <2>2, <2>3
<1> QED
  BY <1>4, <1>6, <1>8, <1>9, <1>10, <1>11 DEF ReceivingInv, Rows

-----------------------------------------------------------------------------
(***************************************************************************)
(* The invariant.                                                          *)
(***************************************************************************)
LEMMA InitReceivingInv ==
    Init => ReceivingInv
<1> SUFFICES ASSUME Init PROVE ReceivingInv
  OBVIOUS
<1>1. OrderInv /\ status = "DRAFT" /\ poLock = Null /\ comparators = {}
  BY InitOrderInv DEF Init, ProcurementInit
<1>2. /\ receipts = [r \in Receipt |-> Null] /\ receiptLock = [r \in Receipt |-> Null]
      /\ arrived = {} /\ sealed = {} /\ exceptions = {} /\ identifiers = {}
      /\ tx = [t \in Tx |-> Free]
  BY DEF Init
<1>3. Row(Free) /\ Free.phase = "idle" /\ Free.lines = {} /\ Free \in TxRow
  BY FreeRow DEF Row, Formed
<1>4. Committed
  <2>1. LinesClassified(arrived, identifiers) = {} /\ SealedClassified = {} /\ Units(arrived) = {}
    BY <1>2 DEF LinesClassified, SealedClassified, Units
  <2> QED
    BY <2>1, <1>1, <1>2 DEF Committed, TablesTyped, ExpectationsFrozen
<1>5. Locking
  BY <1>1, <1>2, <1>3, ReceivingAssumption DEF Locking, Open
<1>6. Distinct
  BY <1>2, <1>3 DEF Distinct, Written
<1>7. tx \in [Tx -> TxRow] /\ Rows
  BY <1>2, <1>3 DEF Rows
<1> QED
  BY <1>1, <1>4, <1>5, <1>6, <1>7 DEF ReceivingInv

LEMMA StutterStep ==
    ASSUME ReceivingInv, UNCHANGED vars
    PROVE  ReceivingInv'
<1>1. /\ UNCHANGED <<catalog, status, poLock, lines, poCorrections, comparators>>
      /\ UNCHANGED <<receipts, receiptLock, arrived, sealed, exceptions, identifiers, tx>>
  BY DEF vars, poVars, receivingVars
<1>2. OrderInv'
  BY <1>1, OrderStep DEF ReceivingInv, orderVars
<1>3. Committed'
  BY <1>1, CommittedFrame DEF ReceivingInv, tables
<1>4. Locking' /\ Distinct' /\ tx' \in [Tx -> TxRow]
  BY <1>1 DEF ReceivingInv, Locking, Open, Distinct, Written
<1>5. ASSUME NEW t \in Tx PROVE Row(tx[t])'
  <2>1. PICK x : x = tx[t]
    OBVIOUS
  <2>2. Row(x) /\ x = tx'[t]
    BY <2>1, <1>1 DEF ReceivingInv, Rows
  <2>3. Row(x)'
    BY <2>2, <1>1, RowFrame
  <2> QED
    BY <2>2, <2>3
<1> QED
  BY <1>2, <1>3, <1>4, <1>5 DEF ReceivingInv, Rows

LEMMA ReceivingStep ==
    ReceivingInv /\ [Next]_vars => ReceivingInv'
<1> SUFFICES ASSUME ReceivingInv, [Next]_vars PROVE ReceivingInv'
  OBVIOUS
<1>1. CASE UNCHANGED vars
  BY <1>1, StutterStep
<1>2. CASE ProcurementNext /\ UNCHANGED receivingVars
  BY <1>2, ReceivingOrderStep
<1>3. CASE \E i \in Item, u \in Uom, s \in BOOLEAN : EditItem(i, u, s)
  BY <1>3, ReceivingOrderStep DEF EditItem
<1>4. ASSUME NEW t \in Tx, Receive(t) PROVE ReceivingInv'
  <2>1. CASE \E r \in Receipt, h \in Headers : CreateReceipt(t, r, h)
    BY <2>1, CreateReceiptStep
  <2>2. CASE \E r \in Receipt, kind \in Requests : OpenReceipt(t, r, kind)
    BY <2>2, OpenReceiptStep
  <2>3. CASE \E l \in PoLine, g \in 0..MaxGeneration : BindComparator(t, l, g)
    BY <2>3, BindComparatorStep
  <2>4. CASE \E o \in Arrivals, g \in 0..MaxGeneration :
                 \E l \in PoLine \cup {Null} : InspectArrival(t, o, l, g)
    BY <2>4, InspectArrivalStep
  <2>5. CASE LockReceipt(t)
    BY <2>5, LockReceiptStep
  <2>6. CASE InsertLine(t) \/ CreateReceivedUnit(t)
    BY <2>6, InsertLineStep
  <2>7. CASE ReconcileReceipt(t)
    BY <2>7, ReconcileReceiptStep
  <2>8. CASE Commit(t)
    BY <2>8, CommitStep
  <2>9. CASE Rollback(t)
    BY <2>9, RollbackStep
  <2> QED
    BY <1>4, <2>1, <2>2, <2>3, <2>4, <2>5, <2>6, <2>7, <2>8, <2>9 DEF Receive
<1> QED
  BY <1>1, <1>2, <1>3, <1>4 DEF Next

\* The inductive invariant of receiving: every receiving transaction holds the
\* order and the receipt it works on, and its rows are classified by
\* expectations that its comparators or its locks freeze.
THEOREM ReceivingInvariance ==
    Spec => []ReceivingInv
BY InitReceivingInv, ReceivingStep, PTL DEF Spec

\* The receiving tables and the transactions hold what their schemas say, line
\* identities are unique, and a row lock belongs to a transaction in progress.
THEOREM ReceivingTypeOKProven ==
    Spec => []ReceivingTypeOK
<1>1. ReceivingInv => ReceivingTypeOK
  <2> SUFFICES ASSUME ReceivingInv PROVE ReceivingTypeOK
    OBVIOUS
  <2>1. catalog \in [Item -> [uom : Uom, serialized : BOOLEAN]] /\ status \in {"DRAFT", "ISSUED"}
    BY DEF ReceivingInv, OrderInv, OrderShape
  <2>2. poLock \in Tx \cup {Null} /\ receiptLock \in [Receipt -> Tx \cup {Null}]
    BY DEF ReceivingInv, Locking
  <2>3. /\ receipts \in [Receipt -> Headers \cup {Null}]
        /\ sealed \subseteq {r \in Receipt : receipts[r] # Null}
    BY DEF ReceivingInv, Committed, TablesTyped
  <2>4. \A c \in comparators : c.receipt \in Receipt /\ c.line \in Present
    BY DEF ReceivingInv, Committed, TablesTyped, ExpectationsFrozen, Comparator
  <2>5. ASSUME NEW l \in arrived
        PROVE  /\ l.id \in 1..MaxArrival /\ l.receipt \in Receipt
               /\ l.poLine \in Present \cup {Null} /\ l.asset \in {Null, l.id}
               /\ \A k \in arrived : k.id = l.id => k = l
    <3>1. l \in ReceiptLine /\ UnitOf(l, identifiers)
      BY DEF ReceivingInv, Committed, TablesTyped
    <3>2. l.poLine \in Present \cup {Null}
      BY <2>4 DEF ReceivingInv, Committed
    <3>3. l.asset \in {Null, l.id}
      BY <3>1 DEF UnitOf
    <3>4. \A k \in arrived : k.id = l.id => k = l
      BY DEF ReceivingInv, Distinct, Written
    <3> QED
      BY <3>1, <3>2, <3>3, <3>4 DEF ReceiptLine
  <2>6. ASSUME NEW t \in Tx
        PROVE  /\ tx[t].phase \in {"idle", "waiting", "open", "inspected"}
               /\ tx[t].phase = "idle" => poLock # t /\ \A r \in Receipt : receiptLock[r] # t
    <3>1. tx[t] \in TxRow
      BY DEF ReceivingInv
    <3>2. tx[t].phase \in {"idle", "waiting", "open", "inspected"}
      BY <3>1 DEF TxRow
    <3> QED
      BY <3>2 DEF ReceivingInv, Locking, Open
  <2> QED
    BY <2>1, <2>2, <2>3, <2>4, <2>5, <2>6 DEF ReceivingTypeOK
<1> QED
  BY <1>1, ReceivingInvariance, PTL

\* bind_comparator and correct_procurement under the order lock: whatever the
\* interleaving, a generation that a receipt has pinned stays the current one.
THEOREM ExpectationsFrozenProven ==
    Spec => []ExpectationsFrozen
<1>1. ReceivingInv => ExpectationsFrozen
  BY DEF ReceivingInv, Committed
<1> QED
  BY <1>1, ReceivingInvariance, PTL

\* ADR-010/012: receiving_exceptions holds at every moment exactly the
\* disagreements that the recorded arrivals and the expectations of now imply.
THEOREM ExceptionsExactProven ==
    Spec => []ExceptionsExact
<1>1. ReceivingInv => ExceptionsExact
  <2> SUFFICES ASSUME ReceivingInv PROVE ExceptionsExact
    OBVIOUS
  <2>1. \A l : Holder(l) = HolderIn(identifiers, l)
    BY DEF Holder, HolderIn
  <2>2. exceptions = LinesClassified(arrived, identifiers) \cup SealedClassified
    BY DEF ReceivingInv, Committed
  <2>3. \A e : e \in LinesClassified(arrived, identifiers) <=>
                   \E l \in arrived : e \in LineExceptions(l, Expected(l), Holder(l))
    BY <2>1 DEF LinesClassified
  <2>4. \A e : e \in SealedClassified <=>
                   \E r \in sealed : e \in Aggregates(r, LinesOf(r), ComparatorsOf(r))
    BY DEF SealedClassified
  <2>5. \A e : e \in exceptions <=>
                   \/ \E l \in arrived : e \in LineExceptions(l, Expected(l), Holder(l))
                   \/ \E r \in sealed : e \in Aggregates(r, LinesOf(r), ComparatorsOf(r))
    BY ONLY <2>2, <2>3, <2>4
  <2> QED
    BY ONLY <2>5 DEF ExceptionsExact
<1> QED
  BY <1>1, ReceivingInvariance, PTL

\* The unique index on serials and the lookup before it: a readable serial names
\* one Asset, and every serialized arrival became an Asset or a named conflict.
THEOREM UnitsAccountedProven ==
    Spec => []UnitsAccounted
<1>1. ReceivingInv => UnitsAccounted
  <2> SUFFICES ASSUME ReceivingInv PROVE UnitsAccounted
    OBVIOUS
  <2>1. identifiers = Units(arrived) /\ arrived \subseteq ReceiptLine
        /\ \A l \in arrived : UnitOf(l, identifiers)
    BY DEF ReceivingInv, Committed, TablesTyped
  <2>2. ClaimsUnique(arrived)
    BY DEF ClaimsUnique, ReceivingInv, Distinct, Written
  <2>3. SerialsUnique(identifiers)
    BY <2>1, <2>2, UnitsUnique
  <2>4. \A l \in arrived : l.id # Null
    BY <2>1, ProcurementAssumption DEF ReceiptLine
  <2>5. \A l \in arrived : IF l.serialized
                           THEN l.asset # Null \/ \E i \in identifiers : i.serial = l.serial
                           ELSE l.asset = Null /\ l.serial = Null
    BY <2>1, <2>4 DEF UnitOf
  <2> QED
    BY <2>1, <2>3, <2>5 DEF UnitsAccounted, SerialsUnique
<1> QED
  BY <1>1, ReceivingInvariance, PTL

(***************************************************************************)
(* What a transaction has selected is not superseded: its lock of the      *)
(* order keeps every amendment away until it commits.                      *)
(***************************************************************************)
Chosen(x) ==
    {c.line : c \in x.bound} \cup ({l.poLine : l \in x.lines} \ {Null})
    \cup (IF x.phase = "inspected" THEN {x.pending.poLine} \ {Null} ELSE {})

Current(x) == Chosen(x) # {} => x.header.po /\ \A p \in Chosen(x) : Active(p)

ChosenCurrent == \A t \in Tx : Current(tx[t])

LEMMA NothingChosen ==
    ASSUME NEW x, x.bound = {}, x.lines = {}, x.phase # "inspected" PROVE Chosen(x) = {}
BY DEF Chosen

\* Transaction t goes on as x, which selects at most the line l in addition.
LEMMA ChosenStage ==
    ASSUME ReceivingInv, ChosenCurrent, UNCHANGED lines, NEW t \in Tx, NEW x,
           tx' = [tx EXCEPT ![t] = x], NEW l,
           Chosen(x) \subseteq Chosen(tx[t]) \cup {l}, x.header = tx[t].header,
           l \in Chosen(x) => x.header.po /\ Active(l)
    PROVE  ChosenCurrent'
<1>1. tx'[t] = x /\ \A u \in Tx : u # t => tx'[u] = tx[u]
  BY DEF ReceivingInv
<1>2. \A p : Active(p)' <=> Active(p)
  BY DEF Active, Present
<1>3. \A y : Current(y)' <=> Current(y)
  BY <1>2 DEF Current
<1>4. Current(x)
  BY DEF ChosenCurrent, Current
<1>5. ASSUME NEW u \in Tx PROVE Current(tx[u])'
  <2>1. PICK y : y = tx'[u]
    OBVIOUS
  <2>2. Current(y)
    BY <2>1, <1>1, <1>4 DEF ChosenCurrent
  <2> QED
    BY <2>1, <2>2, <1>3 DEF Current
<1> QED
  BY <1>5 DEF ChosenCurrent

\* Transaction t goes on as x, which has selected nothing.
LEMMA ChosenNone ==
    ASSUME ReceivingInv, ChosenCurrent, UNCHANGED lines, NEW t \in Tx, NEW x,
           tx' = [tx EXCEPT ![t] = x], Chosen(x) = {}
    PROVE  ChosenCurrent'
<1>1. tx'[t] = x /\ \A u \in Tx : u # t => tx'[u] = tx[u]
  BY DEF ReceivingInv
<1>2. \A p : Active(p)' <=> Active(p)
  BY DEF Active, Present
<1>3. ASSUME NEW u \in Tx PROVE Current(tx[u])'
  <2>1. PICK y : y = tx'[u]
    OBVIOUS
  <2>2. Current(y)
    BY <2>1, <1>1 DEF ChosenCurrent, Current
  <2> QED
    BY <2>1, <2>2, <1>2 DEF Current
<1> QED
  BY <1>3 DEF ChosenCurrent

\* The order moves only while no open transaction has selected a line of it.
LEMMA ChosenOrder ==
    ASSUME ReceivingInv, ChosenCurrent, ProcurementNext, UNCHANGED receivingVars
    PROVE  ChosenCurrent'
<1>1. poLock = Null
  BY DEF ProcurementNext, CreateLine, UpdateLine, AmendLine, CorrectProcurement, IssueOrder
<1>2. ASSUME NEW t \in Tx PROVE Chosen(tx[t]) = {}
  <2> SUFFICES ASSUME Chosen(tx[t]) # {} PROVE FALSE
    OBVIOUS
  <2>1. tx[t].header.po
    BY DEF ChosenCurrent, Current
  <2>2. tx[t].phase # "idle"
    BY FreeRow, NothingChosen DEF ReceivingInv, Rows, Row, Formed, Free
  <2> QED
    BY <1>1, <2>1, <2>2, ReceivingAssumption DEF ReceivingInv, Locking
<1>3. tx' = tx
  BY DEF receivingVars
<1>4. \A t \in Tx : Chosen(tx[t])' = Chosen(tx[t])
  BY <1>3 DEF Chosen
<1> QED
  BY <1>2, <1>4 DEF ChosenCurrent, Current

\* Transaction t goes on as x, which selects nothing in addition.
LEMMA ChosenKept ==
    ASSUME ReceivingInv, ChosenCurrent, UNCHANGED lines, NEW t \in Tx, NEW x,
           tx' = [tx EXCEPT ![t] = x],
           Chosen(x) \subseteq Chosen(tx[t]), x.header = tx[t].header
    PROVE  ChosenCurrent'
<1>1. PICK l : l = Null
  OBVIOUS
<1>2. l \in Chosen(x) => x.header.po /\ Active(l)
  BY DEF ChosenCurrent, Current
<1> QED
  BY <1>2, ChosenStage

\* bind_comparator checks the line under the order's lock before it selects it.
LEMMA ChosenStep ==
    ASSUME ReceivingInv, ChosenCurrent, [Next]_vars PROVE ChosenCurrent'
<1>1. ASSUME UNCHANGED <<lines, tx>> PROVE ChosenCurrent'
  <2>1. \A p : Active(p)' <=> Active(p)
    BY <1>1 DEF Active, Present
  <2>2. ASSUME NEW t \in Tx PROVE Current(tx[t])'
    <3>1. PICK y : y = tx[t] /\ y = tx'[t]
      BY <1>1
    <3>2. Current(y)
      BY <3>1 DEF ChosenCurrent
    <3> QED
      BY <2>1, <3>1, <3>2 DEF Current
  <2> QED
    BY <2>2 DEF ChosenCurrent
<1>2. CASE UNCHANGED vars
  BY <1>1, <1>2 DEF vars, poVars, receivingVars
<1>3. CASE ProcurementNext /\ UNCHANGED receivingVars
  BY <1>3, ChosenOrder
<1>4. CASE \E i \in Item, u \in Uom, s \in BOOLEAN : EditItem(i, u, s)
  BY <1>1, <1>4 DEF EditItem, UpdateItem, receivingVars
<1>5. ASSUME NEW t \in Tx, Receive(t) PROVE ChosenCurrent'
  <2>1. PICK y : y = tx[t]
    OBVIOUS
  <2>2. y \in TxRow
    BY <2>1 DEF ReceivingInv
  <2>3. y.phase \in {"idle", "waiting"} => y.bound = {} /\ y.lines = {}
    BY <2>1, FreeRow DEF ReceivingInv, Rows, Row, Formed, Free
  <2>4. ASSUME NEW r \in Receipt, NEW h \in Headers, CreateReceipt(t, r, h) PROVE ChosenCurrent'
    <3>1. PICK x : x = [y EXCEPT !.phase = "open", !.kind = "create", !.receipt = r, !.header = h]
      OBVIOUS
    <3>2. x.phase # "inspected" /\ x.bound = {} /\ x.lines = {}
      BY <2>1, <2>2, <2>3, <2>4, <3>1 DEF TxRow, CreateReceipt
    <3>3. tx' = [tx EXCEPT ![t] = x] /\ UNCHANGED lines
      BY <2>1, <2>4, <3>1 DEF CreateReceipt, Stage, poVars
    <3> QED
      BY <3>2, <3>3, NothingChosen, ChosenNone
  <2>5. ASSUME NEW r \in Receipt, NEW kind \in Requests, OpenReceipt(t, r, kind)
        PROVE  ChosenCurrent'
    <3>1. PICK x : x = [y EXCEPT !.phase = "waiting", !.kind = kind, !.receipt = r,
                                 !.header = receipts[r]]
      OBVIOUS
    <3>2. x.phase # "inspected" /\ x.bound = {} /\ x.lines = {}
      BY <2>1, <2>2, <2>3, <2>5, <3>1 DEF TxRow, OpenReceipt
    <3>3. tx' = [tx EXCEPT ![t] = x] /\ UNCHANGED lines
      BY <2>1, <2>5, <3>1 DEF OpenReceipt, Stage, poVars
    <3> QED
      BY <3>2, <3>3, NothingChosen, ChosenNone
  <2>6. CASE LockReceipt(t)
    <3>1. PICK x : x = [y EXCEPT !.phase = "open"]
      OBVIOUS
    <3>2. x.phase # "inspected" /\ x.bound = {} /\ x.lines = {}
      BY <2>1, <2>2, <2>3, <2>6, <3>1 DEF TxRow, LockReceipt
    <3>3. tx' = [tx EXCEPT ![t] = x] /\ UNCHANGED lines
      BY <2>1, <2>6, <3>1 DEF LockReceipt, Stage, poVars
    <3> QED
      BY <3>2, <3>3, NothingChosen, ChosenNone
  <2>7. ASSUME NEW l \in PoLine, NEW g \in 0..MaxGeneration, BindComparator(t, l, g)
        PROVE  ChosenCurrent'
    <3>1. PICK x : x = [y EXCEPT !.bound = @ \cup Binding(t, l)]
      OBVIOUS
    <3>2. tx' = [tx EXCEPT ![t] = x] /\ UNCHANGED lines
      BY <2>1, <2>7, <3>1 DEF BindComparator, Stage, poVars
    <3>3. y.header.po /\ Active(l)
      BY <2>1, <2>7 DEF BindComparator, Bindable
    <3>4. /\ x.bound = y.bound \cup Binding(t, l) /\ x.lines = y.lines /\ x.phase = y.phase
          /\ x.pending = y.pending /\ x.header = y.header
      BY <2>2, <3>1 DEF TxRow
    <3>5. \A c \in Binding(t, l) : c.line = l
      BY DEF Binding
    <3>6. Chosen(x) \subseteq Chosen(y) \cup {l}
      BY <3>4, <3>5 DEF Chosen
    <3> QED
      BY <2>1, <3>2, <3>3, <3>4, <3>6, ChosenStage
  <2>8. ASSUME NEW o \in Arrivals, NEW g \in 0..MaxGeneration, NEW l \in PoLine \cup {Null},
               InspectArrival(t, o, l, g)
        PROVE  ChosenCurrent'
    <3>1. PICK B : B = IF l = Null THEN {} ELSE Binding(t, l)
      OBVIOUS
    <3>2. PICK q : q = [arrival |-> o, poLine |-> l, conflict |-> Conflict(t, o.unit)]
      OBVIOUS
    <3>3. PICK x : x = [y EXCEPT !.phase = "inspected", !.bound = @ \cup B, !.pending = q]
      OBVIOUS
    <3>4. tx' = [tx EXCEPT ![t] = x] /\ UNCHANGED lines
      BY <2>1, <2>8, <3>1, <3>2, <3>3 DEF InspectArrival, Stage, poVars
    <3>5. l # Null => y.header.po /\ Active(l)
      BY <2>1, <2>8 DEF InspectArrival, Bindable
    <3>6. /\ x.bound = y.bound \cup B /\ x.lines = y.lines /\ x.phase = "inspected"
          /\ x.pending.poLine = l /\ x.header = y.header
      BY <2>2, <3>2, <3>3 DEF TxRow
    <3>7. \A c \in B : l # Null /\ c.line = l
      BY <3>1 DEF Binding
    <3>8. CASE l # Null
      <4>1. Chosen(x) \subseteq Chosen(y) \cup {l}
        BY <3>6, <3>7 DEF Chosen
      <4>2. x.header = y.header /\ x.header.po /\ Active(l)
        BY <3>5, <3>6, <3>8
      <4> QED
        BY <2>1, <3>4, <4>1, <4>2, ChosenStage
    <3>9. CASE l = Null
      <4>1. Chosen(x) \subseteq Chosen(y)
        BY <3>6, <3>7, <3>9 DEF Chosen
      <4> QED
        BY <2>1, <3>4, <3>6, <4>1, ChosenKept
    <3> QED
      BY <3>8, <3>9
  <2>9. ASSUME NEW id, NEW asset, y.phase = "inspected", Recorded(t, LineRow(t, id, asset))
         PROVE  ChosenCurrent'
    <3>1. PICK l : l = LineRow(t, id, asset)
      OBVIOUS
    <3>2. PICK E : E = LineExceptions(l, Expected(l), tx[t].pending.conflict)
      OBVIOUS
    <3>3. PICK x : x = [y EXCEPT !.phase = "open", !.pending = Null, !.lines = @ \cup {l},
                                 !.exceptions = @ \cup E]
      OBVIOUS
    <3>4. tx' = [tx EXCEPT ![t] = x] /\ UNCHANGED lines
      BY <2>1, <2>9, <3>1, <3>2, <3>3 DEF Recorded, Stage, poVars
    <3>5. /\ x.bound = y.bound /\ x.lines = y.lines \cup {l} /\ x.phase = "open"
          /\ x.header = y.header
      BY <2>2, <3>3 DEF TxRow
    <3>6. l.poLine = y.pending.poLine
      BY <2>1, <3>1 DEF LineRow
    <3>7. Chosen(x) \subseteq Chosen(y)
      BY <2>9, <3>5, <3>6 DEF Chosen
    <3> QED
      BY <2>1, <3>4, <3>5, <3>7, ChosenKept
  <2>10. CASE ReconcileReceipt(t)
    <3>1. PICK E : E = Aggregates(tx[t].receipt, SeenLines(t), SeenComparators(t))
      OBVIOUS
    <3>2. PICK x : x = [y EXCEPT !.seals = TRUE, !.exceptions = @ \cup E]
      OBVIOUS
    <3>3. tx' = [tx EXCEPT ![t] = x] /\ UNCHANGED lines
      BY <2>1, <2>10, <3>1, <3>2 DEF ReconcileReceipt, Stage, poVars
    <3>4. /\ x.bound = y.bound /\ x.lines = y.lines /\ x.phase = y.phase
          /\ x.pending = y.pending /\ x.header = y.header
      BY <2>2, <3>2 DEF TxRow
    <3>5. Chosen(x) = Chosen(y)
      BY <3>4 DEF Chosen
    <3> QED
      BY <2>1, <3>3, <3>4, <3>5, ChosenKept
  <2>11. CASE Commit(t) \/ Rollback(t)
    <3>1. tx' = [tx EXCEPT ![t] = Free] /\ UNCHANGED lines
      BY <2>11 DEF Commit, Rollback, Release, poVars
    <3>2. Chosen(Free) = {}
      BY FreeRow, NothingChosen DEF Free
    <3> QED
      BY <3>1, <3>2, ChosenNone
  <2> QED
    BY <1>5, <2>1, <2>4, <2>5, <2>6, <2>7, <2>8, <2>9, <2>10, <2>11
    DEF Receive, InsertLine, CreateReceivedUnit
<1> QED
  BY <1>2, <1>3, <1>4, <1>5 DEF Next

LEMMA ChosenInvariance ==
    Spec => []ChosenCurrent
<1>1. Init => ChosenCurrent
  <2> SUFFICES ASSUME Init, NEW t \in Tx PROVE Chosen(tx[t]) = {}
    BY DEF ChosenCurrent, Current
  <2> QED
    BY FreeRow, NothingChosen DEF Init, Free
<1>2. ReceivingInv /\ ChosenCurrent /\ [Next]_vars => ChosenCurrent'
  BY ChosenStep
<1> QED
  BY <1>1, <1>2, ReceivingInvariance, PTL DEF Spec

\* enforce_receiving_completeness: the deferred trigger never refuses a
\* transaction that the service has carried to its end, and no line that such a
\* transaction has selected was superseded since.
THEOREM ReceivingCommitsProven ==
    Spec => []ReceivingCommits
<1>1. ASSUME ReceivingInv, NEW t \in Tx, Finished(t) PROVE Complete(t)
  <2>1. PICK y, I : y = tx[t] /\ I = Carried(y)
    OBVIOUS
  <2>2. y \in TxRow /\ Row(y) /\ y.seals \in BOOLEAN
    BY <1>1, <2>1 DEF ReceivingInv, Rows, TxRow
  <2>3. y.exceptions = LinesClassified(y.lines, I)
            \cup (IF y.seals THEN Aggregates(y.receipt, LinesFor(y), ComparatorsFor(y)) ELSE {})
    BY <2>1, <2>2 DEF Row, Classified
  <2>4. y.seals => Aggregates(y.receipt, SeenLines(t), SeenComparators(t)) \subseteq y.exceptions
    BY <2>1, <2>3, OwnView
  <2>5. ASSUME NEW l \in y.lines, NEW serial,
               serial = IF l.asset = Null /\ l.serial \in Serial THEN l.serial ELSE Null,
               NEW k \in LineKinds(l, Expected(l), serial)
        PROVE  \E e \in y.exceptions : e.line = l.id /\ e.kind = k
    <3>1. PICK h : h = HolderIn(I, l)
      OBVIOUS
    <3>2. serial # Null => h # Null
      <4> SUFFICES ASSUME serial # Null PROVE h # Null
        OBVIOUS
      <4>1. l.asset = Null /\ l.serial \in Serial /\ l.id # Null /\ Null \notin Serial
        BY <2>2, <2>5, ProcurementAssumption, ReceivingAssumption DEF TxRow, ReceiptLine
      <4>2. PICK i \in I : i.serial = l.serial
        BY <4>1, <2>1, <2>2 DEF Row, Accounted, UnitOf
      <4>3. SerialsUnique(I)
        BY <1>1, <2>1, ClaimsTogether DEF Carried
      <4>4. h = i.asset
        BY <3>1, <4>1, <4>2, <4>3, HolderIs
      <4>5. i.asset \in 1..MaxArrival
        BY <1>1, <2>1, <2>2, <4>2, CarriedTyped
      <4> QED
        BY <4>4, <4>5, ProcurementAssumption
    <3>3. k \in LineKinds(l, Expected(l), h)
      BY <2>5, <3>2 DEF LineKinds
    <3>4. LineException(l, k, h) \in LineExceptions(l, Expected(l), h)
      BY <3>3 DEF LineExceptions
    <3>5. LineException(l, k, h) \in y.exceptions
      BY <3>1, <3>4, <2>3 DEF LinesClassified
    <3>6. LineException(l, k, h).line = l.id /\ LineException(l, k, h).kind = k
      BY DEF LineException
    <3> QED
      BY <3>5, <3>6
  <2> QED
    BY <2>1, <2>4, <2>5 DEF Complete
<1>2. ASSUME ChosenCurrent, NEW t \in Tx PROVE \A l \in Selected(t) : Active(l)
  <2>1. PICK y : y = tx[t]
    OBVIOUS
  <2>2. Selected(t) \subseteq Chosen(y)
    BY <2>1 DEF Selected, Chosen
  <2>3. \A l \in Chosen(y) : Active(l)
    BY <1>2, <2>1 DEF ChosenCurrent, Current
  <2> QED
    BY <2>2, <2>3
<1>3. ReceivingInv /\ ChosenCurrent => ReceivingCommits
  BY <1>1, <1>2 DEF ReceivingCommits
<1> QED
  BY <1>3, ReceivingInvariance, ChosenInvariance, PTL

\* reconcile_receipt closes the population for good: no step, of whatever
\* transaction, adds a line to a reconciled receipt or reopens it.
THEOREM SealedForeverProven ==
    Spec => SealedForever
<1>1. ReceivingInv /\ [Next]_vars =>
          [\A r \in sealed : /\ r \in sealed'
                             /\ {l \in arrived' : l.receipt = r} = LinesOf(r)]_vars
  <2> SUFFICES ASSUME ReceivingInv, Next
               PROVE  \A r \in sealed : r \in sealed' /\ {l \in arrived' : l.receipt = r} = LinesOf(r)
    OBVIOUS
  <2>1. CASE UNCHANGED <<arrived, sealed>>
    BY <2>1 DEF LinesOf
  <2>2. ASSUME NEW t \in Tx, Commit(t)
        PROVE  \A r \in sealed : r \in sealed' /\ {l \in arrived' : l.receipt = r} = LinesOf(r)
    <3>1. PICK y : y = tx[t]
      OBVIOUS
    <3>2. CommitRows(y)
      BY <2>2, <3>1 DEF Commit, CommitRows, SeenIdentifiers
    <3>3. \A r \in sealed : LinesOf(r)' = LinesOf(r)
      BY <3>1, <3>2, CommitSealed
    <3>4. sealed \subseteq sealed'
      BY <3>2 DEF CommitRows
    <3> QED
      BY <3>3, <3>4 DEF LinesOf
  <2>3. CASE ProcurementNext /\ UNCHANGED receivingVars
    BY <2>3, <2>1 DEF receivingVars
  <2>4. CASE \E i \in Item, u \in Uom, s \in BOOLEAN : EditItem(i, u, s)
    BY <2>4, <2>1 DEF EditItem, receivingVars
  <2>5. ASSUME NEW t \in Tx, Receive(t), ~ Commit(t) PROVE UNCHANGED <<arrived, sealed>>
    BY <2>5 DEF Receive, CreateReceipt, OpenReceipt, BindComparator, InspectArrival, LockReceipt,
                InsertLine, CreateReceivedUnit, Recorded, ReconcileReceipt, Rollback
  <2> QED
    BY <2>1, <2>2, <2>3, <2>4, <2>5 DEF Next
<1> QED
  BY <1>1, ReceivingInvariance, PTL DEF Spec, SealedForever

-----------------------------------------------------------------------------
(***************************************************************************)
(* What receiving hands over to the corrections of a receipt.              *)
(***************************************************************************)
\* A reconciled receipt is one that ReceiptCorrections may start from.
SealedHandedOver ==
    \A r \in sealed :
        /\ LinesOf(r) \subseteq ReceiptLine
        /\ \A l \in LinesOf(r) :
               /\ l.poLine \in {c.line : c \in ComparatorsOf(r)} \cup {Null}
               /\ l.serial \in {i.serial : i \in identifiers} \cup {Unreadable, Null}
        /\ \A c \in ComparatorsOf(r) : c.line \in Present /\ c.generation = Generation(c.line)
        /\ ComparatorsOf(r) # {} => status = "ISSUED"
        /\ {e \in exceptions : e.receipt = r} =
               (UNION {LineExceptions(l, Expected(l), Holder(l)) : l \in LinesOf(r)})
               \cup Aggregates(r, LinesOf(r), ComparatorsOf(r))

\* receipt_reconciliations: every line of a sealed receipt selects an order line that
\* the receipt has pinned or none; the pinned generations are current and the order
\* is issued; a serial is unreadable, absent or that of an Asset; and the exceptions
\* of the receipt are those of its own lines and totals.  It stays so, whatever
\* other receipts, amendments and corrections of the order come later.
THEOREM SealedHandedOverProven ==
    Spec => []SealedHandedOver
<1>1. ReceivingInv => SealedHandedOver
  <2> SUFFICES ASSUME ReceivingInv, NEW r \in sealed
               PROVE  /\ LinesOf(r) \subseteq ReceiptLine
                      /\ \A l \in LinesOf(r) :
                             /\ l.poLine \in {c.line : c \in ComparatorsOf(r)} \cup {Null}
                             /\ l.serial \in {i.serial : i \in identifiers} \cup {Unreadable, Null}
                      /\ \A c \in ComparatorsOf(r) :
                             c.line \in Present /\ c.generation = Generation(c.line)
                      /\ ComparatorsOf(r) # {} => status = "ISSUED"
                      /\ {e \in exceptions : e.receipt = r} =
                             (UNION {LineExceptions(l, Expected(l), Holder(l)) : l \in LinesOf(r)})
                             \cup Aggregates(r, LinesOf(r), ComparatorsOf(r))
    BY DEF SealedHandedOver
  <2>1. /\ arrived \subseteq ReceiptLine /\ identifiers = Units(arrived)
        /\ \A l \in arrived : UnitOf(l, identifiers)
    BY DEF ReceivingInv, Committed, TablesTyped
  <2>2. LinesOf(r) \subseteq arrived /\ LinesOf(r) \subseteq ReceiptLine
    BY <2>1 DEF LinesOf
  <2>3. ASSUME NEW l \in LinesOf(r)
        PROVE  l.poLine \in {c.line : c \in ComparatorsOf(r)} \cup {Null}
    BY DEF ReceivingInv, Committed, LinesOf, ComparatorsOf
  <2>4. ASSUME NEW l \in LinesOf(r)
        PROVE  l.serial \in {i.serial : i \in identifiers} \cup {Unreadable, Null}
    <3>1. UnitOf(l, identifiers) /\ l \in arrived
      BY <2>1, <2>2
    <3>2. l.id # Null
      BY <2>2, ProcurementAssumption DEF ReceiptLine
    <3>3. ASSUME l.asset # Null PROVE \E i \in identifiers : i.serial = l.serial
      <4>1. [asset |-> l.asset, serial |-> l.serial] \in Units(arrived)
        BY <3>1, <3>3 DEF Units
      <4> QED
        BY <2>1, <4>1
    <3> QED
      BY <3>1, <3>2, <3>3 DEF UnitOf
  <2>5. /\ \A c \in ComparatorsOf(r) : c.line \in Present /\ c.generation = Generation(c.line)
        /\ ComparatorsOf(r) # {} => status = "ISSUED"
    BY DEF ReceivingInv, Committed, ExpectationsFrozen, ComparatorsOf
  <2>6. \A l : Holder(l) = HolderIn(identifiers, l)
    BY DEF Holder, HolderIn
  <2>7. \A e : e \in exceptions <=>
                   \/ \E l \in arrived : e \in LineExceptions(l, Expected(l), Holder(l))
                   \/ \E q \in sealed : e \in Aggregates(q, LinesOf(q), ComparatorsOf(q))
    <3>1. exceptions = LinesClassified(arrived, identifiers) \cup SealedClassified
      BY DEF ReceivingInv, Committed
    <3>2. \A e : e \in LinesClassified(arrived, identifiers) <=>
                     \E l \in arrived : e \in LineExceptions(l, Expected(l), Holder(l))
      BY <2>6 DEF LinesClassified
    <3>3. \A e : e \in SealedClassified <=>
                     \E q \in sealed : e \in Aggregates(q, LinesOf(q), ComparatorsOf(q))
      BY DEF SealedClassified
    <3> QED
      BY ONLY <3>1, <3>2, <3>3
  <2>8. \A l, x, k : \A e \in LineExceptions(l, x, k) : e.receipt = l.receipt
    BY DEF LineExceptions, LineException
  <2>9. \A q, S, C : \A e \in Aggregates(q, S, C) : e.receipt = q
    BY DEF Aggregates, Aggregate
  <2>10. \A l : l \in LinesOf(r) <=> l \in arrived /\ l.receipt = r
    BY DEF LinesOf
  <2>11. \A e : e \in exceptions /\ e.receipt = r <=>
                   \/ \E l \in LinesOf(r) : e \in LineExceptions(l, Expected(l), Holder(l))
                   \/ e \in Aggregates(r, LinesOf(r), ComparatorsOf(r))
    <3>1. ASSUME NEW e, e \in exceptions, e.receipt = r
          PROVE  \/ \E l \in LinesOf(r) : e \in LineExceptions(l, Expected(l), Holder(l))
                 \/ e \in Aggregates(r, LinesOf(r), ComparatorsOf(r))
      <4>1. CASE \E l \in arrived : e \in LineExceptions(l, Expected(l), Holder(l))
        BY ONLY <2>8, <2>10, <3>1, <4>1
      <4>2. CASE \E q \in sealed : e \in Aggregates(q, LinesOf(q), ComparatorsOf(q))
        BY ONLY <2>9, <3>1, <4>2
      <4> QED
        BY ONLY <2>7, <3>1, <4>1, <4>2
    <3>2. ASSUME NEW e, NEW l \in LinesOf(r), e \in LineExceptions(l, Expected(l), Holder(l))
          PROVE  e \in exceptions /\ e.receipt = r
      BY ONLY <2>7, <2>8, <2>10, <3>2
    <3>3. ASSUME NEW e, e \in Aggregates(r, LinesOf(r), ComparatorsOf(r))
          PROVE  e \in exceptions /\ e.receipt = r
      BY ONLY <2>7, <2>9, <3>3, r \in sealed
    <3> QED
      BY ONLY <3>1, <3>2, <3>3
  <2>12. {e \in exceptions : e.receipt = r} =
             (UNION {LineExceptions(l, Expected(l), Holder(l)) : l \in LinesOf(r)})
             \cup Aggregates(r, LinesOf(r), ComparatorsOf(r))
    BY ONLY <2>11
  <2> QED
    BY <2>2, <2>3, <2>4, <2>5, <2>12
<1> QED
  BY <1>1, ReceivingInvariance, PTL
=============================================================================
