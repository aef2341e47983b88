--------------------------- MODULE ProcurementProofs ---------------------------
(***************************************************************************)
(* Proofs about one purchase order, for every catalog, every number of     *)
(* lines and every bound on their corrections.                             *)
(*                                                                         *)
(* OrderInv has four parts.  OrderShape types the tables.  Consecutive     *)
(* says that lines are numbered without a hole, so that a new version is   *)
(* always newer than what it supersedes.  Chained is the shape of the      *)
(* lineages: every successor continues its own logical line, and each      *)
(* lineage has one root and one leaf.  Paired says that corrections exist  *)
(* only for issued lines and repeat what they replace; without its first   *)
(* half an edit of a draft could change the facts under a correction.      *)
(* The lemmas about single steps do not say who takes them, so that the    *)
(* proofs about receiving use them as they are.                            *)
(***************************************************************************)
EXTENDS Procurement, FiniteSetTheorems, TLAPS

LineCorrection == [reversal : Expectation, corrected : Expectation]

OrderShape ==
    /\ catalog \in [Item -> [uom : Uom, serialized : BOOLEAN]]
    /\ status \in {"DRAFT", "ISSUED"}
    /\ lines \in [PoLine -> PurchaseOrderLine \cup {Null}]
    /\ poCorrections \in [PoLine -> Seq(LineCorrection)]

Consecutive == \E n \in Nat : Present = 1..n

\* The lineage of a number has the one root r and the one leaf a.
Chain(n, r, a) ==
    /\ {l \in Lineage(n) : lines[l].supersedes = Null} = {r}
    /\ {l \in Lineage(n) : Active(l)} = {a}

Continued(l) ==
    lines[l].supersedes # Null =>
        /\ lines[l].supersedes \in Present /\ lines[l].supersedes < l
        /\ lines[lines[l].supersedes].number = lines[l].number

Chained ==
    /\ \A l \in Present : Continued(l)
    /\ \A n \in Number : Lineage(n) # {} => \E r, a : Chain(n, r, a)

Paired ==
    /\ \A l \in PoLine : status = "DRAFT" \/ l \notin Present => poCorrections[l] = <<>>
    /\ \A l \in Present : PairsCoherent(l)

OrderInv == OrderShape /\ Consecutive /\ Chained /\ Paired

orderVars == <<catalog, status, lines, poCorrections>>

-----------------------------------------------------------------------------
LEMMA PresentTyped ==
    ASSUME OrderShape, NEW l \in Present
    PROVE  l \in PoLine /\ l \in Nat /\ lines[l] \in PurchaseOrderLine
BY ProcurementAssumption DEF OrderShape, Present, PoLine

\* A new line takes the next number, and nothing refers to it yet.
LEMMA FreshLine ==
    ASSUME OrderShape, Consecutive, Chained, NEW l \in PoLine, Fresh(l)
    PROVE  /\ l \notin Present
           /\ \A k \in Present : k < l
           /\ \A k \in Present : lines[k].supersedes # l
           /\ \E n \in Nat : Present = 1..n /\ l = n + 1
<1>1. PICK n \in Nat : Present = 1..n
  BY DEF Consecutive
<1>2. Cardinality(Present) = n
  <2>1. Cardinality(1..n) = IF 1 > n THEN 0 ELSE n - 1 + 1
    BY FS_Interval
  <2> QED
    BY <1>1, <2>1
<1>3. l = n + 1
  BY <1>2 DEF Fresh
<1>4. l \notin Present /\ \A k \in Present : k < l
  BY <1>1, <1>3
<1>5. ASSUME NEW k \in Present PROVE lines[k].supersedes # l
  <2>1. Continued(k)
    BY DEF Chained
  <2>2. l # Null
    BY <1>3, ProcurementAssumption
  <2> QED
    BY <1>4, <2>1, <2>2 DEF Continued
<1> QED
  BY <1>1, <1>3, <1>4, <1>5

\* What inserting row x as line l leaves behind.
Inserted(l, x) ==
    /\ lines' = [lines EXCEPT ![l] = x]
    /\ UNCHANGED <<catalog, status, poCorrections>>

LEMMA InsertedRows ==
    ASSUME OrderInv, NEW l \in PoLine, Fresh(l), NEW x \in PurchaseOrderLine, Inserted(l, x)
    PROVE  /\ Present' = Present \cup {l} /\ l \notin Present
           /\ lines'[l] = x /\ \A k \in PoLine : k # l => lines'[k] = lines[k]
           /\ OrderShape' /\ Consecutive' /\ Paired'
<1> USE DEF OrderInv
<1>1. lines'[l] = x /\ \A k \in PoLine : k # l => lines'[k] = lines[k]
  BY DEF Inserted, OrderShape
<1>2. x # Null
  BY ProcurementAssumption
<1>3. Present' = Present \cup {l}
  BY <1>1, <1>2 DEF Present
<1>4. l \notin Present /\ \E n \in Nat : Present = 1..n /\ l = n + 1
  BY FreshLine
<1>5. OrderShape'
  BY DEF Inserted, OrderShape
<1>6. Consecutive'
  <2>1. PICK n \in Nat : Present = 1..n /\ l = n + 1
    BY <1>4
  <2>2. Present' = 1..(n + 1)
    BY <1>3, <2>1
  <2> QED
    BY <2>1, <2>2 DEF Consecutive
<1>7. Paired'
  <2>1. poCorrections[l] = <<>> /\ poCorrections' = poCorrections /\ status' = status
    BY <1>4 DEF Paired, Inserted
  <2>2. PairsCoherent(l)'
    BY <2>1 DEF PairsCoherent
  <2>3. ASSUME NEW k \in Present PROVE PairsCoherent(k)'
    <3>1. PairsCoherent(k) /\ Stated(k)' = Stated(k)
      BY <1>1, <1>4 DEF Paired, Stated, Present
    <3> QED
      BY <2>1, <3>1 DEF PairsCoherent
  <2>4. \A k \in PoLine : status' = "DRAFT" \/ k \notin Present' => poCorrections'[k] = <<>>
    BY <1>3, <2>1 DEF Paired
  <2> QED
    BY <1>3, <2>2, <2>3, <2>4 DEF Paired
<1> QED
  BY <1>1, <1>3, <1>4, <1>5, <1>6, <1>7

\* A first version founds a lineage, a successor extends the one of its leaf.
LEMMA InsertedChains ==
    ASSUME OrderInv, NEW l \in PoLine, Fresh(l), NEW x \in PurchaseOrderLine, Inserted(l, x),
           \/ x.supersedes = Null /\ \A k \in Present : lines[k].number # x.number
           \/ /\ x.supersedes \in Present /\ Active(x.supersedes)
              /\ x.number = lines[x.supersedes].number
    PROVE  Chained'
<1>1. /\ Present' = Present \cup {l} /\ l \notin Present
      /\ lines'[l] = x /\ \A k \in PoLine : k # l => lines'[k] = lines[k]
  BY InsertedRows
<1>2. \A k \in Present : k < l /\ lines[k].supersedes # l
  BY FreshLine DEF OrderInv
<1>3. \A k \in Present : lines'[k] = lines[k] /\ k # l /\ k \in PoLine
  BY <1>1 DEF Present
<1>4. x.supersedes # l /\ Null \notin Present
  <2>1. Null \notin PoLine
    BY ProcurementAssumption DEF PoLine
  <2> QED
    BY <1>1, <1>3, <2>1
<1>5. ASSUME NEW k \in Present' PROVE Continued(k)'
  <2>1. CASE k = l
    BY <2>1, <1>1, <1>2, <1>3 DEF Continued
  <2>2. CASE k \in Present
    <3>1. Continued(k)
      BY <2>2 DEF OrderInv, Chained
    <3> QED
      BY <2>2, <3>1, <1>1, <1>3 DEF Continued
  <2> QED
    BY <2>1, <2>2, <1>1
<1>6. ASSUME NEW n \in Number, Lineage(n)' # {} PROVE (\E r, a : Chain(n, r, a))'
  <2>1. \A k : k \in Lineage(n)' <=> k \in Lineage(n) \/ (k = l /\ x.number = n)
    BY <1>1, <1>3 DEF Lineage
  <2>2. \A k \in Lineage(n) : k \in Present /\ lines[k].number = n
    BY DEF Lineage
  <2>3. \A k \in Present : Active(k)' <=> Active(k) /\ x.supersedes # k
    BY <1>1, <1>3 DEF Active
  <2>4. Active(l)'
    BY <1>1, <1>2, <1>3, <1>4 DEF Active
  <2>5. CASE x.number # n
    <3>1. Lineage(n)' = Lineage(n)
      BY <2>1, <2>5
    <3>2. PICK r, a : Chain(n, r, a)
      BY <1>6, <3>1 DEF OrderInv, Chained
    <3>3. \A k \in Lineage(n) : Active(k)' <=> Active(k)
      BY <1>4, <2>2, <2>3, <2>5
    <3>4. \A k \in Lineage(n) : lines'[k].supersedes = lines[k].supersedes
      BY <2>2, <1>3
    <3>5. {k \in Lineage(n)' : lines'[k].supersedes = Null} = {r}
      BY <3>1, <3>2, <3>4 DEF Chain
    <3>6. {k \in Lineage(n)' : Active(k)'} = {a}
      BY <3>1, <3>2, <3>3 DEF Chain
    <3> QED
      BY <3>5, <3>6 DEF Chain
  <2>6. CASE x.number = n /\ x.supersedes = Null
    <3>1. Lineage(n) = {}
      BY <1>4, <2>2, <2>6
    <3>2. Lineage(n)' = {l}
      BY <2>1, <2>6, <3>1
    <3>3. {k \in Lineage(n)' : lines'[k].supersedes = Null} = {l}
      BY <3>2, <2>6, <1>1
    <3>4. {k \in Lineage(n)' : Active(k)'} = {l}
      BY <3>2, <2>4
    <3> QED
      BY <3>3, <3>4 DEF Chain
  <2>7. CASE x.number = n /\ x.supersedes # Null
    <3>1. PICK p : p = x.supersedes
      OBVIOUS
    <3>2. p \in Present /\ Active(p) /\ p \in Lineage(n)
      BY <2>7, <3>1 DEF Lineage
    <3>3. PICK r, a : Chain(n, r, a)
      BY <3>2 DEF OrderInv, Chained
    <3>4. a = p
      BY <3>2, <3>3 DEF Chain
    <3>5. \A k : k \in Lineage(n)' <=> k \in Lineage(n) \/ k = l
      BY <2>1, <2>7
    <3>6. {k \in Lineage(n)' : lines'[k].supersedes = Null} = {r}
      BY <3>3, <3>5, <2>2, <2>7, <1>1, <1>3 DEF Chain
    <3>7. \A k \in Lineage(n) : ~ Active(k)'
      <4>1. \A k \in Lineage(n) : Active(k) => k = p
        BY <3>3, <3>4 DEF Chain
      <4> QED
        BY <4>1, <3>1, <2>2, <2>3
    <3>8. {k \in Lineage(n)' : Active(k)'} = {l}
      BY <3>5, <3>7, <2>4
    <3> QED
      BY <3>6, <3>8 DEF Chain
  <2> QED
    BY <2>5, <2>6, <2>7
<1> QED
  BY <1>5, <1>6 DEF Chained

-----------------------------------------------------------------------------
(***************************************************************************)
(* The steps of the order.                                                 *)
(***************************************************************************)

\* create_line on a draft.
LEMMA CreateLineStep ==
    ASSUME OrderInv, NEW n \in Number, NEW i \in Item, NEW q \in Quantity, CreateLine(n, i, q)
    PROVE  OrderInv' /\ Present \subseteq Present' /\ \A k \in Present : lines'[k] = lines[k]
<1>1. PICK l \in PoLine : Fresh(l) /\ Insert(l, n, i, q, Null)
  BY DEF CreateLine
<1>2. PICK x : x = [number |-> n, item |-> i, quantity |-> q, uom |-> catalog[i].uom, supersedes |-> Null]
  OBVIOUS
<1>3. x \in PurchaseOrderLine /\ x.supersedes = Null /\ x.number = n
  BY <1>2 DEF PurchaseOrderLine, OrderInv, OrderShape
<1>4. Inserted(l, x)
  BY <1>1, <1>2 DEF CreateLine, Insert, Inserted
<1>5. \A k \in Present : lines[k].number # x.number
  BY <1>3 DEF CreateLine
<1>6. Chained'
  BY <1>1, <1>3, <1>4, <1>5, InsertedChains
<1>7. /\ OrderShape' /\ Consecutive' /\ Paired' /\ Present' = Present \cup {l} /\ l \notin Present
      /\ \A k \in PoLine : k # l => lines'[k] = lines[k]
  BY <1>1, <1>3, <1>4, InsertedRows
<1> QED
  BY <1>6, <1>7 DEF OrderInv, Present

\* create_line with a predecessor.
LEMMA AmendLineStep ==
    ASSUME OrderInv, NEW p \in PoLine, NEW i \in Item, NEW q \in Quantity, AmendLine(p, i, q)
    PROVE  OrderInv' /\ Present \subseteq Present' /\ \A k \in Present : lines'[k] = lines[k]
<1>1. PICK l \in PoLine : Fresh(l) /\ Insert(l, lines[p].number, i, q, p)
  BY DEF AmendLine
<1>2. PICK x : x = [number |-> lines[p].number, item |-> i, quantity |-> q,
                    uom |-> catalog[i].uom, supersedes |-> p]
  OBVIOUS
<1>3. p \in Present /\ Active(p)
  BY DEF AmendLine, AmendAdmitted
<1>4. lines[p] \in PurchaseOrderLine
  BY <1>3, PresentTyped DEF OrderInv
<1>5. lines[p].number \in Number
  BY <1>4 DEF PurchaseOrderLine
<1>6. x \in PurchaseOrderLine /\ x.supersedes = p /\ x.number = lines[p].number
  BY <1>2, <1>5 DEF PurchaseOrderLine, OrderInv, OrderShape, PoLine
<1>7. Inserted(l, x)
  BY <1>1, <1>2 DEF AmendLine, Insert, Inserted
<1>8. Chained'
  BY <1>1, <1>3, <1>6, <1>7, InsertedChains
<1>9. /\ OrderShape' /\ Consecutive' /\ Paired' /\ Present' = Present \cup {l} /\ l \notin Present
      /\ \A k \in PoLine : k # l => lines'[k] = lines[k]
  BY <1>1, <1>6, <1>7, InsertedRows
<1> QED
  BY <1>8, <1>9 DEF OrderInv, Present

\* update_line on a draft, which has no corrections yet.
LEMMA UpdateLineStep ==
    ASSUME OrderInv, NEW l \in PoLine, NEW i \in Item, NEW q \in Quantity, UpdateLine(l, i, q)
    PROVE  OrderInv' /\ Present' = Present
<1>1. PICK x : x = [lines[l] EXCEPT !.item = i, !.quantity = q]
  OBVIOUS
<1>2. l \in Present /\ status = "DRAFT" /\ UNCHANGED <<catalog, status, poCorrections>>
  BY DEF UpdateLine
<1>3. lines[l] \in PurchaseOrderLine
  BY <1>2, PresentTyped DEF OrderInv
<1>4. x \in PurchaseOrderLine /\ x.supersedes = lines[l].supersedes /\ x.number = lines[l].number
  BY <1>1, <1>3 DEF PurchaseOrderLine
<1>5. lines' = [lines EXCEPT ![l] = x]
  BY <1>1, <1>2, <1>3 DEF UpdateLine, OrderInv, OrderShape, PurchaseOrderLine
<1>6. OrderShape' /\ lines'[l] = x /\ \A k \in PoLine : k # l => lines'[k] = lines[k]
  BY <1>2, <1>4, <1>5 DEF OrderInv, OrderShape
<1>7. x # Null
  BY <1>4, ProcurementAssumption
<1>8. Present' = Present
  BY <1>2, <1>6, <1>7 DEF Present
<1>9. \A k \in Present : lines'[k].supersedes = lines[k].supersedes /\ lines'[k].number = lines[k].number
  BY <1>4, <1>6 DEF Present
<1>10. Consecutive'
  BY <1>8 DEF OrderInv, Consecutive
<1>11. Chained'
  <2>1. \A k \in Present : Continued(k)'
    BY <1>8, <1>9 DEF OrderInv, Chained, Continued
  <2>2. \A k \in Present : Active(k)' <=> Active(k)
    BY <1>8, <1>9 DEF Active
  <2>3. \A n : Lineage(n)' = Lineage(n) /\ Lineage(n) \subseteq Present
    BY <1>8, <1>9 DEF Lineage
  <2>4. \A n, r, a : Chain(n, r, a) => Chain(n, r, a)'
    BY <1>9, <2>2, <2>3 DEF Chain
  <2> QED
    BY <1>8, <2>1, <2>3, <2>4 DEF OrderInv, Chained
<1>12. Paired'
  BY <1>2, <1>8 DEF OrderInv, Paired, PairsCoherent, Present
<1> QED
  BY <1>6, <1>8, <1>10, <1>11, <1>12 DEF OrderInv

\* issue_order and update_item leave the lines as they are.
LEMMA LinesKeptStep ==
    ASSUME OrderInv, UNCHANGED <<lines, poCorrections>>,
           catalog' \in [Item -> [uom : Uom, serialized : BOOLEAN]],
           status' \in {status, "ISSUED"}
    PROVE  OrderInv'
<1>1. Present' = Present
  BY DEF Present
<1>2. OrderShape'
  BY DEF OrderInv, OrderShape
<1>3. Consecutive'
  BY <1>1 DEF OrderInv, Consecutive
<1>4. Chained'
  <2>1. \A l : Active(l)' <=> Active(l)
    BY <1>1 DEF Active
  <2>2. \A n : Lineage(n)' = Lineage(n)
    BY <1>1 DEF Lineage
  <2>3. \A n, r, a : Chain(n, r, a)' <=> Chain(n, r, a)
    BY <2>1, <2>2 DEF Chain
  <2>4. \A l : Continued(l)' <=> Continued(l)
    BY <1>1 DEF Continued
  <2> QED
    BY <1>1, <2>2, <2>3, <2>4 DEF OrderInv, Chained
<1>5. Paired'
  <2>1. \A l : PairsCoherent(l)' <=> PairsCoherent(l)
    BY DEF PairsCoherent, Stated
  <2> QED
    BY <1>1, <2>1 DEF OrderInv, Paired
<1> QED
  BY <1>2, <1>3, <1>4, <1>5 DEF OrderInv

\* correct_procurement appends a pair that cancels the effective facts.
LEMMA CorrectProcurementStep ==
    ASSUME OrderInv, NEW l \in PoLine, NEW g, NEW e \in Expectation, CorrectProcurement(l, g, e)
    PROVE  /\ OrderInv' /\ UNCHANGED lines
           /\ \A k \in PoLine : k # l => poCorrections'[k] = poCorrections[k]
<1>1. PICK s : s = poCorrections[l]
  OBVIOUS
<1>2. PICK x : x = [reversal |-> EffectiveLine(l), corrected |-> e]
  OBVIOUS
<1>3. /\ l \in Present /\ status = "ISSUED" /\ PairsCoherent(l)
      /\ UNCHANGED <<catalog, status, lines>>
      /\ poCorrections' = [poCorrections EXCEPT ![l] = Append(s, x)]
  BY <1>1, <1>2 DEF CorrectProcurement
<1>4. s \in Seq(LineCorrection)
  BY <1>1 DEF OrderInv, OrderShape
<1>5. Stated(l) \in Expectation
  <2>1. lines[l] \in PurchaseOrderLine
    BY <1>3, PresentTyped DEF OrderInv
  <2> QED
    BY <2>1 DEF Stated, PurchaseOrderLine, Expectation
<1>6. EffectiveLine(l) = IF s = <<>> THEN Stated(l) ELSE s[Len(s)].corrected
  BY <1>1 DEF EffectiveLine, Last
<1>7. EffectiveLine(l) \in Expectation
  <2>1. CASE s = <<>>
    BY <2>1, <1>5, <1>6
  <2>2. CASE s # <<>>
    <3>1. Len(s) \in 1..Len(s) /\ s[Len(s)] \in LineCorrection
      BY <1>4, <2>2
    <3> QED
      BY <3>1, <2>2, <1>6 DEF LineCorrection
  <2> QED
    BY <2>1, <2>2
<1>8. x \in LineCorrection /\ x.reversal = EffectiveLine(l)
  BY <1>2, <1>7 DEF LineCorrection
<1>9. Append(s, x) \in Seq(LineCorrection)
  BY <1>4, <1>8
<1>10. OrderShape' /\ poCorrections'[l] = Append(s, x)
       /\ \A k \in PoLine : k # l => poCorrections'[k] = poCorrections[k]
  BY <1>3, <1>9 DEF OrderInv, OrderShape
<1>11. Present' = Present
  BY <1>3 DEF Present
<1>12. Consecutive'
  BY <1>11 DEF OrderInv, Consecutive
<1>13. Chained'
  <2>1. \A k : Active(k)' <=> Active(k)
    BY <1>3, <1>11 DEF Active
  <2>2. \A n : Lineage(n)' = Lineage(n)
    BY <1>3, <1>11 DEF Lineage
  <2>3. \A n, r, a : Chain(n, r, a)' <=> Chain(n, r, a)
    BY <1>3, <2>1, <2>2 DEF Chain
  <2>4. \A k : Continued(k)' <=> Continued(k)
    BY <1>3, <1>11 DEF Continued
  <2> QED
    BY <1>11, <2>2, <2>3, <2>4 DEF OrderInv, Chained
<1>14. Paired'
  <2>1. ASSUME NEW k \in Present, k # l PROVE PairsCoherent(k)'
    <3>1. PairsCoherent(k) /\ Stated(k)' = Stated(k) /\ k \in PoLine
      BY <1>3 DEF OrderInv, Paired, Stated, Present
    <3>2. poCorrections'[k] = poCorrections[k]
      BY <3>1, <2>1, <1>10
    <3> QED
      BY <3>1, <3>2 DEF PairsCoherent
  <2>2. PairsCoherent(l)'
    <3>1. PICK v : v = Append(s, x)
      OBVIOUS
    <3>2. /\ Len(v) = Len(s) + 1 /\ v[Len(s) + 1] = x /\ DOMAIN v = 1..(Len(s) + 1)
          /\ \A h \in 1..Len(s) : v[h] = s[h]
      BY <3>1, <1>4, <1>8
    <3>3. DOMAIN s = 1..Len(s) /\ Len(s) \in Nat
      BY <1>4
    <3>4. \A h \in 1..Len(s) : s[h].reversal = IF h = 1 THEN Stated(l) ELSE s[h - 1].corrected
      BY <1>1, <1>3, <3>3 DEF PairsCoherent
    <3>5. Stated(l)' = Stated(l)
      BY <1>3 DEF Stated
    <3>6. ASSUME NEW h \in 1..(Len(s) + 1)
          PROVE  v[h].reversal = IF h = 1 THEN Stated(l) ELSE v[h - 1].corrected
      <4>1. CASE h \in 1..Len(s)
        <5>1. v[h].reversal = IF h = 1 THEN Stated(l) ELSE s[h - 1].corrected
          BY <4>1, <3>2, <3>4
        <5>2. h # 1 => h - 1 \in 1..Len(s)
          BY <4>1, <3>3
        <5> QED
          BY <5>1, <5>2, <3>2
      <4>2. CASE h = Len(s) + 1
        <5>1. v[h].reversal = EffectiveLine(l)
          BY <4>2, <3>2, <1>8
        <5>2. CASE s = <<>>
          BY <5>1, <5>2, <4>2, <1>6
        <5>3. CASE s # <<>>
          <6>1. Len(s) \in 1..Len(s) /\ h # 1 /\ h - 1 = Len(s)
            BY <1>4, <5>3, <4>2, <3>3
          <6>2. v[h - 1] = s[Len(s)]
            BY <6>1, <3>2
          <6> QED
            BY <5>1, <5>3, <6>1, <6>2, <1>6
        <5> QED
          BY <5>2, <5>3
      <4> QED
        BY <4>1, <4>2, <3>3
    <3>7. poCorrections'[l] = v
      BY <1>10, <3>1
    <3> QED
      BY <3>2, <3>5, <3>6, <3>7 DEF PairsCoherent
  <2>3. \A k \in PoLine : status' = "DRAFT" \/ k \notin Present' => poCorrections'[k] = <<>>
    BY <1>3, <1>10, <1>11 DEF OrderInv, Paired
  <2> QED
    BY <1>11, <2>1, <2>2, <2>3 DEF Paired
<1> QED
  BY <1>3, <1>10, <1>12, <1>13, <1>14 DEF OrderInv

\* Any step of the order, in isolation or beside receiving.
LEMMA OrderStep ==
    ASSUME OrderInv,
           \/ ProcurementNext
           \/ \E i \in Item, u \in Uom, s \in BOOLEAN : UpdateItem(i, u, s)
           \/ UNCHANGED orderVars
    PROVE  OrderInv'
<1>1. ASSUME NEW n \in Number, NEW i \in Item, NEW q \in Quantity, CreateLine(n, i, q)
      PROVE  OrderInv'
  BY <1>1, CreateLineStep
<1>2. ASSUME NEW l \in PoLine, NEW i \in Item, NEW q \in Quantity, UpdateLine(l, i, q)
      PROVE  OrderInv'
  BY <1>2, UpdateLineStep
<1>3. ASSUME NEW l \in PoLine, NEW i \in Item, NEW q \in Quantity, AmendLine(l, i, q)
      PROVE  OrderInv'
  BY <1>3, AmendLineStep
<1>4. ASSUME NEW l \in PoLine, NEW g \in 0..MaxGeneration, NEW e \in Expectation,
             CorrectProcurement(l, g, e)
      PROVE  OrderInv'
  BY <1>4, CorrectProcurementStep
<1>5. CASE IssueOrder \/ UNCHANGED orderVars
  <2>1. /\ UNCHANGED <<lines, poCorrections, catalog>> /\ status' \in {status, "ISSUED"}
        /\ catalog \in [Item -> [uom : Uom, serialized : BOOLEAN]]
    BY <1>5 DEF IssueOrder, orderVars, OrderInv, OrderShape
  <2> QED
    BY <2>1, LinesKeptStep
<1>6. ASSUME NEW i \in Item, NEW u \in Uom, NEW s \in BOOLEAN, UpdateItem(i, u, s)
      PROVE  OrderInv'
  <2>1. UNCHANGED <<lines, poCorrections, status>>
    BY <1>6 DEF UpdateItem
  <2>2. catalog' \in [Item -> [uom : Uom, serialized : BOOLEAN]]
    BY <1>6 DEF UpdateItem, OrderInv, OrderShape
  <2> QED
    BY <2>1, <2>2, LinesKeptStep
<1> QED
  BY <1>1, <1>2, <1>3, <1>4, <1>5, <1>6 DEF ProcurementNext

\* A line that a receipt has pinned, or whose order is locked, keeps its rows: a
\* draft has no such line, and a correction is refused.
LEMMA OrderKeeps ==
    ASSUME OrderInv, status = "ISSUED", NEW p \in Present, Pinned(p) \/ poLock # Null,
           \/ ProcurementNext
           \/ \E i \in Item, u \in Uom, s \in BOOLEAN : UpdateItem(i, u, s)
    PROVE  p \in Present' /\ lines'[p] = lines[p] /\ poCorrections'[p] = poCorrections[p]
<1>1. p \in PoLine
  BY DEF Present
<1>2. ASSUME NEW l \in PoLine, NEW i \in Item, NEW q \in Quantity, AmendLine(l, i, q)
      PROVE  p \in Present' /\ lines'[p] = lines[p] /\ poCorrections'[p] = poCorrections[p]
  BY <1>2, AmendLineStep DEF AmendLine
<1>3. ASSUME NEW l \in PoLine, NEW g \in 0..MaxGeneration, NEW e \in Expectation,
             CorrectProcurement(l, g, e)
      PROVE  p \in Present' /\ lines'[p] = lines[p] /\ poCorrections'[p] = poCorrections[p]
  <2>1. poLock = Null /\ ~ Pinned(l)
    BY <1>3 DEF CorrectProcurement, CorrectionAdmitted
  <2>2. p # l
    BY <2>1
  <2> QED
    BY <1>1, <1>3, <2>2, CorrectProcurementStep DEF Present
<1>4. CASE IssueOrder \/ \E i \in Item, u \in Uom, s \in BOOLEAN : UpdateItem(i, u, s)
  BY <1>4 DEF IssueOrder, UpdateItem, Present
<1>5. \A n, i, q : ~ CreateLine(n, i, q) /\ \A l : ~ UpdateLine(l, i, q)
  BY DEF CreateLine, UpdateLine
<1> QED
  BY <1>2, <1>3, <1>4, <1>5 DEF ProcurementNext

LEMMA OrderFreezes ==
    ASSUME OrderInv, status = "ISSUED", NEW p \in Present, Pinned(p) \/ poLock # Null,
           \/ ProcurementNext
           \/ \E i \in Item, u \in Uom, s \in BOOLEAN : UpdateItem(i, u, s)
    PROVE  p \in Present' /\ EffectiveLine(p)' = EffectiveLine(p) /\ Generation(p)' = Generation(p)
BY OrderKeeps DEF EffectiveLine, Stated, Generation

LEMMA InitOrderInv ==
    ProcurementInit => OrderInv
<1> SUFFICES ASSUME ProcurementInit PROVE OrderInv
  OBVIOUS
<1>1. Present = {}
  BY DEF ProcurementInit, Present
<1>2. OrderShape
  BY DEF ProcurementInit, OrderShape
<1>3. 0 \in Nat /\ Present = 1..0
  BY <1>1
<1> QED
  BY <1>1, <1>2, <1>3 DEF OrderInv, Consecutive, Chained, Lineage, Paired, ProcurementInit

\* What OrderInv says of the lineages, in the words of the properties.
LEMMA ChainedLinear ==
    OrderInv => LineagesLinear
<1> SUFFICES ASSUME OrderInv, NEW n \in Number, Lineage(n) # {}
             PROVE  /\ Cardinality({l \in Lineage(n) : lines[l].supersedes = Null}) = 1
                    /\ Cardinality({l \in Lineage(n) : Active(l)}) = 1
                    /\ \A l \in Lineage(n) : lines[l].supersedes # Null =>
                           lines[l].supersedes \in Lineage(n) /\ lines[l].supersedes < l
  BY DEF LineagesLinear
<1>1. PICK r, a : Chain(n, r, a)
  BY DEF OrderInv, Chained
<1>2. \A x : Cardinality({x}) = 1
  BY FS_Singleton
<1>3. \A l \in Lineage(n) : Continued(l)
  BY DEF OrderInv, Chained, Lineage
<1> QED
  BY <1>1, <1>2, <1>3 DEF Chain, Continued, Lineage

LEMMA OrderInvariance ==
    ProcurementSpec => []OrderInv
<1>1. OrderInv /\ [ProcurementNext \/ \E i \in Item, u \in Uom, s \in BOOLEAN :
                       UpdateItem(i, u, s)]_poVars => OrderInv'
  BY OrderStep DEF poVars, orderVars
<1> QED
  BY <1>1, InitOrderInv, PTL DEF ProcurementSpec

\* ADR-009, list_lines: whatever is created, edited, issued and amended, and in
\* whatever order, every logical line is one chain from one root to one leaf.
THEOREM LineagesLinearProven ==
    ProcurementSpec => []LineagesLinear
BY OrderInvariance, ChainedLinear, PTL

\* ADR-013, correct_procurement: every reversal repeats the facts that its pair
\* replaces, so purchase_order_line_corrections_anomalies never blocks a line.
THEOREM CorrectionsCoherentProven ==
    ProcurementSpec => []CorrectionsCoherent
<1>1. OrderInv => CorrectionsCoherent
  BY DEF OrderInv, Paired, CorrectionsCoherent
<1> QED
  BY <1>1, OrderInvariance, PTL
=============================================================================
