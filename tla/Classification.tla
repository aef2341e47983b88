---------------------------- MODULE Classification ----------------------------
(***************************************************************************)
(* How FleetOps names the disagreements of received lines with the         *)
(* expectations of an order.  Receiving classifies what arrives, and every *)
(* correction of a receipt classifies the whole receipt again, by the same *)
(* rules; only the facts and the expectations handed to them differ.       *)
(***************************************************************************)
EXTENDS Procurement

CONSTANT Unreadable  \* the identifier of a unit whose serial cannot be read

\* expected is the expectation of the line's order line, conflict the Asset that
\* already carries the serial of the line.
LineKinds(l, expected, conflict) ==
       (IF l.poLine = Null THEN {"UNEXPECTED_ITEM"}
        ELSE (IF l.item # expected.item THEN {"SUBSTITUTION"} ELSE {})
             \cup (IF l.uom # expected.uom THEN {"UOM_MISMATCH"} ELSE {}))
  \cup ({l.condition} \cap {"DAMAGED", "OPENED"})
  \cup (IF l.packing \notin {Null, l.quantity} THEN {"QUANTITY_VARIANCE"} ELSE {})
  \cup (IF l.asset # Null /\ l.serial = Unreadable THEN {"SERIAL_UNREADABLE"} ELSE {})
  \cup (IF conflict # Null THEN {"SERIAL_MISMATCH"} ELSE {})

LineException(l, kind, conflict) ==
    [kind |-> kind, receipt |-> l.receipt, line |-> l.id, poLine |-> l.poLine,
     asset |-> IF kind \in {"QUANTITY_VARIANCE", "SERIAL_MISMATCH"} THEN Null ELSE l.asset,
     conflicting |-> IF kind = "SERIAL_MISMATCH" THEN conflict ELSE Null]

LineExceptions(l, expected, conflict) ==
    {LineException(l, k, conflict) : k \in LineKinds(l, expected, conflict)}

Against(S, p) == {l \in S : l.poLine = p}

QuantityOf(l) == l.quantity

Total(S, p) == MapThenSumSet(QuantityOf, Against(S, p))

\* Quantities are compared only when all lines use the unit of the expectation.
AggregateKinds(S, p, expected) ==
    IF \E l \in Against(S, p) : l.uom # expected.uom THEN {}
    ELSE IF Total(S, p) < expected.quantity THEN {"SHORT"}
    ELSE IF Total(S, p) > expected.quantity THEN {"OVER"} ELSE {}

Aggregate(r, p, kind) ==
    [kind |-> kind, receipt |-> r, line |-> Null, poLine |-> p, asset |-> Null,
     conflicting |-> Null]
=============================================================================
