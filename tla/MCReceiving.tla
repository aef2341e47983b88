----------------------------- MODULE MCReceiving -----------------------------
(***************************************************************************)
(* Instances of Receiving for TLC.                                         *)
(***************************************************************************)
EXTENDS Receiving

CONSTANTS i1, s1

ToOrder == [po |-> TRUE, dock |-> TRUE, packing |-> TRUE]

NoOrder == [po |-> FALSE, dock |-> TRUE, packing |-> FALSE]

NoDock == [po |-> FALSE, dock |-> FALSE, packing |-> FALSE]

Bulk(item, quantity, uom, condition, packing) ==
    [item |-> item, quantity |-> quantity, uom |-> uom, condition |-> condition,
     packing |-> packing, unit |-> Null]

Unit(item, serial) ==
    [item |-> item, quantity |-> 1, uom |-> "EA", condition |-> "GOOD", packing |-> Null,
     unit |-> serial]

OrderHeaders == {ToOrder}
FreeHeaders == {NoOrder, NoDock}

BulkArrivals == {Bulk(i1, 1, "EA", "GOOD", Null), Bulk(i1, 2, "M", "DAMAGED", 1)}
UnitArrivals == {Unit(i1, s1), Unit(i1, Unreadable), Bulk(i1, 1, "EA", "OPENED", Null)}
OneArrival == {Bulk(i1, 1, "EA", "GOOD", Null)}

Symmetry == Permutations(Tx) \cup Permutations(Receipt)
=============================================================================
