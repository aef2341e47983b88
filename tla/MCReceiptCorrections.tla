------------------------ MODULE MCReceiptCorrections ------------------------
(***************************************************************************)
(* Instances of ReceiptCorrections for TLC.                                *)
(***************************************************************************)
EXTENDS ReceiptCorrections

CONSTANTS i1, s1, s2, a1, a2

OrderLine(number, quantity) ==
    [number |-> number, item |-> i1, quantity |-> quantity, uom |-> "EA", supersedes |-> Null]

TwoLines == <<OrderLine(1, 2), OrderLine(2, 1)>>
MCOrders == {<<OrderLine(1, 2)>>, TwoLines}

Bulk(id, poLine, quantity, packing) ==
    [id |-> id, receipt |-> Receipt, poLine |-> poLine, item |-> i1, quantity |-> quantity,
     uom |-> "EA", condition |-> "GOOD", packing |-> packing, serialized |-> FALSE,
     asset |-> Null, serial |-> Null]

Unit(id, poLine, asset, serial) ==
    [Bulk(id, poLine, 1, Null) EXCEPT !.serialized = TRUE, !.asset = asset, !.serial = serial]

Sealed(order, receivedLines, bound) ==
    [order |-> order, packing |-> TRUE, lines |-> receivedLines, bound |-> bound]

\* One line on the order and one that nobody expected; a serial that another
\* Asset carries, on a receipt without an order.
ExpectedAndNot ==
    {Sealed(TRUE, <<Bulk(1, 1, 1, 1), Bulk(2, Null, 1, Null)>>, {1}),
     Sealed(FALSE, <<Unit(1, Null, Null, s1)>>, {})}

\* One line short of its order.
OneShort == {Sealed(TRUE, <<Bulk(1, 1, 1, Null)>>, {1})}

Holding == {[asset |-> a1, serial |-> s1], [asset |-> a2, serial |-> s2]}

MCCaptured == OneShort \cup ExpectedAndNot

Recounts == {[quantity |-> 1], [quantity |-> 2]}

Selections ==
    {[poLine |-> p] : p \in PoLine \cup {Null}}
    \cup {[quantity |-> 2, uom |-> "M"], [serial |-> s2], [condition |-> "DAMAGED"]}

MCChanges == Recounts \cup Selections

\* The short receipt is recounted again and again while people change statuses
\* and late lines arrive; its order stays as it is.
Recounting == receipt \in OneShort

\* The others are corrected by one person, MaxSelection times, while the order is
\* amended and corrected.
MaxSelection == 2

\* Amendments and corrections of the order ask for this quantity.
MCQuantity == 1

Reordered ==
    \A l \in Present' : l \notin Present \/ Generation(l)' # Generation(l) =>
        EffectiveLine(l)'.quantity = MCQuantity

MCInit == Init /\ (Recounting <=> lines[2] = Null)

MCNext ==
    \/ /\ Recounting
       /\ \/ \E t \in Correctors : Correct(t, Recounts)
          \/ \E t \in Latecomers : OpenContext(t, "late")
          \/ \E t \in Reviewers : Review(t)
          \/ \E t \in Tx : Acquire(t) \/ Rollback(t)
    \/ /\ ~ Recounting
       /\ \/ OrderNext /\ UNCHANGED correctionVars /\ Reordered
          \/ \E t \in Correctors :
                \/ Len(evaluations) < MaxSelection /\ Correct(t, Selections)
                \/ Acquire(t) \/ Rollback(t)

MCSpec == MCInit /\ [][MCNext]_vars

Symmetry ==
    Permutations(Correctors) \cup Permutations(Latecomers) \cup Permutations(Reviewers)
=============================================================================
