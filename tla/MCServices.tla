----------------------------- MODULE MCServices -----------------------------
(***************************************************************************)
(* Seven components that share no row with each other, side by side: one   *)
(* is chosen at the start and runs alone, with the others at rest.         *)
(* Since no step of one reads or writes a variable of another, what holds  *)
(* of each by itself holds of all of them together.                        *)
(***************************************************************************)
EXTENDS Procurement, SyncConflicts, Labels, Evidence, Sessions, Space, CaptureBatch

VARIABLE focus  \* the component that runs

\* Two operations of one epoch and one of another, all of one client.
Scan(id, epoch, seq) ==
    [id |-> id, actor |-> CHOOSE a \in Actor : TRUE, epoch |-> epoch, seq |-> seq,
     kind |-> "scan", row |-> id, expected |-> None]

\* Out of order, with the epochs mixed.
SentLists == {<<Scan(2, 1, 2), Scan(3, 2, 1), Scan(1, 1, 1)>>}

Component == {"procurement", "conflicts", "labels", "evidence", "sessions", "space", "batches"}

serviceVars ==
    <<focus, poVars, conflictVars, labelVars, evidenceVars, sessionVars, spaceVars, batchVars>>

ServicesInit ==
    /\ focus \in Component
    /\ ProcurementInit /\ SyncConflictsInit /\ LabelsInit
    /\ EvidenceInit /\ SessionsInit /\ SpaceInit /\ BatchInit
    /\ focus # "procurement" =>   \* one catalog is enough for those who never read it
           \A i \in Item : catalog[i] = CHOOSE entry \in [uom : Uom, serialized : BOOLEAN] : TRUE

\* The variables of every component but the one that runs.
Others(running) ==
    /\ running # "procurement" => UNCHANGED poVars
    /\ running # "conflicts"   => UNCHANGED conflictVars
    /\ running # "labels"      => UNCHANGED labelVars
    /\ running # "evidence"    => UNCHANGED evidenceVars
    /\ running # "sessions"    => UNCHANGED sessionVars
    /\ running # "space"       => UNCHANGED spaceVars
    /\ running # "batches"     => UNCHANGED batchVars

ServicesNext ==
    \/ focus = "procurement" /\ ProcurementNext /\ Others("procurement") /\ UNCHANGED focus
    \/ /\ focus = "procurement"
       /\ \E i \in Item, u \in Uom, s \in BOOLEAN : UpdateItem(i, u, s)
       /\ Others("procurement") /\ UNCHANGED focus
    \/ focus = "conflicts" /\ SyncConflictsNext /\ Others("conflicts") /\ UNCHANGED focus
    \/ focus = "labels" /\ LabelsNext /\ Others("labels") /\ UNCHANGED focus
    \/ focus = "evidence" /\ EvidenceNext /\ Others("evidence") /\ UNCHANGED focus
    \/ focus = "sessions" /\ SessionsNext /\ Others("sessions") /\ UNCHANGED focus
    \/ focus = "space" /\ SpaceNext /\ Others("space") /\ UNCHANGED focus
    \/ focus = "batches" /\ BatchNext /\ Others("batches") /\ UNCHANGED focus

ServicesSpec == ServicesInit /\ [][ServicesNext]_serviceVars

\* The requests that compete in the largest components are interchangeable.
Symmetric == Permutations(Dispatcher) \cup Permutations(Uploader) \cup Permutations(Call)
=============================================================================
