-------------------------------- MODULE Space --------------------------------
(***************************************************************************)
(* Facilities and the hierarchy of locations in each.  Locations are only  *)
(* ever inserted, with the parent they keep; one statement may insert      *)
(* several, which may name each other in any order.  What would close a    *)
(* circle is refused by a trigger that looks at the completed statement.   *)
(***************************************************************************)
EXTENDS Integers, FiniteSets, Sequences, SequencesExt

CONSTANTS Location, Facility, Clerk

ASSUME SpaceAssumption == IsFiniteSet(Location) /\ "root" \notin Location

VARIABLES
    facilities,  \* the facilities that exist
    locations,   \* the committed locations, each with its facility and parent
    inserted     \* the locations that each open transaction has inserted

spaceVars == <<facilities, locations, inserted>>

Root == "root"
Nowhere == [facility |-> "nowhere"]
NoRows == [l \in Location |-> Nowhere]

Rows(table) == {l \in Location : table[l] # Nowhere}

\* upper over lower: the rows of either, as a statement of one transaction sees them.
Over(upper, lower) == [l \in Location |-> IF l \in Rows(upper) THEN upper[l] ELSE lower[l]]

Visible(c) == Over(inserted[c], locations)

\* A UUID that nobody has used: the service draws a new one for each row.
Unused == Location \ (Rows(locations) \cup UNION {Rows(inserted[c]) : c \in Clerk})

-----------------------------------------------------------------------------
\* A walk ends in a circle when its last place was visited before.
IsCycle(walk) == \E i \in 1..Len(walk) - 1 : walk[i] = Last(walk)

\* The recursive query of the trigger and of location_path: from the location
\* upwards, within its facility, until there is no parent or it has been seen.
Ancestry(rows, location) ==
    LET walk[n \in Nat] ==
            IF n = 0 THEN <<location>>
            ELSE LET below == walk[n - 1]
                     parent == rows[Last(below)].parent IN
                 IF \/ IsCycle(below)
                    \/ parent \notin Rows(rows)
                    \/ rows[parent].facility # rows[location].facility
                 THEN below ELSE Append(below, parent)
    IN IF location \in Rows(rows) THEN walk[Cardinality(Location)] ELSE <<>>

\* location_path: complete and from the root down, or an error.
LocationPath(rows, location) == Reverse(Ancestry(rows, location))

PathValid(rows, location) ==
    LET upwards == Ancestry(rows, location) IN
    ~ IsCycle(upwards) /\ rows[Last(upwards)].parent = Root

-----------------------------------------------------------------------------
SpaceInit ==
    /\ facilities = {}
    /\ locations = NoRows
    /\ inserted = [c \in Clerk |-> NoRows]

\* What a new row of locations may say; codes, names and kinds decide nothing.
LocationRow == [facility : facilities, parent : Location \cup {Root}]

CreateFacility(f) ==
    /\ f \notin facilities
    /\ facilities' = facilities \cup {f}
    /\ UNCHANGED <<locations, inserted>>

Seen_Before(c, batch) == Visible(c)

\* An AFTER ROW trigger sees every row of its statement.
Seen(c, batch) == Over(batch, Visible(c))

\* One INSERT statement, of one row from create_location or of several: the
\* composite keys keep a parent in the facility of its child, and both visible.
InsertLocations(c, batch) ==
    LET rows == Over(batch, Visible(c)) IN
    /\ \A l \in Rows(batch) :
           /\ batch[l].parent # l
           /\ batch[l].parent # Root =>
                 /\ batch[l].parent \in Rows(rows)
                 /\ rows[batch[l].parent].facility = batch[l].facility
                 /\ ~ IsCycle(Ancestry(Seen(c, batch), l))
    /\ inserted' = [inserted EXCEPT ![c] = Over(batch, @)]
    /\ UNCHANGED <<facilities, locations>>

CommitSpace(c) ==
    /\ inserted[c] # NoRows
    /\ locations' = Over(inserted[c], locations)
    /\ inserted' = [inserted EXCEPT ![c] = NoRows]
    /\ UNCHANGED facilities

RollbackSpace(c) ==
    /\ inserted[c] # NoRows
    /\ inserted' = [inserted EXCEPT ![c] = NoRows]
    /\ UNCHANGED <<facilities, locations>>

\* location_path only reads; PathsComplete says what it finds.
ReadPath(l) == l \in Rows(locations) /\ UNCHANGED spaceVars

SpaceNext ==
    \/ \E f \in Facility : CreateFacility(f)
    \/ \E c \in Clerk :
           \/ CommitSpace(c) \/ RollbackSpace(c)
           \/ \E ids \in (SUBSET Unused) \ {{}} : \E batch \in [ids -> LocationRow] :
                  InsertLocations(c, [l \in Location |-> IF l \in ids THEN batch[l] ELSE Nowhere])
    \/ \E l \in Location : ReadPath(l)

SpaceSpec == SpaceInit /\ [][SpaceNext]_spaceVars

-----------------------------------------------------------------------------
\* What the path of a location should be: everything that is in every set which
\* contains the location and the parent of each of its members.
Above(rows, location) ==
    {a \in Location :
        \A S \in SUBSET Rows(rows) :
            (/\ location \in S
             /\ \A m \in S : rows[m].parent # Root => rows[m].parent \in S)
            => a \in S}

\* domain/space.py: location_path never answers that the ancestry is cyclic or
\* incomplete.  The path of every committed location runs from a root of its own
\* facility down to it and leaves out no ancestor, whatever the transactions
\* that inserted them did at the same time.
PathsComplete ==
    \A l \in Rows(locations) :
        LET path == LocationPath(locations, l) IN
        /\ PathValid(locations, l)
        /\ Range(path) = Above(locations, l) /\ Len(path) = Cardinality(Range(path))
        /\ \A i \in DOMAIN path : locations[path[i]].facility = locations[l].facility
=============================================================================
