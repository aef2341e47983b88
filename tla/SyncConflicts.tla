---------------------------- MODULE SyncConflicts ----------------------------
(***************************************************************************)
(* The conflicts that capture opens when an operation was made on another  *)
(* version of its Asset, and the people who work through them.  A conflict *)
(* has no status column: its status is where its last event led.           *)
(***************************************************************************)
EXTENDS Integers, Sequences, SequencesExt

CONSTANTS
    Conflict,        \* sync_conflicts
    Handler,         \* requests that move a conflict
    MaxAssetVersion  \* bound on the versions of the Asset

ASSUME SyncConflictsAssumption == MaxAssetVersion \in Nat /\ "free" \notin Handler

VARIABLES
    currentVersion,    \* assets.version
    conflictRows,       \* the rows of sync_conflicts by identifier
    conflictEvents,  \* sync_conflict_events of each conflict, in order of event_seq
    conflictLock,    \* who holds the advisory lock of each conflict
    handling         \* what every request is doing

conflictVars == <<currentVersion, conflictRows, conflictEvents, conflictLock, handling>>

NoHandler == "free"

\* get_conflict derives the status from the events.
ConflictStatus(c) ==
    IF c \notin DOMAIN conflictRows THEN "UNOPENED"
    ELSE IF conflictEvents[c] = <<>> THEN "OPEN"
    ELSE Last(conflictEvents[c]).to

E == INSTANCE ExceptionStatus WITH
         Exception <- Conflict, Unopened <- "UNOPENED",
         status <- [c \in Conflict |-> ConflictStatus(c)]

Idle == [phase |-> "idle"]

\* No conflict has more than two events: one beyond the next is refused.
EventSeq == 1..3

\* The changes that somebody may ask for: the edges of WORKFLOW, which the CHECK
\* constraint of sync_conflict_events repeats.
Change == {ch \in [conflict : Conflict, from : E!Status, to : E!Status] :
              ch.to \in E!WORKFLOW[ch.from]}

SyncConflictsInit ==
    /\ currentVersion = 1
    /\ conflictRows = <<>>
    /\ conflictEvents = [c \in Conflict |-> <<>>]
    /\ conflictLock = [c \in Conflict |-> NoHandler]
    /\ handling = [h \in Handler |-> Idle]

-----------------------------------------------------------------------------
\* Other work on the Asset.
AdvanceAsset ==
    /\ currentVersion < MaxAssetVersion
    /\ currentVersion' = currentVersion + 1
    /\ UNCHANGED <<conflictRows, conflictEvents, conflictLock, handling>>

\* A row of sync_conflicts: the version the operation named and the one it met.
ConflictRow(expected) == [expected |-> expected, current |-> currentVersion]

\* guard_sync_conflict: under the lock of the Asset the versions must differ.
OpenConflict(c, expected) ==
    /\ c \notin DOMAIN conflictRows
    /\ expected # currentVersion
    /\ conflictRows' = [d \in DOMAIN conflictRows \cup {c} |->
                        IF d = c THEN ConflictRow(expected) ELSE conflictRows[d]]
    /\ UNCHANGED <<currentVersion, conflictEvents, conflictLock, handling>>

\* transition_exception: the edge must be legal before anything is read.
AskChange(h, change) ==
    /\ handling[h] = Idle
    /\ change.conflict \in DOMAIN conflictRows
    /\ handling' = [handling EXCEPT ![h] = [phase |-> "asked", change |-> change]]
    /\ UNCHANGED <<currentVersion, conflictRows, conflictEvents, conflictLock>>

\* get_conflict with its lock: the numbers are read once the lock is held.
LockConflict(h) ==
    LET c == handling[h].change.conflict IN
    /\ handling[h].phase = "asked"
    /\ conflictLock[c] = NoHandler
    /\ conflictLock' = [conflictLock EXCEPT ![c] = h]
    /\ handling' = [handling EXCEPT ![h] = [phase |-> "numbered", change |-> @.change,
                                            seq |-> Len(conflictEvents[c]) + 1]]
    /\ UNCHANGED <<currentVersion, conflictRows, conflictEvents>>

\* A statement of the runtime role that skips the service.
InsertDirectly(h, change, seq) ==
    /\ handling[h] = Idle
    /\ change.conflict \in DOMAIN conflictRows
    /\ handling' = [handling EXCEPT ![h] = [phase |-> "numbered", change |-> change, seq |-> seq]]
    /\ UNCHANGED <<currentVersion, conflictRows, conflictEvents, conflictLock>>

Follows_AnyStatus(change, seq) == seq = Len(conflictEvents[change.conflict]) + 1

\* What guard_sync_conflict_event compares.
Follows(change, seq) ==
    /\ change.from = ConflictStatus(change.conflict)
    /\ seq = Len(conflictEvents[change.conflict]) + 1

\* The trigger takes the lock again, for those who do not hold it yet.
InsertEvent(h) ==
    LET change == handling[h].change IN
    /\ handling[h].phase = "numbered"
    /\ conflictLock[change.conflict] \in {NoHandler, h}
    /\ Follows(change, handling[h].seq)
    /\ conflictLock' = [conflictLock EXCEPT ![change.conflict] = h]
    /\ handling' = [handling EXCEPT ![h].phase = "inserted"]
    /\ UNCHANGED <<currentVersion, conflictRows, conflictEvents>>

Released(h) == [c \in Conflict |-> IF conflictLock[c] = h THEN NoHandler ELSE conflictLock[c]]

CommitEvent(h) ==
    LET change == handling[h].change IN
    /\ handling[h].phase = "inserted"
    /\ conflictEvents' = [conflictEvents EXCEPT ![change.conflict] =
           Append(@, [from |-> change.from, to |-> change.to, by |-> h])]
    /\ conflictLock' = Released(h)
    /\ handling' = [handling EXCEPT ![h] = Idle]
    /\ UNCHANGED <<currentVersion, conflictRows>>

\* A refused statement, a lost connection.
AbandonChange(h) ==
    /\ handling[h] # Idle
    /\ conflictLock' = Released(h)
    /\ handling' = [handling EXCEPT ![h] = Idle]
    /\ UNCHANGED <<currentVersion, conflictRows, conflictEvents>>

SyncConflictsNext ==
    \/ AdvanceAsset
    \/ \E c \in Conflict, v \in 1..MaxAssetVersion : OpenConflict(c, v)
    \/ \E h \in Handler :
           \/ LockConflict(h) \/ InsertEvent(h) \/ CommitEvent(h) \/ AbandonChange(h)
           \/ \E change \in Change :
                  \/ AskChange(h, change)
                  \/ \E seq \in EventSeq : InsertDirectly(h, change, seq)

SyncConflictsSpec == SyncConflictsInit /\ [][SyncConflictsNext]_conflictVars

-----------------------------------------------------------------------------
\* exception_workflow: a sync conflict keeps the promise of every exception,
\* although nothing but its numbered events says where it stands.  Two people
\* who both read OPEN, or one who skips the service, never take a conflict out
\* of a terminal status or along an edge that is not in WORKFLOW.
SyncConflictsFollow == E!Spec
=============================================================================
