---------------------------- MODULE CaptureClient ----------------------------
(***************************************************************************)
(* The offline capture client: one device, its IndexedDB and the runs of   *)
(* synchronize() that share it.                                            *)
(*                                                                         *)
(* meta, queue and lease are IndexedDB stores; each action that writes     *)
(* them is one readwrite transaction.  syncer is the memory of the pages   *)
(* and the service worker, which a crash erases.  A lease may expire at    *)
(* any moment: a frozen page does not renew it, and its requests and       *)
(* timers resume afterwards.                                               *)
(*                                                                         *)
(* An ordinal is drawn exactly once per operation and never reset, so it   *)
(* stands for the random operation UUID drawn with it.                     *)
(***************************************************************************)
EXTENDS CaptureOperation

CONSTANTS
    Syncer,      \* pages and the service worker
    Ghost,       \* the owner of a lease whose run no longer exists
    MaxOrdinal,  \* bound on operations captured on the device
    MaxSeq       \* the largest client_seq of an epoch (2147483647 in the code)

\* A row of the "operations" store.
QueueRow ==
    [op : Operation, photo : BOOLEAN, status : {"QUEUED", "APPLIED", "REJECTED"},
     attachment : BOOLEAN, link : Operation \cup {None}, done : BOOLEAN, error : BOOLEAN]

ASSUME ClientAssumption ==
    /\ MaxOrdinal \in Nat /\ MaxSeq \in Nat \ {0}
    /\ None \notin Syncer \cup QueueRow /\ Ghost \notin Syncer \cup {None}

VARIABLES
    signed,   \* the actor of the tab's session, or None
    meta,     \* "device": scope, epoch, seq, ordinal
    queue,    \* capture rows, by the ordinal of their capture
    lease,    \* "lease|scope": owner, and whether it is unexpired
    syncer    \* the runs of synchronize()

clientVars == <<signed, meta, queue, lease, syncer>>

Idle == [phase |-> "idle", actor |-> None, row |-> None, evidence |-> FALSE, call |-> None]

Doing(phase, actor, row, evidence, call) ==
    [phase |-> phase, actor |-> actor, row |-> row, evidence |-> evidence, call |-> call]

Captured == {i \in 1..MaxOrdinal : queue[i] # None}

\* Mutant: the sequence continues when the scope changes.
Allocated_KeepsSequence(scope) ==
    LET full == meta.seq >= MaxSeq
    IN  [scope |-> scope, ordinal |-> meta.ordinal + 1,
         seq |-> IF full THEN 1 ELSE meta.seq + 1,
         epoch |-> IF full \/ meta.scope # scope THEN meta.epoch + 1 ELSE meta.epoch]

\* Mutant: an exhausted sequence does not open a new epoch.
Allocated_NoRollover(scope) ==
    LET fresh == meta.scope # scope
    IN  [scope |-> scope, ordinal |-> meta.ordinal + 1,
         seq |-> IF fresh THEN 1 ELSE meta.seq + 1,
         epoch |-> IF fresh THEN meta.epoch + 1 ELSE meta.epoch]

\* allocate: a new scope or an exhausted sequence opens a new epoch.
Allocated(scope) ==
    LET fresh == meta.scope # scope \/ meta.seq >= MaxSeq
    IN  [scope |-> scope, ordinal |-> meta.ordinal + 1,
         seq |-> IF fresh THEN 1 ELSE meta.seq + 1,
         epoch |-> IF fresh THEN meta.epoch + 1 ELSE meta.epoch]

\* Photos that still need an ordinal for their link.
Owed == Cardinality({i \in Captured : /\ queue[i].photo /\ queue[i].link = None
                                      /\ queue[i].status # "REJECTED"})

\* The bounds of this instance, as a guard of every allocation.
CanAllocate(scope) ==
    /\ meta.ordinal < MaxOrdinal
    /\ Allocated(scope).epoch <= MaxEpoch

\* A capture is durable before the operator is told so.
Enqueue(kind, expected, photo) ==
    /\ signed # None
    /\ CanAllocate(signed) /\ meta.ordinal + Owed + (IF photo THEN 2 ELSE 1) <= MaxOrdinal
    /\ meta' = Allocated(signed)
    /\ queue' = [queue EXCEPT ![meta'.ordinal] =
                   [op |-> Envelope(meta', kind, meta'.ordinal, expected), photo |-> photo,
                    status |-> "QUEUED", attachment |-> FALSE, link |-> None,
                    done |-> FALSE, error |-> FALSE]]
    /\ UNCHANGED <<signed, lease, syncer>>

ResetEpoch ==
    /\ signed # None /\ meta.scope # None /\ meta.epoch < MaxEpoch
    /\ meta' = [scope |-> signed, epoch |-> meta.epoch + 1, seq |-> 0, ordinal |-> meta.ordinal]
    /\ UNCHANGED <<signed, queue, lease, syncer>>

SignIn(a) ==
    /\ signed = None
    /\ signed' = a
    /\ UNCHANGED <<meta, queue, lease, syncer>>

SignOut ==
    /\ signed # None
    /\ signed' = None
    /\ UNCHANGED <<meta, queue, lease, syncer>>

-----------------------------------------------------------------------------
(***************************************************************************)
(* Leases.                                                                 *)
(***************************************************************************)

NoLease == [owner |-> None, live |-> FALSE]

\* Mutant: a lease never expires.
LeaseAllowed_Forever(a, s) == lease[a].owner \in {None, s}

\* A run may write the lease when nobody holds it, it does, or it has expired.
LeaseAllowed(a, s) == lease[a].owner \in {None, s} \/ ~ lease[a].live

LeaseTaken(a, s) == lease' = [lease EXCEPT ![a] = [owner |-> s, live |-> TRUE]]

\* lease(scope, owner, true), in the finally block.
LeaseReleased(a, s) ==
    lease' = IF LeaseAllowed(a, s) THEN [lease EXCEPT ![a] = NoLease] ELSE lease

LeaseExpires(a) ==
    /\ lease[a].live
    /\ lease' = [lease EXCEPT ![a] = [@ EXCEPT !.live = FALSE]]
    /\ UNCHANGED <<signed, meta, queue, syncer>>

-----------------------------------------------------------------------------
(***************************************************************************)
(* synchronize().                                                          *)
(***************************************************************************)

\* Claims to replay: queued captures, and links whose capture was applied.
Claims(a) ==
    {[row |-> i, op |-> queue[i].op, evidence |-> FALSE] :
        i \in {j \in Captured : queue[j].op.actor = a /\ queue[j].status = "QUEUED"}}
    \cup
    {[row |-> i, op |-> queue[i].link, evidence |-> TRUE] :
        i \in {j \in Captured : /\ queue[j].op.actor = a /\ queue[j].status = "APPLIED"
                                /\ queue[j].link # None /\ ~queue[j].done /\ ~queue[j].error}}

\* Mutant: links are sent as soon as they exist, before older captures.
NextClaim_LinksFirst(a) ==
    {w \in Claims(a) : \A v \in Claims(a) :
        w.evidence = v.evidence => w.op.id <= v.op.id}

\* .sort((a, b) => a.ordinal - b.ordinal)[0]
NextClaim(a) == {w \in Claims(a) : \A v \in Claims(a) : w.op.id <= v.op.id}

Photos(a) ==
    {i \in Captured : /\ queue[i].op.actor = a /\ queue[i].status = "APPLIED"
                      /\ queue[i].photo /\ queue[i].link = None
                      /\ ~queue[i].done /\ ~queue[i].error}

StartSync(s) ==
    /\ syncer[s].phase = "idle" /\ signed # None
    /\ LeaseAllowed(signed, s)
    /\ LeaseTaken(signed, s)
    /\ syncer' = [syncer EXCEPT ![s] = Doing("loop", signed, None, FALSE, None)]
    /\ UNCHANGED <<signed, meta, queue>>

\* One iteration: renew the lease, read the rows, choose the oldest claim.
PickClaim(s, k, w) ==
    LET a == syncer[s].actor
    IN  /\ syncer[s].phase = "loop"
        /\ LeaseAllowed(a, s) /\ LeaseTaken(a, s)
        /\ w \in NextClaim(a)
        /\ syncer' = [syncer EXCEPT ![s] = Doing("waiting", a, w.row, w.evidence, k)]
        /\ UNCHANGED <<signed, meta, queue>>

\* No claim is left: take the oldest photo that has no link yet.
PickPhoto(s) ==
    LET a == syncer[s].actor
    IN  /\ syncer[s].phase = "loop"
        /\ LeaseAllowed(a, s) /\ LeaseTaken(a, s)
        /\ Claims(a) = {}
        /\ \E i \in Photos(a) :
              /\ \A j \in Photos(a) : i <= j
              /\ syncer' = [syncer EXCEPT ![s] =
                    Doing(IF queue[i].attachment THEN "linking" ELSE "uploading",
                          a, i, FALSE, None)]
        /\ UNCHANGED <<signed, meta, queue>>

\* Nothing left, or the lease went to another run.
Finish(s) ==
    LET a == syncer[s].actor
    IN  /\ syncer[s].phase = "loop"
        /\ ~ LeaseAllowed(a, s) \/ (Claims(a) = {} /\ Photos(a) = {})
        /\ LeaseReleased(a, s)
        /\ syncer' = [syncer EXCEPT ![s] = Idle]
        /\ UNCHANGED <<signed, meta, queue>>

\* The upload is content addressed: repeating it finds the same attachment.
Uploaded(s) ==
    LET i == syncer[s].row
    IN  /\ syncer[s].phase = "uploading"
        /\ queue' = [queue EXCEPT ![i] = [@ EXCEPT !.attachment = TRUE]]
        /\ syncer' = [syncer EXCEPT ![s] = Doing("linking", @.actor, i, FALSE, None)]
        /\ UNCHANGED <<signed, meta, lease>>

LinkDrawn(i) == queue[i].link # None

\* evidenceOperation: at most one link claim per row, drawn in one transaction.
EvidenceOperation(s) ==
    LET i == syncer[s].row
        a == queue[i].op.actor
    IN  /\ syncer[s].phase = "linking"
        /\ IF LinkDrawn(i) THEN UNCHANGED <<meta, queue>>
           ELSE /\ CanAllocate(a)
                /\ meta' = Allocated(a)
                /\ queue' = [queue EXCEPT ![i] =
                                [@ EXCEPT !.link = Envelope(meta', "link", i, None)]]
        /\ syncer' = [syncer EXCEPT ![s] = Doing("loop", @.actor, None, FALSE, None)]
        /\ UNCHANGED <<signed, lease>>

\* Mutant: an answer without recorded_at is taken for a terminal outcome.
Terminal_Unrecorded(answer) == answer.state \in {"APPLIED", "REJECTED", "DUPLICATE"}

\* terminal(): only a recorded outcome of this operation is believed.
Terminal(answer) ==
    answer.state \in {"APPLIED", "REJECTED", "DUPLICATE"} /\ answer.recorded

\* Mutant: a duplicate counts as applied, whatever its original outcome.
Rejected_ByStateOnly(answer) == answer.state = "REJECTED"

\* rejected(): a duplicate carries the original outcome.
Rejected(answer) ==
    answer.state = "REJECTED" \/ (answer.state = "DUPLICATE" /\ answer.code)

\* The answer arrived and was verified: updateRow.
Receive(s, answer) ==
    LET i == syncer[s].row
    IN  /\ syncer[s].phase = "waiting"
        /\ Terminal(answer)
        /\ queue' = [queue EXCEPT ![i] =
               IF ~ syncer[s].evidence
               THEN [@ EXCEPT !.status = IF Rejected(answer) THEN "REJECTED" ELSE "APPLIED"]
               ELSE IF Rejected(answer) THEN [@ EXCEPT !.error = TRUE]
               ELSE [@ EXCEPT !.done = TRUE, !.photo = FALSE]]
        /\ syncer' = [syncer EXCEPT ![s] = Doing("loop", @.actor, None, FALSE, None)]
        /\ UNCHANGED <<signed, meta, lease>>

\* A timeout, a lost connection or an unverifiable answer: the claim stays as
\* it is and the run stops, so no later claim overtakes it.
Fail(s) ==
    /\ syncer[s].phase \in {"loop", "waiting", "uploading"}
    /\ LeaseReleased(syncer[s].actor, s)
    /\ syncer' = [syncer EXCEPT ![s] = Idle]
    /\ UNCHANGED <<signed, meta, queue>>

\* HTTP 401: the run stops and the tab signs out.
AuthRequired(s) ==
    /\ syncer[s].phase = "waiting"
    /\ LeaseReleased(syncer[s].actor, s)
    /\ syncer' = [syncer EXCEPT ![s] = Idle]
    /\ signed' = None
    /\ UNCHANGED <<meta, queue>>

\* The page is closed or the worker is killed; nobody releases its lease.
Crash(s) ==
    LET a == syncer[s].actor
    IN  /\ syncer[s].phase # "idle"
        /\ lease' = IF lease[a].owner = s
                    THEN [lease EXCEPT ![a] = [@ EXCEPT !.owner = Ghost]] ELSE lease
        /\ syncer' = [syncer EXCEPT ![s] = Idle]
        /\ UNCHANGED <<signed, meta, queue>>

ClientInit ==
    /\ signed = None
    /\ meta = [scope |-> None, epoch |-> 0, seq |-> 0, ordinal |-> 0]
    /\ queue = [i \in 1..MaxOrdinal |-> None]
    /\ lease = [a \in Actor |-> NoLease]
    /\ syncer = [s \in Syncer |-> Idle]
=============================================================================
