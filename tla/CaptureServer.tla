---------------------------- MODULE CaptureServer ----------------------------
(***************************************************************************)
(* The ingest side of offline capture: POST /capture/operations.           *)
(*                                                                         *)
(* Every operation of a batch is one transaction that takes its locks in a *)
(* fixed order: the advisory lock of the operation id, the row of its      *)
(* (client, epoch) stream, the Asset row.  The transaction either answers  *)
(* the original outcome as DUPLICATE, or records APPLIED / REJECTED        *)
(* together with every effect, or leaves nothing.  The client sends        *)
(* batches of one operation, so a call is one operation here.              *)
(*                                                                         *)
(* A call is what is in flight between a client and the server: it may be  *)
(* lost before it is processed, die with its transaction, or lose its      *)
(* answer; a client that has given up on it does not stop it.              *)
(***************************************************************************)
EXTENDS CaptureOperation

CONSTANTS
    Call,        \* concurrent requests in flight
    MaxVersion   \* bound on assets.version

ASSUME ServerAssumption == MaxVersion \in Nat \ {0} /\ None \notin Call

VARIABLES
    calls,         \* requests in flight and the transactions that serve them
    streams,       \* capture_streams: the actor and last sequence of each epoch
    records,       \* capture_operations, immutable
    assetVersion,  \* assets.version of the one Asset the captures name
    conflicts      \* sync_conflicts, by operation id

serverVars == <<calls, streams, records, assetVersion, conflicts>>

Free == [phase |-> "free", op |-> None, identity |-> None, owner |-> None,
         flags |-> {}, answer |-> None]

\* _out: what the client sees.  code says that `result` carries a refusal code.
Answer(state, code, recorded) == [state |-> state, code |-> code, recorded |-> recorded]

Unavailable == Answer("REJECTED", TRUE, FALSE)   \* OPERATION_UNAVAILABLE, not recorded

Unauthorized == Answer("UNAUTHORIZED", TRUE, FALSE)   \* HTTP 401

\* The transaction ends; the answer to a client that is gone goes nowhere.
Answered(k, answer) ==
    calls' = [calls EXCEPT ![k] =
                 IF @.owner = None THEN Free
                 ELSE [@ EXCEPT !.phase = "answered", !.answer = answer]]

\* SELECT ... FROM capture_operations WHERE operation_id = ...
Original(id) == {x \in records : x.op.id = id}

\* A client's request enters the network.
Submit(k, op, identity, owner) ==
    /\ calls[k].phase = "free"
    /\ calls' = [calls EXCEPT ![k] = [Free EXCEPT !.phase = "sent", !.op = op,
                                                 !.identity = identity, !.owner = owner]]

\* pg_advisory_xact_lock on the operation id is held by an open transaction.
OperationLocked(id) ==
    \E k \in Call : calls[k].phase \in {"locked", "sequenced"} /\ calls[k].op.id = id

\* The stream row of the epoch is held FOR UPDATE by an open transaction.
StreamLocked(e) == \E k \in Call : calls[k].phase = "sequenced" /\ calls[k].op.epoch = e

-----------------------------------------------------------------------------
\* resolve_identity found no live credential: nothing is processed.
Unauthorize(k) ==
    /\ calls[k].phase = "sent"
    /\ Answered(k, Unauthorized)
    /\ UNCHANGED <<streams, records, assetVersion, conflicts>>

\* The operation is already recorded: answer its original outcome.
AnswerDuplicate(k) ==
    /\ calls[k].phase = "sent"
    /\ ~ OperationLocked(calls[k].op.id)
    /\ \E x \in Original(calls[k].op.id) :
           Answered(k, IF x.actor = calls[k].identity
                       THEN Answer("DUPLICATE", x.code, TRUE) ELSE Unavailable)
    /\ UNCHANGED <<streams, records, assetVersion, conflicts>>

\* The operation is new to the server.
LockOperation(k) ==
    /\ calls[k].phase = "sent"
    /\ ~ OperationLocked(calls[k].op.id)
    /\ Original(calls[k].op.id) = {}
    /\ calls' = [calls EXCEPT ![k] = [@ EXCEPT !.phase = "locked"]]
    /\ UNCHANGED <<streams, records, assetVersion, conflicts>>

SequenceFlags(seq, last) ==
    IF seq <= last THEN {"SEQUENCE_REUSED"}
    ELSE IF seq # last + 1 THEN {"SEQUENCE_GAP"} ELSE {}

\* _sequence: the epoch belongs to the actor that opened it.
Sequence(k) ==
    LET c == calls[k]
        stream == streams[c.op.epoch]
    IN  /\ c.phase = "locked"
        /\ ~ StreamLocked(c.op.epoch)
        /\ IF stream.actor \notin {None, c.identity}
           THEN Answered(k, Unavailable)
           ELSE calls' = [calls EXCEPT ![k] =
                    [@ EXCEPT !.phase = "sequenced",
                              !.flags = SequenceFlags(c.op.seq, stream.last)]]
        /\ UNCHANGED <<streams, records, assetVersion, conflicts>>

\* Mutant: a stale capture is applied to the version the Asset has reached.
Outcome_Rebased(op, identity) ==
    IF op.actor # identity THEN {"INVALID"} ELSE {"APPLIED", "INVALID"}

\* The outcomes of one operation.  A version that moved on is a conflict, never
\* a rebase; otherwise the domain operation applies or refuses.
Outcome(op, identity) ==
    IF op.actor # identity THEN {"INVALID"}
    ELSE IF op.kind = "asset" /\ op.expected # assetVersion THEN {"SYNC_CONFLICT"}
    ELSE {"APPLIED", "INVALID"}

\* Evaluate under the locks and commit stream, outcome and effect together.
\* The primary key of capture_operations refuses a second record.
Record(k) ==
    LET c == calls[k]
        op == c.op
    IN  /\ c.phase = "sequenced"
        /\ {x \in records : x.op.id = op.id} = {}
        /\ \E outcome \in Outcome(op, c.identity) :
               LET state == IF outcome = "APPLIED" THEN "APPLIED" ELSE "REJECTED"
               IN  /\ outcome = "APPLIED" /\ op.kind = "asset" => assetVersion < MaxVersion
                   /\ records' = records \cup
                          {[op |-> op, actor |-> c.identity, state |-> state,
                            code |-> outcome # "APPLIED", flags |-> c.flags]}
                   /\ assetVersion' = IF outcome = "APPLIED" /\ op.kind = "asset"
                                      THEN assetVersion + 1 ELSE assetVersion
                   /\ conflicts' = IF outcome = "SYNC_CONFLICT"
                                   THEN conflicts \cup {op.id} ELSE conflicts
                   /\ Answered(k, Answer(state, outcome # "APPLIED", TRUE))
        /\ streams' = [streams EXCEPT ![op.epoch] =
                          [actor |-> c.identity,
                           last |-> IF op.seq > @.last THEN op.seq ELSE @.last]]

\* DBAPIError: the transaction rolls back and the operation is reported as
\* unavailable without a recorded_at.
Abort(k) ==
    /\ calls[k].phase \in {"locked", "sequenced"}
    /\ Answered(k, Unavailable)
    /\ UNCHANGED <<streams, records, assetVersion, conflicts>>

\* The request, its transaction or its answer is lost.
Drop(k) ==
    /\ calls[k].phase # "free"
    /\ calls' = [calls EXCEPT ![k] = Free]
    /\ UNCHANGED <<streams, records, assetVersion, conflicts>>

\* Somebody else operates on the Asset.
OtherOperation ==
    /\ assetVersion < MaxVersion
    /\ assetVersion' = assetVersion + 1
    /\ UNCHANGED <<calls, streams, records, conflicts>>

ServerInit ==
    /\ calls = [k \in Call |-> Free]
    /\ streams = [e \in 1..MaxEpoch |-> [actor |-> None, last |-> 0]]
    /\ records = {}
    /\ assetVersion = 1
    /\ conflicts = {}

ServerNext ==
    \/ OtherOperation
    \/ \E k \in Call :
          \/ Unauthorize(k) \/ AnswerDuplicate(k) \/ LockOperation(k) \/ Sequence(k)
          \/ Record(k) \/ Abort(k) \/ Drop(k)
=============================================================================
