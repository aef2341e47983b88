---------------------------- MODULE CaptureProofs ----------------------------
(***************************************************************************)
(* Proofs about the capture client and the capture server together: any    *)
(* number of actors, runs of synchronize(), calls in flight, captures and  *)
(* epochs, with every loss, delay, retry, crash and rival run.             *)
(*                                                                         *)
(* The argument: an operation is sent only after all earlier ones of its   *)
(* actor were recorded, and whatever is in flight, however old, is an      *)
(* operation that was drawn; so records come in the order of drawing, and  *)
(* an epoch, whose numbers are drawn in that order too, has no gap.        *)
(***************************************************************************)
EXTENDS CaptureSync, TLAPS

Meta == [scope : Actor \cup {None}, epoch : 0..MaxEpoch, seq : 0..MaxSeq, ordinal : 0..MaxOrdinal]

SyncState ==
    [phase : {"idle", "loop", "waiting", "uploading", "linking"}, actor : Actor \cup {None},
     row : 1..MaxOrdinal \cup {None}, evidence : BOOLEAN, call : Call \cup {None}]

AnswerRow ==
    [state : {"APPLIED", "REJECTED", "DUPLICATE", "UNAUTHORIZED"}, code : BOOLEAN, recorded : BOOLEAN]

CallState ==
    [phase : {"free", "sent", "locked", "sequenced", "answered"}, op : Operation \cup {None},
     identity : Actor \cup {None}, owner : Syncer \cup {None},
     flags : SUBSET {"SEQUENCE_REUSED", "SEQUENCE_GAP"}, answer : AnswerRow \cup {None}]

CaptureRecord ==
    [op : Operation, actor : Actor, state : {"APPLIED", "REJECTED"}, code : BOOLEAN,
     flags : SUBSET {"SEQUENCE_REUSED", "SEQUENCE_GAP"}]

CaptureShape ==
    /\ signed \in Actor \cup {None}
    /\ meta \in Meta
    /\ queue \in [1..MaxOrdinal -> QueueRow \cup {None}]
    /\ syncer \in [Syncer -> SyncState]
    /\ calls \in [Call -> CallState]
    /\ streams \in [1..MaxEpoch -> [actor : Actor \cup {None}, last : Nat]]
    /\ records \subseteq CaptureRecord
    /\ assetVersion \in 1..MaxVersion

\* The operations D of a device whose record is m: numbered without gap in every
\* epoch, in the order of their ordinals, and no epoch shared by two actors.
Sequenced(D, m) ==
    /\ m.scope # None => m.epoch >= 1
    /\ \A p, q \in D : p.id = q.id => p = q
    /\ \A p, q \in D : p.epoch = q.epoch => p.actor = q.actor /\ (p.id < q.id <=> p.seq < q.seq)
    /\ \A p \in D : /\ p.id <= m.ordinal /\ p.epoch <= m.epoch /\ p.seq \in 1..MaxSeq
                    /\ p.epoch = m.epoch => p.actor = m.scope /\ p.seq <= m.seq
    /\ \A p \in D : p.seq > 1 => \E q \in D : q.epoch = p.epoch /\ q.seq = p.seq - 1
    /\ m.seq > 0 => \E q \in D : q.epoch = m.epoch /\ q.seq = m.seq

\* A link is drawn for a capture that was applied, and only then can it fail or
\* be done.
RowsKept ==
    \A i \in Captured :
        /\ queue[i].op.id = i /\ queue[i].op.row = i /\ queue[i].op.kind # "link"
        /\ queue[i].op.kind = "asset" => queue[i].op.expected \in Nat
        /\ queue[i].link # None =>
               /\ queue[i].status = "APPLIED" /\ queue[i].link.kind = "link"
               /\ queue[i].link.row = i /\ queue[i].link.actor = queue[i].op.actor
        /\ queue[i].done \/ queue[i].error => queue[i].link # None

\* Everything that its actor drew before p was recorded.
EarlierRecorded(p) ==
    \A q \in Drawn : q.actor = p.actor /\ q.id < p.id => \E x \in records : x.op = q

RecordsKept ==
    /\ \A x \in records :
           /\ x.op \in Drawn /\ x.actor = x.op.actor /\ x.flags = {}
           /\ x.code <=> x.state = "REJECTED"
           /\ EarlierRecorded(x.op)
           /\ x.op.kind = "asset" /\ x.state = "APPLIED" => x.op.expected < assetVersion
    /\ \A x, y \in records : x.op.id = y.op.id => x = y
    /\ \A x, y \in {z \in records : z.op.kind = "asset" /\ z.state = "APPLIED"} :
           x.op.expected = y.op.expected => x = y
    /\ \A id \in conflicts : \E x \in records : x.op.id = id /\ x.state = "REJECTED"

StreamsKept ==
    \A e \in 1..MaxEpoch :
        /\ \A x \in records : x.op.epoch = e =>
               x.op.seq <= streams[e].last /\ x.actor = streams[e].actor
        /\ streams[e].last > 0 => \E x \in records : x.op.epoch = e /\ x.op.seq = streams[e].last
        /\ streams[e].actor # None => \E x \in records : x.op.epoch = e

\* What an answer says of the recorded outcome of its operation.
Says(answer, op) ==
    \E x \in records : x.op = op /\ x.state = IF Rejected(answer) THEN "REJECTED" ELSE "APPLIED"

\* A call in flight carries an operation that was drawn, after all earlier ones.
CallKept(c) ==
    c.phase # "free" =>
        /\ c.op \in Drawn /\ c.identity = c.op.actor /\ EarlierRecorded(c.op)
        /\ c.phase \in {"locked", "sequenced"} => Original(c.op.id) = {}
        /\ c.flags = {}
        /\ c.phase = "answered" =>
               c.answer \in AnswerRow /\ (Terminal(c.answer) => Says(c.answer, c.op))

CallsKept ==
    /\ \A k \in Call : CallKept(calls[k])
    /\ \A k, l \in {c \in Call : calls[c].phase \in {"locked", "sequenced"}} :
           calls[k].op.id = calls[l].op.id => k = l

SyncersKept ==
    \A s \in Syncer :
        /\ syncer[s].phase = "waiting" =>
               /\ syncer[s].row \in Captured /\ syncer[s].call \in Call
               /\ syncer[s].evidence => queue[syncer[s].row].link # None
               /\ calls[syncer[s].call].owner = s =>
                      calls[syncer[s].call].op = IF syncer[s].evidence
                                                 THEN queue[syncer[s].row].link
                                                 ELSE queue[syncer[s].row].op
        /\ syncer[s].phase \in {"uploading", "linking"} =>
               syncer[s].row \in Captured /\ queue[syncer[s].row].status = "APPLIED"

CaptureInv ==
    /\ CaptureShape
    /\ Sequenced(Drawn, meta)
    /\ RowsKept /\ RecordsKept /\ StreamsKept /\ CallsKept /\ SyncersKept
    /\ DeviceAgreesWithServer

\* What a step may do to the log of the device and of the server: nothing, draw
\* one more operation, or record one whose predecessors were recorded.
Rests == Drawn' = Drawn /\ records' = records

Draws(p) ==
    /\ Drawn' = Drawn \cup {p} /\ records' = records
    /\ p.id \in 1..MaxOrdinal /\ p.actor \in Actor /\ \A q \in Drawn : q.id < p.id

Records(x) ==
    /\ Drawn' = Drawn /\ records' = records \cup {x} /\ x.state \in {"APPLIED", "REJECTED"}
    /\ x.op \in Drawn /\ Original(x.op.id) = {} /\ EarlierRecorded(x.op)

-----------------------------------------------------------------------------
(***************************************************************************)
(* Lemmas about single steps of the device and of a call.                  *)
(***************************************************************************)

\* allocate(): the number that is drawn next continues the epoch or opens one.
LEMMA AllocateStep ==
    ASSUME meta \in Meta, NEW D \in SUBSET Operation, Sequenced(D, meta),
           NEW a \in Actor, CanAllocate(a), NEW p,
           p.id = Allocated(a).ordinal, p.actor = a,
           p.epoch = Allocated(a).epoch, p.seq = Allocated(a).seq
    PROVE  /\ Allocated(a) \in Meta
           /\ p.id \in 1..MaxOrdinal /\ p.epoch \in 1..MaxEpoch /\ p.seq \in 1..MaxSeq
           /\ \A q \in D : q.id < p.id
           /\ Sequenced(D \cup {p}, Allocated(a))
<1> DEFINE m == Allocated(a)
<1>0. None \notin Actor /\ MaxEpoch \in Nat /\ MaxOrdinal \in Nat /\ MaxSeq \in Nat \ {0}
  BY OperationAssumption, ClientAssumption
<1>1. /\ meta.epoch \in Nat /\ meta.seq \in Nat /\ meta.ordinal \in Nat /\ meta.seq <= MaxSeq
      /\ meta.ordinal < MaxOrdinal /\ m.epoch <= MaxEpoch
  BY <1>0 DEF Meta, CanAllocate
<1>2. /\ m.scope = a /\ m.ordinal = meta.ordinal + 1
      /\ \/ m.seq = 1 /\ m.epoch = meta.epoch + 1
         \/ /\ m.seq = meta.seq + 1 /\ m.epoch = meta.epoch
            /\ meta.scope = a /\ meta.seq < MaxSeq
  BY <1>1, <1>0 DEF Allocated
<1>3. m.epoch >= 1 /\ m.seq \in 1..MaxSeq
  BY <1>0, <1>1, <1>2 DEF Sequenced
<1>4. m \in Meta
  BY <1>0, <1>1, <1>2, <1>3 DEF Allocated, Meta
<1> HIDE DEF m
<1>5. p.id = m.ordinal /\ p.actor = a /\ p.epoch = m.epoch /\ p.seq = m.seq
  BY DEF m
<1>6. \A q \in D : /\ q.id \in Nat /\ q.epoch \in Nat /\ q.seq \in Nat
                   /\ q.id <= meta.ordinal /\ q.epoch <= meta.epoch /\ q.seq \in 1..MaxSeq
                   /\ q.epoch = meta.epoch => q.actor = meta.scope /\ q.seq <= meta.seq
  BY <1>0 DEF Sequenced, Operation
<1>7. \A q \in D : q.id < p.id /\ (q.epoch = p.epoch => q.actor = a /\ q.seq < p.seq)
  BY <1>1, <1>2, <1>5, <1>6
<1>8. Sequenced(D \cup {p}, m)
  <2>1. \A q, r \in D \cup {p} : q.id = r.id => q = r
    BY <1>0, <1>1, <1>2, <1>5, <1>6, <1>7 DEF Sequenced
  <2>2. \A q, r \in D \cup {p} : q.epoch = r.epoch => q.actor = r.actor /\ (q.id < r.id <=> q.seq < r.seq)
    BY <1>0, <1>1, <1>2, <1>3, <1>5, <1>6, <1>7 DEF Sequenced
  <2>3. \A q \in D \cup {p} :
            /\ q.id <= m.ordinal /\ q.epoch <= m.epoch /\ q.seq \in 1..MaxSeq
            /\ q.epoch = m.epoch => q.actor = m.scope /\ q.seq <= m.seq
    BY <1>1, <1>2, <1>3, <1>5, <1>6, <1>7
  <2>4. \A q \in D \cup {p} : q.seq > 1 => \E r \in D \cup {p} : r.epoch = q.epoch /\ r.seq = q.seq - 1
    <3>1. p.seq > 1 => \E r \in D : r.epoch = p.epoch /\ r.seq = p.seq - 1
      BY <1>1, <1>2, <1>5 DEF Sequenced
    <3> QED
      BY <3>1 DEF Sequenced
  <2> QED
    BY <1>3, <1>5, <2>1, <2>2, <2>3, <2>4 DEF Sequenced
<1> QED
  BY <1>0, <1>1, <1>2, <1>3, <1>4, <1>5, <1>7, <1>8 DEF m

\* A transaction that ends with an answer.
Ended(c, answer) ==
    IF c.owner = None THEN Free ELSE [c EXCEPT !.phase = "answered", !.answer = answer]

LEMMA FreeCall == Free \in CallState /\ Free.phase = "free" /\ Free.owner = None
BY DEF Free, CallState

LEMMA EndedCall ==
    ASSUME NEW c \in CallState, NEW answer \in AnswerRow
    PROVE  /\ Ended(c, answer) \in CallState
           /\ \/ Ended(c, answer) = Free
              \/ /\ Ended(c, answer).phase = "answered" /\ Ended(c, answer).answer = answer
                 /\ Ended(c, answer).op = c.op /\ Ended(c, answer).identity = c.identity
                 /\ Ended(c, answer).owner = c.owner /\ Ended(c, answer).flags = c.flags
BY FreeCall DEF Ended, CallState

\* A call that moves to another phase, or loses its owner.
Moved(c, phase, flags) == [c EXCEPT !.phase = phase, !.flags = flags]

LEMMA MovedCall ==
    ASSUME NEW c \in CallState, NEW phase \in {"locked", "sequenced"},
           NEW flags \in SUBSET {"SEQUENCE_REUSED", "SEQUENCE_GAP"}
    PROVE  /\ Moved(c, phase, flags) \in CallState
           /\ Moved(c, phase, flags).phase = phase /\ Moved(c, phase, flags).op = c.op
           /\ Moved(c, phase, flags).identity = c.identity
           /\ Moved(c, phase, flags).owner = c.owner /\ Moved(c, phase, flags).flags = flags
BY DEF CallState, Moved

LEMMA LockedCall ==
    ASSUME NEW c \in CallState
    PROVE  /\ [c EXCEPT !.phase = "locked"] \in CallState
           /\ [c EXCEPT !.phase = "locked"].phase = "locked"
           /\ [c EXCEPT !.phase = "locked"].op = c.op
           /\ [c EXCEPT !.phase = "locked"].identity = c.identity
           /\ [c EXCEPT !.phase = "locked"].owner = c.owner
           /\ [c EXCEPT !.phase = "locked"].flags = c.flags
BY DEF CallState

LEMMA OrphanedCall ==
    ASSUME NEW c \in CallState
    PROVE  /\ [c EXCEPT !.owner = None] \in CallState
           /\ [c EXCEPT !.owner = None].phase = c.phase
           /\ [c EXCEPT !.owner = None].op = c.op
           /\ [c EXCEPT !.owner = None].identity = c.identity
           /\ [c EXCEPT !.owner = None].owner = None
           /\ [c EXCEPT !.owner = None].flags = c.flags
           /\ [c EXCEPT !.owner = None].answer = c.answer
BY DEF CallState

\* While nobody draws and nothing is recorded, only calls and runs matter.
LEMMA StillStep ==
    ASSUME CaptureInv, signed' \in Actor \cup {None}, syncer' \in [Syncer -> SyncState],
           calls' \in [Call -> CallState],
           UNCHANGED <<meta, queue, streams, records, assetVersion, conflicts>>
    PROVE  /\ Drawn' = Drawn /\ Captured' = Captured
           /\ \A c : CallKept(c)' <=> CallKept(c)
           /\ CallsKept' /\ SyncersKept' => CaptureInv'
<1>1. Captured' = Captured
  BY DEF Captured
<1>2. Drawn' = Drawn
  BY <1>1 DEF Drawn
<1>3. \A p : EarlierRecorded(p)' <=> EarlierRecorded(p)
  BY <1>2 DEF EarlierRecorded
<1>4. \A id : Original(id)' = Original(id)
  BY DEF Original
<1>5. \A c : CallKept(c)' <=> CallKept(c)
  BY <1>2, <1>3, <1>4 DEF CallKept, Terminal, Says, Rejected
<1>6. CaptureShape'
  BY DEF CaptureInv, CaptureShape
<1>7. Sequenced(Drawn, meta)'
  BY <1>2 DEF CaptureInv, Sequenced
<1>8. RowsKept' /\ StreamsKept'
  BY <1>1 DEF CaptureInv, RowsKept, StreamsKept
<1>9. RecordsKept'
  BY <1>2, <1>3 DEF CaptureInv, RecordsKept
<1>10. DeviceAgreesWithServer'
  BY <1>1 DEF CaptureInv, DeviceAgreesWithServer
<1> QED
  BY <1>1, <1>2, <1>5, <1>6, <1>7, <1>8, <1>9, <1>10 DEF CaptureInv

\* One call moves on, without a record.
LEMMA CallStep ==
    ASSUME CaptureInv, NEW k \in Call, NEW now \in CallState,
           calls' = [calls EXCEPT ![k] = now], CallKept(now),
           now.owner = None \/ (now.owner = calls[k].owner /\ now.op = calls[k].op),
           now.phase \in {"locked", "sequenced"} =>
               \A l \in Call \ {k} :
                   calls[l].phase \in {"locked", "sequenced"} => calls[l].op.id # now.op.id,
           UNCHANGED clientVars,
           UNCHANGED <<streams, records, assetVersion, conflicts>>
    PROVE  CaptureInv'
<1>1. UNCHANGED <<signed, meta, queue, lease, syncer>>
  BY DEF clientVars
<1>2. calls' \in [Call -> CallState] /\ calls'[k] = now /\ \A l \in Call \ {k} : calls'[l] = calls[l]
  BY DEF CaptureInv, CaptureShape
<1>3. signed' \in Actor \cup {None} /\ syncer' \in [Syncer -> SyncState]
  BY <1>1 DEF CaptureInv, CaptureShape
<1>4. /\ Captured' = Captured /\ \A c : CallKept(c)' <=> CallKept(c)
      /\ CallsKept' /\ SyncersKept' => CaptureInv'
  BY <1>1, <1>2, <1>3, StillStep
<1>5. CallsKept'
  <2>1. \A l \in Call : CallKept(calls'[l])
    BY <1>2 DEF CaptureInv, CallsKept
  <2>2. \A l \in Call : CallKept(calls[l])'
    <3> SUFFICES ASSUME NEW l \in Call PROVE CallKept(calls[l])'
      OBVIOUS
    <3>1. PICK c : c = calls'[l]
      OBVIOUS
    <3>2. CallKept(c)'
      BY <2>1, <3>1, <1>4
    <3> QED
      BY <3>1, <3>2 DEF CallKept
  <2>3. \A i, l \in {c \in Call : calls'[c].phase \in {"locked", "sequenced"}} :
            calls'[i].op.id = calls'[l].op.id => i = l
    BY <1>2 DEF CaptureInv, CallsKept
  <2> QED
    BY <2>2, <2>3 DEF CallsKept
<1>6. SyncersKept'
  <2>1. \A s \in Syncer : s # None
    BY ClientAssumption
  <2> QED
    BY <2>1, <1>1, <1>2, <1>4 DEF CaptureInv, SyncersKept
<1> QED
  BY <1>4, <1>5, <1>6

LEMMA DrawnTyped == CaptureShape => Drawn \subseteq Operation
<1> SUFFICES ASSUME CaptureShape PROVE Drawn \subseteq Operation
  OBVIOUS
<1>1. \A i \in Captured : queue[i] \in QueueRow
  BY DEF CaptureShape, Captured
<1>2. \A i \in Captured : queue[i].op \in Operation /\ queue[i].link \in Operation \cup {None}
  BY <1>1 DEF QueueRow
<1> QED
  BY <1>2 DEF Drawn

\* An operation whose predecessors were recorded, and which was not, is the next
\* one of its epoch; this is where the two orders meet.
LEMMA InSequence ==
    ASSUME CaptureInv, NEW p \in Drawn, EarlierRecorded(p), Original(p.id) = {}
    PROVE  /\ p.epoch \in 1..MaxEpoch /\ p.seq = streams[p.epoch].last + 1
           /\ streams[p.epoch].actor \in {None, p.actor}
<1> DEFINE stream == streams[p.epoch]
<1>1. Drawn \subseteq Operation
  BY DrawnTyped DEF CaptureInv
<1>2. /\ p.epoch \in 1..MaxEpoch
      /\ \A q \in Drawn : q.id \in Nat /\ q.seq \in Nat /\ q.seq >= 1
  BY <1>1 DEF Operation, CaptureInv, Sequenced
<1>3. stream.last \in Nat
  BY <1>2 DEF CaptureInv, CaptureShape
<1>4. \A q \in Drawn : q.epoch = p.epoch =>
          /\ q.actor = p.actor /\ (q.id < p.id <=> q.seq < p.seq) /\ (p.id < q.id <=> p.seq < q.seq)
  BY DEF CaptureInv, Sequenced
<1>5. ASSUME NEW x \in records, x.op.epoch = p.epoch PROVE x.op.seq < p.seq /\ x.actor = p.actor
  <2>1. x.op \in Drawn /\ x.actor = x.op.actor /\ EarlierRecorded(x.op) /\ x.op.id # p.id
    BY DEF CaptureInv, RecordsKept, Original
  <2>2. ~ (p.id < x.op.id)
    BY <2>1, <1>4, <1>5 DEF EarlierRecorded, Original
  <2> QED
    BY <2>1, <2>2, <1>2, <1>4, <1>5
<1>6. stream.last < p.seq
  <2>1. stream.last > 0 => \E x \in records : x.op.epoch = p.epoch /\ x.op.seq = stream.last
    BY <1>2 DEF CaptureInv, StreamsKept
  <2> QED
    BY <2>1, <1>2, <1>3, <1>5
<1>7. p.seq > 1 => p.seq - 1 <= stream.last
  <2> SUFFICES ASSUME p.seq > 1 PROVE p.seq - 1 <= stream.last
    OBVIOUS
  <2>1. PICK q \in Drawn : q.epoch = p.epoch /\ q.seq = p.seq - 1
    BY DEF CaptureInv, Sequenced
  <2>2. q.actor = p.actor /\ q.id < p.id
    BY <2>1, <1>2, <1>4
  <2>3. PICK x \in records : x.op = q
    BY <2>2 DEF EarlierRecorded
  <2>4. x.op.seq <= stream.last
    BY <2>1, <2>3, <1>2 DEF CaptureInv, StreamsKept
  <2> QED
    BY <2>1, <2>3, <2>4
<1>8. stream.actor # None => stream.actor = p.actor
  <2>1. stream.actor # None => \E x \in records : x.op.epoch = p.epoch /\ x.actor = stream.actor
    BY <1>2 DEF CaptureInv, StreamsKept
  <2> QED
    BY <2>1, <1>5
<1> QED
  BY <1>2, <1>3, <1>6, <1>7, <1>8

\* An unrecorded refusal says nothing terminal.
LEMMA RefusalSilent ==
    /\ Unavailable \in AnswerRow /\ ~ Terminal(Unavailable)
    /\ Unauthorized \in AnswerRow /\ ~ Terminal(Unauthorized)
BY DEF Unavailable, Unauthorized, Answer, AnswerRow, Terminal

\* A call that is answered without a record.
LEMMA AnsweredStep ==
    ASSUME CaptureInv, NEW k \in Call, calls[k].phase # "free", NEW answer \in AnswerRow,
           Terminal(answer) => Says(answer, calls[k].op), Answered(k, answer),
           UNCHANGED clientVars, UNCHANGED <<streams, records, assetVersion, conflicts>>
    PROVE  CaptureInv'
<1> DEFINE now == Ended(calls[k], answer)
<1>1. calls[k] \in CallState /\ CallKept(calls[k])
  BY DEF CaptureInv, CaptureShape, CallsKept
<1>2. calls' = [calls EXCEPT ![k] = now]
  BY Zenon DEF Answered, Ended
<1>3. /\ now \in CallState
      /\ \/ now = Free
         \/ /\ now.phase = "answered" /\ now.answer = answer /\ now.op = calls[k].op
            /\ now.identity = calls[k].identity /\ now.owner = calls[k].owner
            /\ now.flags = calls[k].flags
  BY <1>1, EndedCall
<1> HIDE DEF now
<1>4. CallKept(now) /\ now.phase \in {"free", "answered"}
  BY <1>1, <1>3, FreeCall DEF CallKept
<1>5. now.owner = None \/ (now.owner = calls[k].owner /\ now.op = calls[k].op)
  BY <1>3, FreeCall
<1> QED
  BY <1>2, <1>3, <1>4, <1>5, CallStep

\* The steps of the server that record nothing.
LEMMA ServeStep ==
    ASSUME CaptureInv, NEW k \in Call, UNCHANGED clientVars,
           \/ Unauthorize(k) \/ AnswerDuplicate(k) \/ LockOperation(k) \/ Sequence(k)
           \/ Abort(k) \/ Drop(k)
    PROVE  CaptureInv'
<1>1. UNCHANGED <<streams, records, assetVersion, conflicts>> /\ calls[k].phase # "free"
  BY DEF Unauthorize, AnswerDuplicate, LockOperation, Sequence, Abort, Drop
<1>2. calls[k] \in CallState /\ CallKept(calls[k])
  BY DEF CaptureInv, CaptureShape, CallsKept
<1>3. CASE Unauthorize(k)
  BY <1>1, <1>3, RefusalSilent, AnsweredStep DEF Unauthorize
<1>4. CASE Abort(k)
  BY <1>1, <1>4, RefusalSilent, AnsweredStep DEF Abort
<1>5. CASE AnswerDuplicate(k)
  <2>1. PICK x \in Original(calls[k].op.id) :
            Answered(k, IF x.actor = calls[k].identity
                        THEN Answer("DUPLICATE", x.code, TRUE) ELSE Unavailable)
    BY <1>5 DEF AnswerDuplicate
  <2>2. x \in records /\ x.op = calls[k].op
    <3>1. x \in records /\ x.op.id = calls[k].op.id /\ x.op \in Drawn /\ calls[k].op \in Drawn
      BY <1>1, <1>2 DEF Original, CaptureInv, RecordsKept, CallKept
    <3> QED
      BY <3>1 DEF CaptureInv, Sequenced
  <2>3. x.code \in BOOLEAN /\ x.state \in {"APPLIED", "REJECTED"} /\ (x.code <=> x.state = "REJECTED")
    BY <2>2 DEF CaptureInv, CaptureShape, RecordsKept, CaptureRecord
  <2> DEFINE answer == Answer("DUPLICATE", x.code, TRUE)
  <2>4. answer \in AnswerRow
    BY <2>3 DEF Answer, AnswerRow
  <2>5. Rejected(answer) <=> x.code
    BY DEF Rejected, Answer
  <2>6. Says(answer, calls[k].op)
    BY <2>2, <2>3, <2>5 DEF Says
  <2> HIDE DEF answer
  <2>7. CASE x.actor = calls[k].identity
    BY <1>1, <2>1, <2>4, <2>6, <2>7, AnsweredStep DEF answer
  <2>8. CASE x.actor # calls[k].identity
    BY <1>1, <2>1, <2>8, RefusalSilent, AnsweredStep
  <2> QED
    BY <2>7, <2>8
<1>6. CASE LockOperation(k)
  <2> DEFINE now == [calls[k] EXCEPT !.phase = "locked"]
  <2>1. calls' = [calls EXCEPT ![k] = now]
    BY <1>6, Zenon DEF LockOperation
  <2>2. /\ now \in CallState /\ now.phase = "locked" /\ now.op = calls[k].op
        /\ now.identity = calls[k].identity /\ now.owner = calls[k].owner /\ now.flags = calls[k].flags
    BY <1>2, LockedCall
  <2> HIDE DEF now
  <2>3. CallKept(now)
    BY <1>1, <1>2, <1>6, <2>2 DEF CallKept, LockOperation
  <2>4. \A l \in Call \ {k} :
            calls[l].phase \in {"locked", "sequenced"} => calls[l].op.id # now.op.id
    BY <1>6, <2>2 DEF LockOperation, OperationLocked
  <2> QED
    BY <1>1, <2>1, <2>2, <2>3, <2>4, CallStep
<1>7. CASE Sequence(k)
  <2>1. calls[k].phase = "locked" /\ Original(calls[k].op.id) = {} /\ calls[k].op \in Drawn
        /\ EarlierRecorded(calls[k].op) /\ calls[k].identity = calls[k].op.actor
    BY <1>2, <1>7 DEF Sequence, CallKept
  <2>2. /\ streams[calls[k].op.epoch].actor \in {None, calls[k].identity}
        /\ calls[k].op.seq = streams[calls[k].op.epoch].last + 1
        /\ calls[k].op.epoch \in 1..MaxEpoch
    BY <2>1, InSequence
  <2>3. SequenceFlags(calls[k].op.seq, streams[calls[k].op.epoch].last) = {}
    <3>1. streams[calls[k].op.epoch].last \in Nat
      BY <2>2 DEF CaptureInv, CaptureShape
    <3> QED
      BY <2>2, <3>1 DEF SequenceFlags
  <2> DEFINE now == Moved(calls[k], "sequenced", {})
  <2>4. calls' = [calls EXCEPT ![k] = now]
    BY <1>7, <2>2, <2>3, Zenon DEF Sequence, Moved
  <2>5. /\ now \in CallState /\ now.phase = "sequenced" /\ now.op = calls[k].op
        /\ now.identity = calls[k].identity /\ now.owner = calls[k].owner /\ now.flags = {}
    BY <1>2, MovedCall
  <2> HIDE DEF now
  <2>6. CallKept(now)
    BY <2>1, <2>5 DEF CallKept
  <2>7. \A l \in Call \ {k} :
            calls[l].phase \in {"locked", "sequenced"} => calls[l].op.id # now.op.id
    BY <2>1, <2>5 DEF CaptureInv, CallsKept
  <2> QED
    BY <1>1, <2>4, <2>5, <2>6, <2>7, CallStep
<1>8. CASE Drop(k)
  <2>1. CallKept(Free)
    BY FreeCall DEF CallKept
  <2> QED
    BY <1>1, <1>8, <2>1, FreeCall, CallStep DEF Drop
<1> QED
  BY <1>3, <1>4, <1>5, <1>6, <1>7, <1>8

\* What a drawn operation on an Asset names as the version it expects.
LEMMA ExpectedVersion ==
    ASSUME CaptureInv, NEW p \in Drawn, p.kind = "asset"
    PROVE  p.expected \in Nat
BY DEF CaptureInv, RowsKept, Drawn

\* One more record about an operation that was not recorded: what was recorded
\* before, and what was sent after it, stays so.
LEMMA RecordMonotone ==
    ASSUME CaptureInv, NEW x, records' = records \cup {x}, UNCHANGED <<meta, queue>>
    PROVE  /\ Drawn' = Drawn /\ Captured' = Captured
           /\ \A p : EarlierRecorded(p) => EarlierRecorded(p)'
           /\ \A answer, p : Says(answer, p) => Says(answer, p)'
           /\ \A id : Original(id)' \subseteq Original(id) \cup {x}
           /\ RowsKept' /\ Sequenced(Drawn, meta)' /\ DeviceAgreesWithServer'
<1>1. Captured' = Captured
  BY DEF Captured
<1>2. Drawn' = Drawn
  BY <1>1 DEF Drawn
<1>3. \A p : EarlierRecorded(p) => EarlierRecorded(p)'
  BY <1>2 DEF EarlierRecorded
<1>4. \A answer, p : Says(answer, p) => Says(answer, p)'
  BY DEF Says, Rejected
<1>5. \A id : Original(id)' \subseteq Original(id) \cup {x}
  BY DEF Original
<1>6. RowsKept' /\ Sequenced(Drawn, meta)'
  BY <1>1, <1>2 DEF CaptureInv, RowsKept, Sequenced
<1>7. DeviceAgreesWithServer'
  BY <1>1 DEF CaptureInv, DeviceAgreesWithServer
<1> QED
  BY <1>1, <1>2, <1>3, <1>4, <1>5, <1>6, <1>7

LEMMA RecordStep ==
    ASSUME CaptureInv, NEW k \in Call, UNCHANGED clientVars, Record(k)
    PROVE  CaptureInv' /\ \E x : Records(x)
<1>0. PICK c, op : c = calls[k] /\ op = c.op
  OBVIOUS
<1>1. /\ c \in CallState /\ c.phase = "sequenced" /\ op \in Drawn /\ c.identity = op.actor
      /\ EarlierRecorded(op) /\ Original(op.id) = {} /\ c.flags = {}
  BY <1>0 DEF CaptureInv, CaptureShape, CallsKept, CallKept, Record
<1>2. PICK outcome \in Outcome(op, c.identity) :
        /\ outcome = "APPLIED" /\ op.kind = "asset" => assetVersion < MaxVersion
        /\ records' = records \cup
               {[op |-> op, actor |-> c.identity,
                 state |-> IF outcome = "APPLIED" THEN "APPLIED" ELSE "REJECTED",
                 code |-> outcome # "APPLIED", flags |-> c.flags]}
        /\ assetVersion' = IF outcome = "APPLIED" /\ op.kind = "asset"
                           THEN assetVersion + 1 ELSE assetVersion
        /\ conflicts' = IF outcome = "SYNC_CONFLICT" THEN conflicts \cup {op.id} ELSE conflicts
        /\ Answered(k, Answer(IF outcome = "APPLIED" THEN "APPLIED" ELSE "REJECTED",
                              outcome # "APPLIED", TRUE))
  BY <1>0 DEF Record
<1> DEFINE state == IF outcome = "APPLIED" THEN "APPLIED" ELSE "REJECTED"
           x == [op |-> op, actor |-> c.identity, state |-> state,
                 code |-> outcome # "APPLIED", flags |-> c.flags]
           answer == Answer(state, outcome # "APPLIED", TRUE)
           now == Ended(c, answer)
<1>3. op \in Operation /\ op.actor \in Actor /\ op.seq \in Nat /\ op.epoch \in 1..MaxEpoch
  BY <1>1, DrawnTyped DEF CaptureInv, Operation
<1>4. /\ x \in CaptureRecord /\ x.op = op /\ x.actor = op.actor /\ x.state = state
      /\ (x.code <=> x.state = "REJECTED") /\ x.flags = {}
  BY <1>1, <1>3 DEF CaptureRecord
<1>5. /\ answer \in AnswerRow /\ (state = "REJECTED" <=> Rejected(answer))
      /\ state \in {"APPLIED", "REJECTED"} /\ (state = "APPLIED" <=> outcome = "APPLIED")
  BY DEF Answer, AnswerRow, Rejected
<1>6. records' = records \cup {x} /\ Answered(k, answer)
  BY <1>2
<1> HIDE DEF x, answer, state
<1>7. UNCHANGED <<signed, meta, queue, lease, syncer>>
  BY DEF clientVars
<1>8. /\ Drawn' = Drawn /\ Captured' = Captured
      /\ \A p : EarlierRecorded(p) => EarlierRecorded(p)'
      /\ \A a, p : Says(a, p) => Says(a, p)'
      /\ \A id : Original(id)' \subseteq Original(id) \cup {x}
      /\ RowsKept' /\ Sequenced(Drawn, meta)' /\ DeviceAgreesWithServer'
  BY <1>6, <1>7, RecordMonotone
<1>9. /\ now \in CallState
      /\ \/ now = Free
         \/ /\ now.phase = "answered" /\ now.answer = answer /\ now.op = op
            /\ now.identity = c.identity /\ now.owner = c.owner /\ now.flags = c.flags
  BY <1>0, <1>1, <1>5, EndedCall
<1>10. calls' = [calls EXCEPT ![k] = now]
  BY <1>0, <1>6, Zenon DEF Answered, Ended
<1> HIDE DEF now
<1>11. calls' \in [Call -> CallState] /\ calls'[k] = now /\ \A l \in Call \ {k} : calls'[l] = calls[l]
  BY <1>9, <1>10 DEF CaptureInv, CaptureShape
<1>12. /\ op.seq = streams[op.epoch].last + 1
       /\ streams' = [streams EXCEPT ![op.epoch] =
              [actor |-> op.actor, last |-> IF op.seq > @.last THEN op.seq ELSE @.last]]
  BY <1>0, <1>1, InSequence DEF Record
<1>13. streams \in [1..MaxEpoch -> [actor : Actor \cup {None}, last : Nat]]
  BY DEF CaptureInv, CaptureShape
<1>14. streams' = [streams EXCEPT ![op.epoch] = [actor |-> op.actor, last |-> op.seq]]
  <2>1. streams[op.epoch].last \in Nat
    BY <1>3, <1>13
  <2>2. (IF op.seq > streams[op.epoch].last THEN op.seq ELSE streams[op.epoch].last) = op.seq
    BY <2>1, <1>3, <1>12
  <2> QED
    BY <2>2, <1>12, Zenon
<1>15. assetVersion \in 1..MaxVersion /\ assetVersion' \in 1..MaxVersion /\ assetVersion' >= assetVersion
  BY <1>2, ServerAssumption DEF CaptureInv, CaptureShape
<1>16. CaptureShape'
  <2>1. streams' \in [1..MaxEpoch -> [actor : Actor \cup {None}, last : Nat]]
    BY <1>3, <1>13, <1>14
  <2>2. records' \subseteq CaptureRecord
    BY <1>4, <1>6 DEF CaptureInv, CaptureShape
  <2> QED
    BY <1>7, <1>11, <1>15, <2>1, <2>2 DEF CaptureInv, CaptureShape
<1>17. \A y \in records : y.op.id # op.id
  BY <1>1 DEF Original
<1>18. x.op.kind = "asset" /\ x.state = "APPLIED" =>
           op.expected = assetVersion /\ assetVersion' = assetVersion + 1
  BY <1>1, <1>2, <1>4, <1>5 DEF Outcome
<1>19. RecordsKept'
  <2>1. \A y \in records' :
            /\ y.op \in Drawn' /\ y.actor = y.op.actor /\ y.flags = {}
            /\ y.code <=> y.state = "REJECTED"
    BY <1>1, <1>4, <1>6, <1>8 DEF CaptureInv, RecordsKept
  <2>2. \A y \in records' : EarlierRecorded(y.op)'
    BY <1>1, <1>4, <1>6, <1>8 DEF CaptureInv, RecordsKept
  <2>3. \A y \in records' : y.op.kind = "asset" /\ y.state = "APPLIED" => y.op.expected < assetVersion'
    <3>1. \A y \in records : y.op.kind = "asset" /\ y.state = "APPLIED" =>
              y.op.expected < assetVersion /\ y.op.expected \in Nat
      BY ExpectedVersion DEF CaptureInv, RecordsKept
    <3> QED
      BY <3>1, <1>4, <1>6, <1>15, <1>18
  <2>4. \A y, z \in records' : y.op.id = z.op.id => y = z
    BY <1>4, <1>6, <1>17 DEF CaptureInv, RecordsKept
  <2>5. \A y, z \in {w \in records' : w.op.kind = "asset" /\ w.state = "APPLIED"} :
            y.op.expected = z.op.expected => y = z
    <3>1. \A y \in records : y.op.kind = "asset" /\ y.state = "APPLIED" => y.op.expected < assetVersion
      BY DEF CaptureInv, RecordsKept
    <3> QED
      BY <3>1, <1>4, <1>6, <1>15, <1>18 DEF CaptureInv, RecordsKept
  <2>6. \A id \in conflicts' : \E y \in records' : y.op.id = id /\ y.state = "REJECTED"
    BY <1>2, <1>4, <1>5, <1>6 DEF CaptureInv, RecordsKept
  <2> QED
    BY <2>1, <2>2, <2>3, <2>4, <2>5, <2>6 DEF RecordsKept
<1>20. StreamsKept'
  <2> SUFFICES ASSUME NEW e \in 1..MaxEpoch
               PROVE  /\ \A y \in records' : y.op.epoch = e =>
                             y.op.seq <= streams'[e].last /\ y.actor = streams'[e].actor
                      /\ streams'[e].last > 0 =>
                             \E y \in records' : y.op.epoch = e /\ y.op.seq = streams'[e].last
                      /\ streams'[e].actor # None => \E y \in records' : y.op.epoch = e
    BY DEF StreamsKept
  <2>1. CASE e # op.epoch
    BY <2>1, <1>4, <1>6, <1>13, <1>14 DEF CaptureInv, StreamsKept
  <2>2. CASE e = op.epoch
    <3>1. streams'[e].actor = op.actor /\ streams'[e].last = op.seq
      BY <2>2, <1>13, <1>14
    <3>2. \A y \in records : y.op.epoch = e =>
              /\ y.op \in Drawn /\ y.actor = y.op.actor
              /\ y.op.seq <= streams[e].last /\ y.op.seq \in Nat
      BY DrawnTyped DEF CaptureInv, StreamsKept, RecordsKept, Operation
    <3>3. \A y \in records : y.op.epoch = e => y.actor = op.actor
      BY <3>2, <2>2, <1>1 DEF CaptureInv, Sequenced
    <3>4. streams[e].last \in Nat
      BY <1>13
    <3> QED
      BY <3>1, <3>2, <3>3, <3>4, <2>2, <1>3, <1>4, <1>6, <1>12
  <2> QED
    BY <2>1, <2>2
<1>21. CallsKept'
  <2>1. CallKept(now)'
    <3>1. Says(answer, op)'
      BY <1>4, <1>5, <1>6 DEF Says
    <3>2. \A id : Original(id)' \subseteq Original(id) \cup {x}
      BY <1>8
    <3> QED
      BY <3>1, <1>1, <1>5, <1>8, <1>9, FreeCall DEF CallKept
  <2>2. ASSUME NEW l \in Call \ {k} PROVE CallKept(calls[l])'
    <3>1. PICK d : d = calls[l] /\ d = calls'[l]
      BY <1>11
    <3>2. CallKept(d)
      BY <3>1 DEF CaptureInv, CallsKept
    <3>3. d.phase \in {"locked", "sequenced"} => d.op.id # op.id
      BY <3>1, <1>0, <1>1 DEF CaptureInv, CallsKept
    <3>4. d.phase \in {"locked", "sequenced"} => Original(d.op.id)' = {}
      BY <3>2, <3>3, <1>4, <1>6 DEF CallKept, Original
    <3>5. CallKept(d)'
      BY <3>2, <3>4, <1>8 DEF CallKept, Terminal
    <3> QED
      BY <3>1, <3>5 DEF CallKept
  <2>3. CallKept(calls[k])'
    BY <2>1, <1>11 DEF CallKept
  <2>4. \A i, l \in {d \in Call : calls'[d].phase \in {"locked", "sequenced"}} :
            calls'[i].op.id = calls'[l].op.id => i = l
    BY <1>9, <1>11, FreeCall DEF CaptureInv, CallsKept
  <2> QED
    BY <2>2, <2>3, <2>4 DEF CallsKept
<1>22. SyncersKept'
  <2>1. \A s \in Syncer : s # None
    BY ClientAssumption
  <2> QED
    BY <2>1, <1>0, <1>7, <1>8, <1>9, <1>11, FreeCall DEF CaptureInv, SyncersKept
<1>23. Records(x)
  BY <1>1, <1>4, <1>5, <1>6, <1>8 DEF Records
<1> QED
  BY <1>8, <1>16, <1>19, <1>20, <1>21, <1>22, <1>23 DEF CaptureInv

\* Others work on the Asset.
LEMMA OtherOperationStep ==
    ASSUME CaptureInv, UNCHANGED clientVars, OtherOperation
    PROVE  CaptureInv'
<1>1. /\ assetVersion' = assetVersion + 1 /\ assetVersion < MaxVersion
      /\ UNCHANGED <<calls, streams, records, conflicts, signed, meta, queue, syncer>>
  BY DEF OtherOperation, clientVars
<1>2. Captured' = Captured /\ \A id : Original(id)' = Original(id)
  BY <1>1 DEF Captured, Original
<1>3. Drawn' = Drawn
  BY <1>1, <1>2 DEF Drawn
<1>4. \A p : EarlierRecorded(p)' <=> EarlierRecorded(p)
  BY <1>1, <1>3 DEF EarlierRecorded
<1>5. assetVersion \in 1..MaxVersion /\ assetVersion' \in 1..MaxVersion
  BY <1>1, ServerAssumption DEF CaptureInv, CaptureShape
<1>6. CaptureShape' /\ Sequenced(Drawn, meta)'
  BY <1>1, <1>3, <1>5 DEF CaptureInv, CaptureShape, Sequenced
<1>7. RowsKept' /\ StreamsKept' /\ SyncersKept' /\ DeviceAgreesWithServer'
  BY <1>1, <1>2 DEF CaptureInv, RowsKept, StreamsKept, SyncersKept, DeviceAgreesWithServer
<1>8. CallsKept'
  BY <1>1, <1>2, <1>3, <1>4 DEF CaptureInv, CallsKept, CallKept, Terminal, Says, Rejected
<1>9. RecordsKept'
  <2>1. \A x \in records : x.op.kind = "asset" /\ x.state = "APPLIED" => x.op.expected < assetVersion'
    <3>1. \A x \in records : x.op.kind = "asset" /\ x.state = "APPLIED" =>
              x.op.expected < assetVersion /\ x.op.expected \in Nat
      BY ExpectedVersion DEF CaptureInv, RecordsKept
    <3> QED
      BY <3>1, <1>1, <1>5
  <2> QED
    BY <2>1, <1>1, <1>3, <1>4 DEF CaptureInv, RecordsKept
<1> QED
  BY <1>6, <1>7, <1>8, <1>9 DEF CaptureInv

-----------------------------------------------------------------------------
(***************************************************************************)
(* The device.                                                             *)
(***************************************************************************)

LEMMA DoingTyped ==
    ASSUME NEW phase \in {"idle", "loop", "waiting", "uploading", "linking"},
           NEW a \in Actor \cup {None}, NEW i \in 1..MaxOrdinal \cup {None},
           NEW evidence \in BOOLEAN, NEW k \in Call \cup {None}
    PROVE  /\ Doing(phase, a, i, evidence, k) \in SyncState
           /\ Doing(phase, a, i, evidence, k).phase = phase
           /\ Doing(phase, a, i, evidence, k).row = i
           /\ Doing(phase, a, i, evidence, k).evidence = evidence
           /\ Doing(phase, a, i, evidence, k).call = k
BY DEF Doing, SyncState

LEMMA DoingPlain ==
    ASSUME NEW phase \in {"loop", "uploading", "linking"},
           NEW a \in Actor \cup {None}, NEW i \in 1..MaxOrdinal \cup {None}
    PROVE  /\ Doing(phase, a, i, FALSE, None) \in SyncState
           /\ Doing(phase, a, i, FALSE, None).phase = phase
           /\ Doing(phase, a, i, FALSE, None).row = i
BY DEF Doing, SyncState

LEMMA IdleTyped == Idle \in SyncState /\ Idle.phase = "idle"
BY DEF Idle, SyncState

\* A run that is not waiting for a call moves on; its claim, if it takes a photo,
\* is a capture that was applied.
LEMMA RunStep ==
    ASSUME CaptureInv, NEW s \in Syncer, NEW now \in SyncState,
           syncer' = [syncer EXCEPT ![s] = now], now.phase # "waiting",
           now.phase \in {"uploading", "linking"} =>
               now.row \in Captured /\ queue[now.row].status = "APPLIED",
           signed' \in Actor \cup {None},
           UNCHANGED <<meta, queue>>, UNCHANGED serverVars
    PROVE  CaptureInv'
<1>1. UNCHANGED <<calls, streams, records, assetVersion, conflicts>>
  BY DEF serverVars
<1>2. /\ syncer' \in [Syncer -> SyncState] /\ syncer'[s] = now
      /\ \A r \in Syncer \ {s} : syncer'[r] = syncer[r]
      /\ calls' \in [Call -> CallState]
  BY <1>1 DEF CaptureInv, CaptureShape
<1>3. /\ Captured' = Captured /\ \A c : CallKept(c)' <=> CallKept(c)
      /\ CallsKept' /\ SyncersKept' => CaptureInv'
  BY <1>1, <1>2, StillStep
<1>4. CallsKept'
  <2>1. \A k \in Call : CallKept(calls[k])'
    <3> SUFFICES ASSUME NEW k \in Call PROVE CallKept(calls[k])'
      OBVIOUS
    <3>1. PICK c : c = calls[k] /\ c = calls'[k]
      BY <1>1
    <3>2. CallKept(c)'
      BY <3>1, <1>3 DEF CaptureInv, CallsKept
    <3> QED
      BY <3>1, <3>2 DEF CallKept
  <2> QED
    BY <2>1, <1>1 DEF CaptureInv, CallsKept
<1>5. SyncersKept'
  BY <1>1, <1>2, <1>3 DEF CaptureInv, SyncersKept
<1> QED
  BY <1>3, <1>4, <1>5

\* Nothing but the session and the leases changes.
LEMMA RestStep ==
    ASSUME CaptureInv, signed' \in Actor \cup {None}, UNCHANGED <<meta, queue, syncer>>,
           UNCHANGED serverVars
    PROVE  CaptureInv'
<1>1. UNCHANGED <<calls, streams, records, assetVersion, conflicts>>
  BY DEF serverVars
<1>2. calls' \in [Call -> CallState] /\ syncer' \in [Syncer -> SyncState]
  BY <1>1 DEF CaptureInv, CaptureShape
<1>3. /\ Captured' = Captured /\ \A c : CallKept(c)' <=> CallKept(c)
      /\ CallsKept' /\ SyncersKept' => CaptureInv'
  BY <1>1, <1>2, StillStep
<1>4. SyncersKept'
  BY <1>1, <1>3 DEF CaptureInv, SyncersKept
<1>5. ASSUME NEW k \in Call PROVE CallKept(calls[k])'
  <2>1. PICK c : c = calls[k] /\ c = calls'[k]
    BY <1>1
  <2>2. CallKept(c)'
    BY <2>1, <1>3 DEF CaptureInv, CallsKept
  <2> QED
    BY <2>1, <2>2 DEF CallKept
<1> QED
  BY <1>1, <1>3, <1>4, <1>5 DEF CaptureInv, CallsKept

\* Steps of the device that draw nothing and wait for nothing.
LEMMA QuietStep ==
    ASSUME CaptureInv, UNCHANGED serverVars,
           \/ SignOut \/ \E a \in Actor : SignIn(a) \/ LeaseExpires(a)
           \/ \E s \in Syncer : StartSync(s) \/ PickPhoto(s) \/ Finish(s)
    PROVE  CaptureInv'
<1>1. signed \in Actor \cup {None} /\ syncer \in [Syncer -> SyncState]
  BY DEF CaptureInv, CaptureShape
<1>3. CASE SignOut \/ \E a \in Actor : SignIn(a) \/ LeaseExpires(a)
  <2>1. signed' \in Actor \cup {None} /\ UNCHANGED <<meta, queue, syncer>>
    BY <1>1, <1>3 DEF SignOut, SignIn, LeaseExpires
  <2> QED
    BY <2>1, RestStep
<1>4. ASSUME NEW s \in Syncer, StartSync(s) PROVE CaptureInv'
  <2>1. Doing("loop", signed, None, FALSE, None) \in SyncState
        /\ Doing("loop", signed, None, FALSE, None).phase = "loop"
    BY <1>1, DoingPlain
  <2> QED
    BY <1>1, <1>4, <2>1, RunStep DEF StartSync
<1>5. ASSUME NEW s \in Syncer, Finish(s) PROVE CaptureInv'
  BY <1>1, <1>5, IdleTyped, RunStep DEF Finish
<1>6. ASSUME NEW s \in Syncer, PickPhoto(s) PROVE CaptureInv'
  <2>0. PICK a : a = syncer[s].actor
    OBVIOUS
  <2>1. PICK i \in Photos(a), phase \in {"uploading", "linking"} :
            syncer' = [syncer EXCEPT ![s] = Doing(phase, a, i, FALSE, None)]
    BY <1>6, <2>0 DEF PickPhoto
  <2>2. i \in Captured /\ queue[i].status = "APPLIED" /\ i \in 1..MaxOrdinal
    BY DEF Photos, Captured
  <2>3. a \in Actor \cup {None}
    BY <1>1, <2>0 DEF SyncState
  <2>5. /\ Doing(phase, a, i, FALSE, None) \in SyncState
        /\ Doing(phase, a, i, FALSE, None).phase = phase
        /\ Doing(phase, a, i, FALSE, None).row = i
    <3>1. i \in 1..MaxOrdinal \cup {None}
      BY <2>2
    <3> QED
      BY <3>1, <2>3 DEF Doing, SyncState
  <2>6. UNCHANGED <<signed, meta, queue>>
    BY <1>6 DEF PickPhoto
  <2> QED
    BY <1>1, <2>1, <2>2, <2>5, <2>6, RunStep
<1> QED
  BY <1>3, <1>4, <1>5, <1>6

\* What synchronize() writes to a row.
Attached(r) == [r EXCEPT !.attachment = TRUE]
LinkedBy(r, p) == [r EXCEPT !.link = p]
Settles(r, status) == [r EXCEPT !.status = status]
Fails(r) == [r EXCEPT !.error = TRUE]
Finishes(r) == [r EXCEPT !.done = TRUE, !.photo = FALSE]

\* None of it touches the operation of the row, nor an outcome of another kind.
LEMMA RowWrites ==
    ASSUME NEW r \in QueueRow, NEW p \in Operation, NEW status \in {"APPLIED", "REJECTED"}
    PROVE  /\ Attached(r) \in QueueRow /\ Attached(r).op = r.op /\ Attached(r).status = r.status
           /\ Attached(r).link = r.link
           /\ (Attached(r).done <=> r.done) /\ (Attached(r).error <=> r.error)
           /\ LinkedBy(r, p) \in QueueRow /\ LinkedBy(r, p).op = r.op
           /\ LinkedBy(r, p).status = r.status /\ LinkedBy(r, p).link = p
           /\ (LinkedBy(r, p).done <=> r.done) /\ (LinkedBy(r, p).error <=> r.error)
           /\ Settles(r, status) \in QueueRow /\ Settles(r, status).op = r.op
           /\ Settles(r, status).status = status /\ Settles(r, status).link = r.link
           /\ (Settles(r, status).done <=> r.done) /\ (Settles(r, status).error <=> r.error)
           /\ Fails(r) \in QueueRow /\ Fails(r).op = r.op /\ Fails(r).status = r.status
           /\ Fails(r).link = r.link /\ (Fails(r).done <=> r.done) /\ Fails(r).error
           /\ Finishes(r) \in QueueRow /\ Finishes(r).op = r.op /\ Finishes(r).status = r.status
           /\ Finishes(r).link = r.link /\ (Finishes(r).error <=> r.error) /\ Finishes(r).done
BY DEF QueueRow, Attached, LinkedBy, Settles, Fails, Finishes

\* Rows keep their operations, and what was applied stays applied.
RowsStay ==
    /\ Captured' = Captured /\ queue' \in [1..MaxOrdinal -> QueueRow \cup {None}]
    /\ \A i \in Captured : /\ queue'[i].op = queue[i].op /\ queue'[i].link = queue[i].link
                           /\ queue[i].status = "APPLIED" => queue'[i].status = "APPLIED"

\* A client that hangs up, or was answered, leaves its call to itself.
CallsLetGo ==
    /\ calls' \in [Call -> CallState]
    /\ \A k \in Call :
           \/ calls'[k] = calls[k]
           \/ /\ CallKept(calls'[k]) /\ calls'[k].owner = None
              /\ calls'[k].phase \in {"locked", "sequenced"} =>
                     calls[k].phase \in {"locked", "sequenced"} /\ calls'[k].op = calls[k].op

LEMMA DrawnStays ==
    ASSUME RowsStay
    PROVE  Drawn' = Drawn
<1>1. \A i \in Captured : queue'[i].op = queue[i].op /\ queue'[i].link = queue[i].link
  BY DEF RowsStay
<1>2. {queue'[i].op : i \in Captured} = {queue[i].op : i \in Captured}
  BY <1>1
<1>3. {queue'[i].link : i \in {j \in Captured : queue'[j].link # None}}
      = {queue[i].link : i \in {j \in Captured : queue[j].link # None}}
  BY <1>1
<1> QED
  BY <1>2, <1>3 DEF Drawn, RowsStay

\* A step of one run that draws nothing and sends nothing.
LEMMA DeviceStep ==
    ASSUME CaptureInv, NEW s \in Syncer, NEW now \in SyncState,
           syncer' = [syncer EXCEPT ![s] = now], now.phase # "waiting",
           now.phase \in {"uploading", "linking"} =>
               now.row \in Captured /\ queue'[now.row].status = "APPLIED",
           signed' \in Actor \cup {None}, CallsLetGo,
           RowsStay, RowsKept', DeviceAgreesWithServer',
           UNCHANGED <<meta, streams, records, assetVersion, conflicts>>
    PROVE  CaptureInv'
<1>1. Drawn' = Drawn
  BY DrawnStays
<1>2. /\ syncer' \in [Syncer -> SyncState] /\ syncer'[s] = now
      /\ \A r \in Syncer \ {s} : syncer'[r] = syncer[r]
  BY DEF CaptureInv, CaptureShape
<1>3. CaptureShape'
  BY <1>2 DEF CaptureInv, CaptureShape, RowsStay, CallsLetGo
<1>4. \A p : EarlierRecorded(p)' <=> EarlierRecorded(p)
  BY <1>1 DEF EarlierRecorded
<1>5. \A c : CallKept(c)' <=> CallKept(c)
  <2>1. \A id : Original(id)' = Original(id)
    BY DEF Original
  <2> QED
    BY <1>1, <1>4, <2>1 DEF CallKept, Terminal, Says, Rejected
<1>6. Sequenced(Drawn, meta)'
  BY <1>1 DEF CaptureInv, Sequenced
<1>7. StreamsKept'
  BY DEF CaptureInv, StreamsKept
<1>8. RecordsKept'
  BY <1>1, <1>4 DEF CaptureInv, RecordsKept
<1>9. CallsKept'
  <2>1. ASSUME NEW k \in Call PROVE CallKept(calls[k])'
    <3>1. PICK c : c = calls'[k]
      OBVIOUS
    <3>2. CallKept(c)
      BY <3>1 DEF CallsLetGo, CaptureInv, CallsKept
    <3>3. CallKept(c)'
      BY <3>2, <1>5
    <3> QED
      BY <3>1, <3>3 DEF CallKept
  <2>2. \A k, l \in {c \in Call : calls'[c].phase \in {"locked", "sequenced"}} :
            calls'[k].op.id = calls'[l].op.id => k = l
    BY DEF CallsLetGo, CaptureInv, CallsKept
  <2> QED
    BY <2>1, <2>2 DEF CallsKept
<1>10. SyncersKept'
  <2>1. None \notin Syncer
    BY ClientAssumption
  <2> QED
    BY <2>1, <1>2 DEF CallsLetGo, RowsStay, CaptureInv, SyncersKept
<1> QED
  BY <1>3, <1>6, <1>7, <1>8, <1>9, <1>10 DEF CaptureInv

\* Rows that nobody writes.
LEMMA RowsUntouched ==
    ASSUME CaptureInv, UNCHANGED <<queue, records>>
    PROVE  RowsStay /\ RowsKept' /\ DeviceAgreesWithServer'
<1>1. Captured' = Captured
  BY DEF Captured
<1> QED
  BY <1>1 DEF RowsStay, CaptureInv, CaptureShape, RowsKept, DeviceAgreesWithServer

\* One row is written.
LEMMA RowWritten ==
    ASSUME CaptureInv, NEW i \in Captured, NEW r \in QueueRow,
           queue' = [queue EXCEPT ![i] = r], UNCHANGED records,
           r.op = queue[i].op, r.link = queue[i].link,
           queue[i].status = "APPLIED" => r.status = "APPLIED",
           r.status # "QUEUED" => \E x \in records : x.op = r.op /\ x.state = r.status,
           r.done => r.link # None /\ \E x \in records : x.op = r.link /\ x.state = "APPLIED",
           r.error => r.link # None /\ \E x \in records : x.op = r.link /\ x.state = "REJECTED"
    PROVE  RowsStay /\ RowsKept' /\ DeviceAgreesWithServer'
<1>1. r # None /\ i \in 1..MaxOrdinal
  BY ClientAssumption DEF Captured
<1>2. /\ queue' \in [1..MaxOrdinal -> QueueRow \cup {None}] /\ queue'[i] = r
      /\ \A j \in 1..MaxOrdinal : j # i => queue'[j] = queue[j]
  BY <1>1 DEF CaptureInv, CaptureShape
<1>3. Captured' = Captured /\ \A j \in Captured : j # i => queue'[j] = queue[j]
  BY <1>1, <1>2 DEF Captured
<1>4. RowsStay
  BY <1>2, <1>3 DEF RowsStay
<1>5. RowsKept'
  BY <1>2, <1>3 DEF CaptureInv, RowsKept
<1>6. DeviceAgreesWithServer'
  BY <1>2, <1>3 DEF CaptureInv, DeviceAgreesWithServer
<1> QED
  BY <1>4, <1>5, <1>6

LEMMA CallsUntouched ==
    ASSUME CaptureInv, UNCHANGED calls
    PROVE  CallsLetGo
BY DEF CallsLetGo, CaptureInv, CaptureShape

\* One call is freed, or goes on without its client.
LEMMA CallLetGo ==
    ASSUME CaptureInv, NEW k \in Call,
           calls' = [calls EXCEPT ![k] = Free] \/ calls' = [calls EXCEPT ![k] = [calls[k] EXCEPT !.owner = None]]
    PROVE  CallsLetGo
<1>1. calls \in [Call -> CallState] /\ calls[k] \in CallState /\ CallKept(calls[k])
  BY DEF CaptureInv, CaptureShape, CallsKept
<1>2. CASE calls' = [calls EXCEPT ![k] = Free]
  <2>1. CallKept(Free)
    BY FreeCall DEF CallKept
  <2> QED
    BY <1>1, <1>2, <2>1, FreeCall DEF CallsLetGo
<1>3. CASE calls' = [calls EXCEPT ![k] = [calls[k] EXCEPT !.owner = None]]
  <2> DEFINE c == [calls[k] EXCEPT !.owner = None]
  <2>1. /\ c \in CallState /\ c.phase = calls[k].phase /\ c.op = calls[k].op
        /\ c.identity = calls[k].identity /\ c.owner = None /\ c.flags = calls[k].flags
        /\ c.answer = calls[k].answer
    BY <1>1, OrphanedCall
  <2>2. calls' = [calls EXCEPT ![k] = c]
    BY <1>3, Zenon
  <2> HIDE DEF c
  <2>3. CallKept(c)
    BY <1>1, <2>1 DEF CallKept
  <2> QED
    BY <1>1, <2>1, <2>2, <2>3 DEF CallsLetGo
<1> QED
  BY <1>2, <1>3

LEMMA HangupLetsGo ==
    ASSUME CaptureInv, NEW s \in Syncer, Hangup(s)
    PROVE  CallsLetGo
<1> DEFINE k == syncer[s].call
<1>1. k \in Call \cup {None}
  BY DEF CaptureInv, CaptureShape, SyncState
<1>2. CASE k # None /\ calls[k].owner = s
  <2>1. \/ calls' = [calls EXCEPT ![k] = Free]
        \/ calls' = [calls EXCEPT ![k] = [calls[k] EXCEPT !.owner = None]]
    BY <1>2, Zenon DEF Hangup
  <2> HIDE DEF k
  <2> QED
    BY <1>1, <1>2, <2>1, CallLetGo
<1>3. CASE ~ (k # None /\ calls[k].owner = s)
  <2>1. UNCHANGED calls
    BY <1>3, Zenon DEF Hangup
  <2> QED
    BY <2>1, CallsUntouched
<1> QED
  BY <1>2, <1>3

\* A run that stops, and hangs up.
LEMMA StopStep ==
    ASSUME CaptureInv, NEW s \in Syncer, GetUnauthorized(s) \/ GiveUp(s) \/ Die(s)
    PROVE  CaptureInv'
<1>1. /\ syncer' = [syncer EXCEPT ![s] = Idle] /\ Hangup(s)
      /\ UNCHANGED <<meta, queue, streams, records, assetVersion, conflicts>>
      /\ signed' \in {signed, None}
  BY DEF GetUnauthorized, AuthRequired, GiveUp, Fail, Die, Crash
<1>2. CallsLetGo
  BY <1>1, HangupLetsGo
<1>3. RowsStay /\ RowsKept' /\ DeviceAgreesWithServer'
  BY <1>1, RowsUntouched
<1>4. signed' \in Actor \cup {None}
  BY <1>1 DEF CaptureInv, CaptureShape
<1> QED
  BY <1>1, <1>2, <1>3, <1>4, IdleTyped, DeviceStep

\* What the row of a capture says is recorded.
LEMMA RowRecorded ==
    ASSUME CaptureInv, NEW i \in Captured
    PROVE  /\ queue[i].status # "QUEUED" =>
                  \E x \in records : x.op = queue[i].op /\ x.state = queue[i].status
           /\ queue[i].done => /\ queue[i].link # None
                               /\ \E x \in records : x.op = queue[i].link /\ x.state = "APPLIED"
           /\ queue[i].error => /\ queue[i].link # None
                                /\ \E x \in records : x.op = queue[i].link /\ x.state = "REJECTED"
           /\ queue[i].link # None => queue[i].status = "APPLIED"
BY DEF CaptureInv, RowsKept, DeviceAgreesWithServer

LEMMA UploadedStep ==
    ASSUME CaptureInv, NEW s \in Syncer, Uploaded(s), UNCHANGED serverVars
    PROVE  CaptureInv' /\ Rests
<1>1. PICK i, a : i = syncer[s].row /\ a = syncer[s].actor
  OBVIOUS
<1>2. i \in Captured /\ i \in 1..MaxOrdinal /\ queue[i].status = "APPLIED" /\ a \in Actor \cup {None}
  BY <1>1 DEF Uploaded, CaptureInv, CaptureShape, SyncersKept, SyncState, Captured
<1>3. queue[i] \in QueueRow
  BY <1>2 DEF CaptureInv, CaptureShape, Captured
<1>4. /\ queue' = [queue EXCEPT ![i] = Attached(queue[i])]
      /\ syncer' = [syncer EXCEPT ![s] = Doing("linking", a, i, FALSE, None)]
      /\ UNCHANGED <<signed, meta>>
  BY <1>1, Zenon DEF Uploaded, Attached
<1>5. UNCHANGED <<calls, streams, records, assetVersion, conflicts>>
  BY DEF serverVars
<1>6. \E p : p \in Operation
  BY <1>3 DEF QueueRow
<1>7. /\ Attached(queue[i]) \in QueueRow /\ Attached(queue[i]).op = queue[i].op
      /\ Attached(queue[i]).status = queue[i].status /\ Attached(queue[i]).link = queue[i].link
      /\ (Attached(queue[i]).done <=> queue[i].done) /\ (Attached(queue[i]).error <=> queue[i].error)
  BY <1>3, <1>6, RowWrites
<1>8. RowsStay /\ RowsKept' /\ DeviceAgreesWithServer'
  <2>1. PICK r : r = Attached(queue[i])
    OBVIOUS
  <2>2. /\ queue[i].status = "APPLIED" => r.status = "APPLIED"
        /\ r.status # "QUEUED" => \E y \in records : y.op = r.op /\ y.state = r.status
        /\ r.done => r.link # None /\ \E y \in records : y.op = r.link /\ y.state = "APPLIED"
        /\ r.error => r.link # None /\ \E y \in records : y.op = r.link /\ y.state = "REJECTED"
    BY <1>2, <1>7, <2>1, RowRecorded
  <2> QED
    BY <1>2, <1>4, <1>5, <1>7, <2>1, <2>2, RowWritten
<1>9. /\ Doing("linking", a, i, FALSE, None) \in SyncState
      /\ Doing("linking", a, i, FALSE, None).phase = "linking"
      /\ Doing("linking", a, i, FALSE, None).row = i
  BY <1>2 DEF Doing, SyncState
<1>10. queue'[i].status = "APPLIED" /\ CallsLetGo /\ signed' \in Actor \cup {None}
  BY <1>2, <1>4, <1>5, <1>8, CallsUntouched DEF RowsStay, CaptureInv, CaptureShape
<1>11. Rests
  BY <1>5, <1>8, DrawnStays DEF Rests
<1> QED
  BY <1>2, <1>4, <1>5, <1>8, <1>9, <1>10, <1>11, DeviceStep

\* The recorded outcome of an operation is one.
LEMMA OutcomeUnique ==
    ASSUME CaptureInv, NEW x \in records, NEW y \in records, x.op = y.op
    PROVE  x = y
BY DEF CaptureInv, RecordsKept

\* An answer arrives: what it says is what was recorded, also if a rival run
\* has written the same row already.
LEMMA GetAnswerStep ==
    ASSUME CaptureInv, NEW s \in Syncer, GetAnswer(s)
    PROVE  CaptureInv' /\ Rests
<1>1. PICK i, a, k, answer :
        i = syncer[s].row /\ a = syncer[s].actor /\ k = syncer[s].call /\ answer = calls[k].answer
  OBVIOUS
<1>2. /\ syncer[s].phase = "waiting" /\ calls[k].phase = "answered" /\ calls[k].owner = s
      /\ Terminal(answer) /\ calls' = [calls EXCEPT ![k] = Free]
      /\ syncer' = [syncer EXCEPT ![s] = Doing("loop", a, None, FALSE, None)]
      /\ UNCHANGED <<signed, meta, streams, records, assetVersion, conflicts>>
  BY <1>1 DEF GetAnswer, Arrived, Receive
<1>3. /\ i \in Captured /\ i \in 1..MaxOrdinal /\ k \in Call /\ a \in Actor \cup {None}
      /\ syncer[s].evidence => queue[i].link # None
      /\ calls[k].op = IF syncer[s].evidence THEN queue[i].link ELSE queue[i].op
  BY <1>1, <1>2 DEF CaptureInv, CaptureShape, SyncersKept, SyncState, Captured
<1>4. queue[i] \in QueueRow /\ queue[i].link \in Operation \cup {None} /\ queue[i].op \in Operation
  BY <1>3 DEF CaptureInv, CaptureShape, Captured, QueueRow
<1> DEFINE status == IF Rejected(answer) THEN "REJECTED" ELSE "APPLIED"
<1>5. PICK x \in records : x.op = calls[k].op /\ x.state = status
  BY <1>1, <1>2, <1>3 DEF CaptureInv, CallsKept, CallKept, Says
<1> DEFINE r == IF ~ syncer[s].evidence THEN Settles(queue[i], status)
                ELSE IF Rejected(answer) THEN Fails(queue[i]) ELSE Finishes(queue[i])
<1>6. queue' = [queue EXCEPT ![i] = r]
  BY <1>1, Zenon DEF GetAnswer, Receive, Settles, Fails, Finishes
<1>7. RowsStay /\ RowsKept' /\ DeviceAgreesWithServer'
  <2>0. status \in {"APPLIED", "REJECTED"}
    OBVIOUS
  <2>1. CASE ~ syncer[s].evidence
    <3>1. r = Settles(queue[i], status)
      BY <2>1
    <3> HIDE DEF status, r
    <3>2. /\ r \in QueueRow /\ r.op = queue[i].op /\ r.status = status /\ r.link = queue[i].link
          /\ (r.done <=> queue[i].done) /\ (r.error <=> queue[i].error)
      BY <3>1, <2>0, <1>4, RowWrites
    <3>3. queue[i].status = "APPLIED" => status = "APPLIED"
      BY <1>3, <1>5, <2>1, OutcomeUnique DEF CaptureInv, DeviceAgreesWithServer
    <3>4. /\ queue[i].status = "APPLIED" => r.status = "APPLIED"
          /\ r.status # "QUEUED" => \E y \in records : y.op = r.op /\ y.state = r.status
          /\ r.done => r.link # None /\ \E y \in records : y.op = r.link /\ y.state = "APPLIED"
          /\ r.error => r.link # None /\ \E y \in records : y.op = r.link /\ y.state = "REJECTED"
      BY <1>3, <1>5, <2>1, <3>2, <3>3, RowRecorded
    <3> QED
      BY <1>2, <1>3, <1>6, <3>2, <3>4, RowWritten
  <2>2. CASE syncer[s].evidence /\ Rejected(answer)
    <3>1. r = Fails(queue[i]) /\ status = "REJECTED"
      BY <2>2
    <3> HIDE DEF status, r
    <3>2. /\ r \in QueueRow /\ r.op = queue[i].op /\ r.status = queue[i].status
          /\ r.link = queue[i].link /\ (r.done <=> queue[i].done) /\ r.error
      BY <3>1, <1>4, RowWrites
    <3>4. /\ queue[i].status = "APPLIED" => r.status = "APPLIED"
          /\ r.status # "QUEUED" => \E y \in records : y.op = r.op /\ y.state = r.status
          /\ r.done => r.link # None /\ \E y \in records : y.op = r.link /\ y.state = "APPLIED"
          /\ r.error => r.link # None /\ \E y \in records : y.op = r.link /\ y.state = "REJECTED"
      BY <1>3, <1>5, <2>2, <3>1, <3>2, RowRecorded
    <3> QED
      BY <1>2, <1>3, <1>6, <3>2, <3>4, RowWritten
  <2>3. CASE syncer[s].evidence /\ ~ Rejected(answer)
    <3>1. r = Finishes(queue[i]) /\ status = "APPLIED"
      BY <2>3
    <3> HIDE DEF status, r
    <3>2. /\ r \in QueueRow /\ r.op = queue[i].op /\ r.status = queue[i].status
          /\ r.link = queue[i].link /\ (r.error <=> queue[i].error) /\ r.done
      BY <3>1, <1>4, RowWrites
    <3>4. /\ queue[i].status = "APPLIED" => r.status = "APPLIED"
          /\ r.status # "QUEUED" => \E y \in records : y.op = r.op /\ y.state = r.status
          /\ r.done => r.link # None /\ \E y \in records : y.op = r.link /\ y.state = "APPLIED"
          /\ r.error => r.link # None /\ \E y \in records : y.op = r.link /\ y.state = "REJECTED"
      BY <1>3, <1>5, <2>3, <3>1, <3>2, RowRecorded
    <3> QED
      BY <1>2, <1>3, <1>6, <3>2, <3>4, RowWritten
  <2> QED
    BY <2>1, <2>2, <2>3
<1>8. CallsLetGo
  BY <1>2, <1>3, CallLetGo
<1>9. /\ Doing("loop", a, None, FALSE, None) \in SyncState
      /\ Doing("loop", a, None, FALSE, None).phase = "loop"
  BY <1>3 DEF Doing, SyncState
<1>10. signed' \in Actor \cup {None}
  BY <1>2 DEF CaptureInv, CaptureShape
<1>11. Rests
  BY <1>2, <1>7, DrawnStays DEF Rests
<1> QED
  BY <1>2, <1>7, <1>8, <1>9, <1>10, <1>11, DeviceStep

\* synchronize() takes the oldest claim, so everything that its actor drew
\* earlier has been recorded.
LEMMA OldestClaim ==
    ASSUME CaptureInv, NEW a, NEW w \in NextClaim(a)
    PROVE  /\ w.row \in Captured /\ w.op \in Drawn /\ w.op.actor = a /\ EarlierRecorded(w.op)
           /\ w.evidence \in BOOLEAN /\ (w.evidence => queue[w.row].link # None)
           /\ w.op = IF w.evidence THEN queue[w.row].link ELSE queue[w.row].op
<1>1. w \in Claims(a) /\ \A v \in Claims(a) : w.op.id <= v.op.id
  BY DEF NextClaim
<1>2. \/ \E i \in Captured : /\ w = [row |-> i, op |-> queue[i].op, evidence |-> FALSE]
                             /\ queue[i].op.actor = a
      \/ \E i \in Captured : /\ w = [row |-> i, op |-> queue[i].link, evidence |-> TRUE]
                             /\ queue[i].op.actor = a /\ queue[i].link # None
  BY <1>1 DEF Claims
<1>3. \A i \in Captured : queue[i].link # None => queue[i].link.actor = queue[i].op.actor
  BY DEF CaptureInv, RowsKept
<1>4. /\ w.row \in Captured /\ w.op \in Drawn /\ w.op.actor = a
      /\ w.evidence \in BOOLEAN /\ (w.evidence => queue[w.row].link # None)
      /\ w.op = IF w.evidence THEN queue[w.row].link ELSE queue[w.row].op
  <2>1. CASE \E i \in Captured : /\ w = [row |-> i, op |-> queue[i].op, evidence |-> FALSE]
                                 /\ queue[i].op.actor = a
    BY <2>1 DEF Drawn
  <2>2. CASE \E i \in Captured : /\ w = [row |-> i, op |-> queue[i].link, evidence |-> TRUE]
                                 /\ queue[i].op.actor = a /\ queue[i].link # None
    BY <2>2, <1>3 DEF Drawn
  <2> QED
    BY <1>2, <2>1, <2>2
<1>5. ASSUME NEW q \in Drawn, q.actor = a, q.id < w.op.id PROVE \E x \in records : x.op = q
  <2>0. q.id \in Nat /\ w.op.id \in Nat
    BY <1>4, DrawnTyped DEF CaptureInv, Operation
  <2>1. \A v \in Claims(a) : v.op # q
    BY <1>1, <1>5, <2>0
  <2>2. CASE \E j \in Captured : q = queue[j].op
    <3>1. PICK j \in Captured : q = queue[j].op
      BY <2>2
    <3>2. queue[j].status # "QUEUED"
      <4>1. SUFFICES ASSUME queue[j].status = "QUEUED" PROVE FALSE
        OBVIOUS
      <4>2. [row |-> j, op |-> queue[j].op, evidence |-> FALSE] \in Claims(a)
        BY <3>1, <4>1, <1>5 DEF Claims
      <4> QED
        BY <4>2, <2>1, <3>1
    <3> QED
      BY <3>1, <3>2, RowRecorded
  <2>3. CASE \E j \in Captured : queue[j].link # None /\ q = queue[j].link
    <3>1. PICK j \in Captured : queue[j].link # None /\ q = queue[j].link
      BY <2>3
    <3>2. queue[j].done \/ queue[j].error
      <4>1. SUFFICES ASSUME ~ queue[j].done, ~ queue[j].error PROVE FALSE
        OBVIOUS
      <4>2. queue[j].status = "APPLIED" /\ queue[j].op.actor = a
        BY <3>1, <1>3, <1>5, RowRecorded
      <4>3. [row |-> j, op |-> queue[j].link, evidence |-> TRUE] \in Claims(a)
        BY <3>1, <4>1, <4>2 DEF Claims
      <4> QED
        BY <4>3, <2>1, <3>1
    <3> QED
      BY <3>1, <3>2, RowRecorded
  <2> QED
    BY <2>2, <2>3 DEF Drawn
<1> QED
  BY <1>4, <1>5 DEF EarlierRecorded

\* A request that enters the network.
Sent(op, identity, owner) ==
    [Free EXCEPT !.phase = "sent", !.op = op, !.identity = identity, !.owner = owner]

LEMMA SentCall ==
    ASSUME NEW op \in Operation, NEW a \in Actor, NEW s \in Syncer
    PROVE  /\ Sent(op, a, s) \in CallState /\ Sent(op, a, s).phase = "sent"
           /\ Sent(op, a, s).op = op /\ Sent(op, a, s).identity = a
           /\ Sent(op, a, s).owner = s /\ Sent(op, a, s).flags = {}
BY DEF Sent, Free, CallState

LEMMA SendStep ==
    ASSUME CaptureInv, NEW s \in Syncer, NEW k \in Call, Send(s, k)
    PROVE  CaptureInv'
<1>1. PICK a : a = syncer[s].actor
  OBVIOUS
<1>2. PICK w \in NextClaim(a) : PickClaim(s, k, w) /\ Submit(k, w.op, a, s)
  BY <1>1 DEF Send
<1>3. UNCHANGED <<signed, meta, queue, streams, records, assetVersion, conflicts>>
  BY <1>2 DEF Send, PickClaim
<1>4. /\ w.row \in Captured /\ w.op \in Drawn /\ w.op.actor = a /\ EarlierRecorded(w.op)
      /\ w.evidence \in BOOLEAN /\ (w.evidence => queue[w.row].link # None)
      /\ w.op = IF w.evidence THEN queue[w.row].link ELSE queue[w.row].op
  BY OldestClaim
<1>5. w.op \in Operation /\ a \in Actor /\ w.row \in 1..MaxOrdinal
  BY <1>4, DrawnTyped DEF CaptureInv, Operation, Captured
<1>6. PICK c : c = Sent(w.op, a, s)
  OBVIOUS
<1>7. /\ c \in CallState /\ c.phase = "sent" /\ c.op = w.op /\ c.identity = a /\ c.owner = s
      /\ c.flags = {}
  BY <1>5, <1>6, SentCall
<1>8. calls[k].phase = "free" /\ calls' = [calls EXCEPT ![k] = c]
  BY <1>2, <1>6, Zenon DEF Submit, Sent
<1>9. PICK now : now = Doing("waiting", a, w.row, w.evidence, k)
  OBVIOUS
<1>10. /\ now \in SyncState /\ now.phase = "waiting" /\ now.row = w.row
       /\ (now.evidence <=> w.evidence) /\ now.call = k
  BY <1>4, <1>5, <1>9 DEF Doing, SyncState
<1>11. syncer' = [syncer EXCEPT ![s] = now]
  BY <1>1, <1>2, <1>9 DEF PickClaim
<1>12. /\ syncer' \in [Syncer -> SyncState] /\ syncer'[s] = now
       /\ \A r \in Syncer \ {s} : syncer'[r] = syncer[r]
       /\ calls' \in [Call -> CallState] /\ calls'[k] = c
       /\ \A l \in Call \ {k} : calls'[l] = calls[l]
       /\ signed' \in Actor \cup {None}
  BY <1>3, <1>7, <1>8, <1>10, <1>11 DEF CaptureInv, CaptureShape
<1>13. /\ Captured' = Captured /\ \A d : CallKept(d)' <=> CallKept(d)
       /\ CallsKept' /\ SyncersKept' => CaptureInv'
  BY <1>3, <1>12, StillStep
<1>14. CallsKept'
  <2>1. CallKept(c)
    BY <1>4, <1>7 DEF CallKept
  <2>2. ASSUME NEW l \in Call PROVE CallKept(calls[l])'
    <3>1. PICK d : d = calls'[l]
      OBVIOUS
    <3>2. CallKept(d)
      BY <2>1, <3>1, <1>12 DEF CaptureInv, CallsKept
    <3>3. CallKept(d)'
      BY <3>2, <1>13
    <3> QED
      BY <3>1, <3>3 DEF CallKept
  <2>3. \A i, l \in {d \in Call : calls'[d].phase \in {"locked", "sequenced"}} :
            calls'[i].op.id = calls'[l].op.id => i = l
    BY <1>7, <1>12 DEF CaptureInv, CallsKept
  <2> QED
    BY <2>2, <2>3 DEF CallsKept
<1>15. SyncersKept'
  BY <1>3, <1>4, <1>7, <1>10, <1>12, <1>13 DEF CaptureInv, SyncersKept
<1> QED
  BY <1>13, <1>14, <1>15

\* An operation is drawn: it comes after all that were drawn, so nothing that
\* waits for its predecessors waits for it.
LEMMA DrawStep ==
    ASSUME CaptureInv, NEW a \in Actor, CanAllocate(a), meta' = Allocated(a), NEW p \in Operation,
           p.id = Allocated(a).ordinal, p.actor = a,
           p.epoch = Allocated(a).epoch, p.seq = Allocated(a).seq, Drawn' = Drawn \cup {p},
           queue' \in [1..MaxOrdinal -> QueueRow \cup {None}], syncer' \in [Syncer -> SyncState],
           UNCHANGED signed, UNCHANGED serverVars,
           RowsKept', SyncersKept', DeviceAgreesWithServer'
    PROVE  CaptureInv' /\ Draws(p)
<1>1. UNCHANGED <<calls, streams, records, assetVersion, conflicts>>
  BY DEF serverVars
<1>2. meta \in Meta /\ Sequenced(Drawn, meta) /\ Drawn \subseteq Operation
  BY DrawnTyped DEF CaptureInv, CaptureShape
<1>3. Allocated(a) \in Meta /\ (\A q \in Drawn : q.id < p.id) /\ Sequenced(Drawn \cup {p}, Allocated(a))
  BY <1>2, AllocateStep
<1>4. CaptureShape'
  BY <1>1, <1>3 DEF CaptureInv, CaptureShape
<1>5. Sequenced(Drawn, meta)'
  BY <1>3 DEF Sequenced
<1>6. \A q \in Drawn : EarlierRecorded(q) => EarlierRecorded(q)'
  <2>1. \A q \in Drawn : q.id \in Nat /\ p.id \in Nat
    BY <1>2 DEF Operation
  <2>2. \A q \in Drawn : ~ (p.id < q.id)
    BY <1>3, <2>1
  <2> QED
    BY <1>1, <2>2 DEF EarlierRecorded
<1>7. RecordsKept'
  BY <1>1, <1>6 DEF CaptureInv, RecordsKept
<1>8. StreamsKept'
  BY <1>1 DEF CaptureInv, StreamsKept
<1>9. \A id : Original(id)' = Original(id)
  BY <1>1 DEF Original
<1>10. \A answer, op : Says(answer, op)' <=> Says(answer, op)
  BY <1>1 DEF Says, Rejected
<1>11. ASSUME NEW k \in Call PROVE CallKept(calls[k])'
  <2>1. PICK c : c = calls[k] /\ c = calls'[k]
    BY <1>1
  <2>2. CallKept(c)
    BY <2>1 DEF CaptureInv, CallsKept
  <2>3. CallKept(c)'
    BY <2>2, <1>6, <1>9, <1>10 DEF CallKept, Terminal
  <2> QED
    BY <2>1, <2>3 DEF CallKept
<1>12. CallsKept'
  BY <1>1, <1>11 DEF CaptureInv, CallsKept
<1>13. Draws(p)
  <2>1. p.id \in 1..MaxOrdinal
    BY <1>2, AllocateStep
  <2> QED
    BY <2>1, <1>1, <1>3 DEF Draws
<1> QED
  BY <1>4, <1>5, <1>7, <1>8, <1>12, <1>13 DEF CaptureInv

\* What allocate() leaves behind.
LEMMA AllocatedRecord ==
    ASSUME CaptureInv, NEW a \in Actor, CanAllocate(a)
    PROVE  /\ Allocated(a) \in Meta /\ Allocated(a).scope = a
           /\ Allocated(a).ordinal = meta.ordinal + 1
           /\ Allocated(a).epoch \in 1..MaxEpoch /\ Allocated(a).ordinal \in 1..MaxOrdinal
           /\ queue[Allocated(a).ordinal] = None
<1> DEFINE m == Allocated(a)
<1> DEFINE p == [id |-> m.ordinal, actor |-> a, epoch |-> m.epoch, seq |-> m.seq]
<1>1. meta \in Meta /\ Sequenced(Drawn, meta) /\ Drawn \in SUBSET Operation
  BY DrawnTyped DEF CaptureInv, CaptureShape
<1>2. p.id = m.ordinal /\ p.actor = a /\ p.epoch = m.epoch /\ p.seq = m.seq
  OBVIOUS
<1> HIDE DEF p
<1>3. /\ m \in Meta /\ p.id \in 1..MaxOrdinal /\ p.epoch \in 1..MaxEpoch
      /\ \A q \in Drawn : q.id < p.id
  BY <1>1, <1>2, AllocateStep
<1>4. m.scope = a /\ m.ordinal = meta.ordinal + 1
  BY DEF Allocated
<1>5. queue[m.ordinal] = None
  <2> SUFFICES ASSUME queue[m.ordinal] # None PROVE FALSE
    OBVIOUS
  <2>1. m.ordinal \in Captured
    BY <1>2, <1>3 DEF Captured
  <2>2. queue[m.ordinal].op \in Drawn /\ queue[m.ordinal].op.id = m.ordinal
    BY <2>1 DEF Drawn, CaptureInv, RowsKept
  <2> QED
    BY <2>2, <1>2, <1>3
<1> QED
  BY <1>2, <1>3, <1>4, <1>5

\* A new row of the queue.
NewRow(p, photo) ==
    [op |-> p, photo |-> photo, status |-> "QUEUED", attachment |-> FALSE, link |-> None,
     done |-> FALSE, error |-> FALSE]

LEMMA NewRowTyped ==
    ASSUME NEW p \in Operation, NEW photo \in BOOLEAN
    PROVE  /\ NewRow(p, photo) \in QueueRow /\ NewRow(p, photo).op = p
           /\ NewRow(p, photo).status = "QUEUED" /\ NewRow(p, photo).link = None
           /\ ~ NewRow(p, photo).done /\ ~ NewRow(p, photo).error
BY DEF NewRow, QueueRow

LEMMA EnqueueStep ==
    ASSUME CaptureInv, NEW kind \in {"asset", "scan"}, NEW expected \in Nat \cup {None},
           kind = "asset" => expected \in Nat, NEW photo \in BOOLEAN,
           Enqueue(kind, expected, photo), UNCHANGED serverVars
    PROVE  CaptureInv' /\ \E p : Draws(p) /\ p.row = p.id
<1>0. UNCHANGED <<calls, streams, records, assetVersion, conflicts, signed, syncer>>
  BY DEF serverVars, Enqueue
<1>1. PICK a : a = signed
  OBVIOUS
<1>2. a \in Actor /\ CanAllocate(a) /\ meta' = Allocated(a)
  BY <1>1 DEF Enqueue, CaptureInv, CaptureShape
<1>3. PICK m : m = Allocated(a)
  OBVIOUS
<1>4. /\ m \in Meta /\ m.scope = a /\ m.epoch \in 1..MaxEpoch /\ m.ordinal \in 1..MaxOrdinal
      /\ queue[m.ordinal] = None
  BY <1>2, <1>3, AllocatedRecord
<1>5. PICK n : n = m.ordinal
  OBVIOUS
<1>6. PICK p : p = Envelope(m, kind, n, expected)
  OBVIOUS
<1>7. /\ p \in Operation /\ p.id = n /\ p.actor = a /\ p.epoch = m.epoch /\ p.seq = m.seq
      /\ p.kind = kind /\ p.row = n /\ p.expected = expected
  <2>1. n \in Nat /\ m.ordinal = n /\ m.seq \in Nat
    BY <1>4, <1>5, ClientAssumption DEF Meta
  <2> QED
    BY <2>1, <1>2, <1>4, <1>6 DEF Envelope, Operation
<1>8. PICK r : r = NewRow(p, photo)
  OBVIOUS
<1>9. /\ r \in QueueRow /\ r.op = p /\ r.status = "QUEUED" /\ r.link = None /\ ~ r.done /\ ~ r.error
  BY <1>7, <1>8, NewRowTyped
<1>10. queue' = [queue EXCEPT ![n] = r]
  BY <1>2, <1>3, <1>5, <1>6, <1>8, Zenon DEF Enqueue, NewRow
<1>11. /\ queue' \in [1..MaxOrdinal -> QueueRow \cup {None}] /\ queue'[n] = r /\ r # None
       /\ \A j \in 1..MaxOrdinal : j # n => queue'[j] = queue[j]
  BY <1>4, <1>5, <1>9, <1>10, ClientAssumption DEF CaptureInv, CaptureShape
<1>12. /\ Captured' = Captured \cup {n} /\ n \notin Captured
       /\ \A j \in Captured : queue'[j] = queue[j]
  BY <1>4, <1>5, <1>11 DEF Captured
<1>13. Drawn' = Drawn \cup {p}
  BY <1>9, <1>11, <1>12 DEF Drawn
<1>14. RowsKept'
  BY <1>7, <1>9, <1>11, <1>12 DEF CaptureInv, RowsKept
<1>15. DeviceAgreesWithServer'
  BY <1>0, <1>9, <1>11, <1>12 DEF CaptureInv, DeviceAgreesWithServer
<1>16. SyncersKept'
  BY <1>0, <1>12 DEF CaptureInv, SyncersKept
<1>17. syncer' \in [Syncer -> SyncState]
  BY <1>0 DEF CaptureInv, CaptureShape
<1> QED
  BY <1>0, <1>7, <1>2, <1>3, <1>5, <1>7, <1>11, <1>13, <1>14, <1>15, <1>16, <1>17, DrawStep

LEMMA EvidenceOperationStep ==
    ASSUME CaptureInv, NEW s \in Syncer, EvidenceOperation(s), UNCHANGED serverVars
    PROVE  /\ CaptureInv'
           /\ \/ Rests
              \/ \E p, i : /\ Draws(p) /\ p.row = i /\ i \in Captured /\ p.actor = queue[i].op.actor
                            /\ queue[i].status = "APPLIED" /\ queue[i].link = None
<1>0. UNCHANGED <<calls, streams, records, assetVersion, conflicts, signed>>
  BY DEF serverVars, EvidenceOperation
<1>1. PICK i, b : i = syncer[s].row /\ b = syncer[s].actor
  OBVIOUS
<1>2. i \in Captured /\ i \in 1..MaxOrdinal /\ queue[i].status = "APPLIED" /\ b \in Actor \cup {None}
  BY <1>1 DEF EvidenceOperation, CaptureInv, CaptureShape, SyncersKept, SyncState, Captured
<1>3. queue[i] \in QueueRow /\ queue[i].op \in Operation /\ queue[i].op.actor \in Actor
  BY <1>2 DEF CaptureInv, CaptureShape, Captured, QueueRow, Operation
<1>4. PICK now : now = Doing("loop", b, None, FALSE, None)
  OBVIOUS
<1>5. now \in SyncState /\ now.phase = "loop"
  BY <1>2, <1>4 DEF Doing, SyncState
<1>6. syncer' = [syncer EXCEPT ![s] = now]
  BY <1>1, <1>4, Zenon DEF EvidenceOperation
<1>7. CASE LinkDrawn(i)
  <2>1. UNCHANGED <<meta, queue>> /\ signed' \in Actor \cup {None}
    BY <1>0, <1>1, <1>7 DEF EvidenceOperation, CaptureInv, CaptureShape
  <2>2. Rests
    BY <1>0, <2>1 DEF Rests, Drawn, Captured
  <2> QED
    BY <1>5, <1>6, <2>1, <2>2, RunStep
<1>8. CASE ~ LinkDrawn(i)
  <2>1. PICK a : a = queue[i].op.actor
    OBVIOUS
  <2>2. a \in Actor /\ CanAllocate(a) /\ meta' = Allocated(a) /\ queue[i].link = None
    BY <1>1, <1>3, <1>8, <2>1 DEF EvidenceOperation, LinkDrawn
  <2>3. PICK m : m = Allocated(a)
    OBVIOUS
  <2>4. m \in Meta /\ m.scope = a /\ m.epoch \in 1..MaxEpoch
    BY <2>2, <2>3, AllocatedRecord
  <2>5. PICK p : p = Envelope(m, "link", i, None)
    OBVIOUS
  <2>6. /\ p \in Operation /\ p.id = m.ordinal /\ p.actor = a /\ p.epoch = m.epoch /\ p.seq = m.seq
        /\ p.kind = "link" /\ p.row = i
    <3>1. i \in Nat /\ m.ordinal \in Nat /\ m.seq \in Nat
      BY <1>2, <2>4, ClientAssumption DEF Meta
    <3> QED
      BY <3>1, <2>2, <2>4, <2>5 DEF Envelope, Operation
  <2>7. PICK r : r = LinkedBy(queue[i], p)
    OBVIOUS
  <2>8. /\ r \in QueueRow /\ r.op = queue[i].op /\ r.status = queue[i].status /\ r.link = p
        /\ (r.done <=> queue[i].done) /\ (r.error <=> queue[i].error)
    BY <1>3, <2>6, <2>7, RowWrites
  <2>9. queue' = [queue EXCEPT ![i] = r]
    BY <1>1, <1>8, <2>1, <2>2, <2>3, <2>5, <2>7, Zenon DEF EvidenceOperation, LinkedBy
  <2>10. r # None /\ p # None
    BY <2>6, <2>8, ClientAssumption, OperationAssumption
  <2>11. /\ queue' \in [1..MaxOrdinal -> QueueRow \cup {None}] /\ queue'[i] = r
         /\ \A j \in 1..MaxOrdinal : j # i => queue'[j] = queue[j]
    BY <1>2, <2>8, <2>9 DEF CaptureInv, CaptureShape
  <2>12. Captured' = Captured /\ \A j \in Captured \ {i} : queue'[j] = queue[j]
    BY <1>2, <2>10, <2>11 DEF Captured
  <2>13. Drawn' = Drawn \cup {p}
    <3>1. {queue'[j].op : j \in Captured} = {queue[j].op : j \in Captured}
      BY <2>8, <2>11, <2>12
    <3>2. {queue'[j].link : j \in {l \in Captured : queue'[l].link # None}}
          = {queue[j].link : j \in {l \in Captured : queue[l].link # None}} \cup {p}
      BY <1>2, <2>2, <2>8, <2>10, <2>11, <2>12
    <3> QED
      BY <2>12, <3>1, <3>2 DEF Drawn
  <2>14. RowsKept'
    <3>1. \A j \in Captured :
              /\ queue'[j].op = queue[j].op
              /\ j # i => queue'[j] = queue[j]
              /\ queue'[i].status = "APPLIED" /\ queue'[i].link = p
      BY <1>2, <2>8, <2>11, <2>12
    <3> QED
      BY <3>1, <1>2, <2>1, <2>6, <2>10, <2>12 DEF CaptureInv, RowsKept
  <2>15. ~ queue[i].done /\ ~ queue[i].error
    BY <1>2, <2>2, RowRecorded
  <2>16. DeviceAgreesWithServer'
    <3>1. records' = records /\ DeviceAgreesWithServer
      BY <1>0 DEF CaptureInv
    <3>2. /\ queue'[i].op = queue[i].op /\ queue'[i].status = queue[i].status
          /\ ~ queue'[i].done /\ ~ queue'[i].error
      BY <2>8, <2>11, <2>15
    <3>3. \A j \in Captured : j # i => queue'[j] = queue[j]
      BY <2>12
    <3> QED
      BY ONLY <3>1, <3>2, <3>3, <1>2, <2>12 DEF DeviceAgreesWithServer
  <2>17. /\ syncer' \in [Syncer -> SyncState] /\ syncer'[s] = now
         /\ \A t \in Syncer \ {s} : syncer'[t] = syncer[t]
    BY <1>5, <1>6 DEF CaptureInv, CaptureShape
  <2>18. SyncersKept'
    BY <1>0, <1>5, <2>2, <2>8, <2>10, <2>11, <2>12, <2>17 DEF CaptureInv, SyncersKept
  <2>19. CaptureInv' /\ Draws(p)
    BY <1>0, <2>2, <2>3, <2>6, <2>11, <2>13, <2>14, <2>16, <2>17, <2>18, DrawStep
  <2> QED
    BY <2>19, <1>2, <2>1, <2>2, <2>6
<1> QED
  BY <1>7, <1>8

\* The operator starts another epoch.
LEMMA ResetEpochStep ==
    ASSUME CaptureInv, ResetEpoch, UNCHANGED serverVars
    PROVE  CaptureInv'
<1>1. UNCHANGED <<calls, streams, records, assetVersion, conflicts, signed, queue, syncer>>
  BY DEF serverVars, ResetEpoch
<1>2. /\ meta' = [scope |-> signed, epoch |-> meta.epoch + 1, seq |-> 0, ordinal |-> meta.ordinal]
      /\ meta.epoch < MaxEpoch /\ meta \in Meta /\ signed \in Actor \cup {None}
  BY DEF ResetEpoch, CaptureInv, CaptureShape
<1>3. MaxEpoch \in Nat /\ MaxOrdinal \in Nat /\ MaxSeq \in Nat
  BY OperationAssumption, ClientAssumption
<1>4. /\ meta' \in Meta /\ meta'.epoch = meta.epoch + 1 /\ meta'.seq = 0
      /\ meta'.ordinal = meta.ordinal /\ meta.epoch \in Nat
  BY <1>2, <1>3 DEF Meta
<1>5. Captured' = Captured
  BY <1>1 DEF Captured
<1>6. Drawn' = Drawn /\ Drawn \subseteq Operation
  BY <1>1, <1>5, DrawnTyped DEF Drawn, CaptureInv
<1>7. Sequenced(Drawn, meta)'
  <2>1. \A q \in Drawn : q.epoch \in Nat /\ q.epoch <= meta.epoch
    BY <1>3, <1>6 DEF CaptureInv, Sequenced, Operation
  <2>2. Sequenced(Drawn, meta')
    BY <2>1, <1>4 DEF CaptureInv, Sequenced
  <2> QED
    BY <2>2, <1>6 DEF Sequenced
<1>8. CaptureShape'
  BY <1>1, <1>4 DEF CaptureInv, CaptureShape
<1>9. \A p : EarlierRecorded(p)' <=> EarlierRecorded(p)
  BY <1>1, <1>6 DEF EarlierRecorded
<1>10. RowsKept' /\ StreamsKept' /\ SyncersKept' /\ DeviceAgreesWithServer'
  BY <1>1, <1>5 DEF CaptureInv, RowsKept, StreamsKept, SyncersKept, DeviceAgreesWithServer
<1>11. CallsKept'
  BY <1>1, <1>6, <1>9 DEF CaptureInv, CallsKept, CallKept, Terminal, Says, Rejected, Original
<1>12. RecordsKept'
  BY <1>1, <1>6, <1>9 DEF CaptureInv, RecordsKept
<1> QED
  BY <1>7, <1>8, <1>10, <1>11, <1>12 DEF CaptureInv

-----------------------------------------------------------------------------
(***************************************************************************)
(* The theorems.                                                           *)
(***************************************************************************)

\* A step in which the device draws nothing and the server records nothing.
LEMMA RestingStep ==
    ASSUME UNCHANGED <<queue, records>>
    PROVE  Rests
BY DEF Rests, Drawn, Captured

LEMMA CaptureInitial == Init => CaptureInv
<1> SUFFICES ASSUME Init PROVE CaptureInv
  OBVIOUS
<1>1. /\ signed = None /\ meta = [scope |-> None, epoch |-> 0, seq |-> 0, ordinal |-> 0]
      /\ queue = [i \in 1..MaxOrdinal |-> None] /\ syncer = [s \in Syncer |-> Idle]
      /\ calls = [k \in Call |-> Free]
      /\ streams = [e \in 1..MaxEpoch |-> [actor |-> None, last |-> 0]]
      /\ records = {} /\ assetVersion = 1 /\ conflicts = {}
  BY DEF Init, ClientInit, ServerInit
<1>2. Captured = {}
  BY <1>1 DEF Captured
<1>3. Drawn = {}
  BY <1>2 DEF Drawn
<1>4. CaptureShape
  <2>1. meta \in Meta
    BY <1>1, OperationAssumption, ClientAssumption DEF Meta
  <2>2. syncer \in [Syncer -> SyncState] /\ calls \in [Call -> CallState]
    BY <1>1, IdleTyped, FreeCall
  <2> QED
    BY <1>1, <2>1, <2>2, ServerAssumption DEF CaptureShape
<1>5. Sequenced(Drawn, meta)
  BY <1>1, <1>3 DEF Sequenced
<1>6. RowsKept /\ RecordsKept /\ DeviceAgreesWithServer
  BY <1>1, <1>2 DEF RowsKept, RecordsKept, DeviceAgreesWithServer
<1>7. StreamsKept
  BY <1>1 DEF StreamsKept
<1>8. CallsKept
  BY <1>1, FreeCall DEF CallsKept, CallKept
<1>9. SyncersKept
  BY <1>1, IdleTyped DEF SyncersKept
<1> QED
  BY <1>4, <1>5, <1>6, <1>7, <1>8, <1>9 DEF CaptureInv

\* What every step keeps, and what it does to the log.
LogStep ==
    \/ Rests
    \/ \E p : Draws(p) /\ p.row = p.id
    \/ \E p, i : /\ Draws(p) /\ p.row = i /\ i \in Captured /\ p.actor = queue[i].op.actor
                 /\ queue[i].status = "APPLIED" /\ queue[i].link = None
    \/ \E x : Records(x)

LEMMA CaptureStep ==
    ASSUME CaptureInv, [Next]_vars
    PROVE  CaptureInv' /\ LogStep
<1>1. CASE UNCHANGED vars
  <2>1. /\ signed' \in Actor \cup {None} /\ UNCHANGED <<meta, queue, syncer>> /\ UNCHANGED serverVars
        /\ UNCHANGED records
    BY <1>1 DEF vars, serverVars, CaptureInv, CaptureShape
  <2> QED
    BY <2>1, RestStep, RestingStep DEF LogStep
<1>2. CASE ServerNext /\ UNCHANGED clientVars
  <2>0. UNCHANGED queue
    BY <1>2 DEF clientVars
  <2>1. CASE OtherOperation
    <3>1. UNCHANGED records
      BY <2>1 DEF OtherOperation
    <3> QED
      BY <1>2, <2>0, <2>1, <3>1, OtherOperationStep, RestingStep DEF LogStep
  <2>2. ASSUME NEW k \in Call, Record(k) PROVE CaptureInv' /\ LogStep
    BY <1>2, <2>2, RecordStep DEF LogStep
  <2>3. ASSUME NEW k \in Call, \/ Unauthorize(k) \/ AnswerDuplicate(k) \/ LockOperation(k)
                               \/ Sequence(k) \/ Abort(k) \/ Drop(k)
        PROVE  CaptureInv' /\ LogStep
    <3>1. UNCHANGED records
      BY <2>3 DEF Unauthorize, AnswerDuplicate, LockOperation, Sequence, Abort, Drop
    <3> QED
      BY <1>2, <2>0, <2>3, <3>1, ServeStep, RestingStep DEF LogStep
  <2> QED
    BY <1>2, <2>1, <2>2, <2>3 DEF ServerNext
<1>3. ASSUME NEW v \in 1..assetVersion, CaptureAsset(v) PROVE CaptureInv' /\ LogStep
  <2>1. v \in Nat
    OBVIOUS
  <2>2. Enqueue("asset", v, FALSE) /\ UNCHANGED serverVars
    BY <1>3 DEF CaptureAsset
  <2> QED
    BY <2>1, <2>2, EnqueueStep DEF LogStep
<1>4. ASSUME NEW photo \in BOOLEAN, CaptureScan(photo) PROVE CaptureInv' /\ LogStep
  <2>2. Enqueue("scan", None, photo) /\ UNCHANGED serverVars
    BY <1>4 DEF CaptureScan
  <2> QED
    BY <2>2, EnqueueStep DEF LogStep
<1>5. ASSUME NEW s \in Syncer, NEW k \in Call, Send(s, k) PROVE CaptureInv' /\ LogStep
  <2>1. UNCHANGED <<queue, records>>
    BY <1>5 DEF Send, PickClaim
  <2> QED
    BY <1>5, <2>1, SendStep, RestingStep DEF LogStep
<1>6. ASSUME NEW s \in Syncer, GetAnswer(s) PROVE CaptureInv' /\ LogStep
  BY <1>6, GetAnswerStep DEF LogStep
<1>7. ASSUME NEW s \in Syncer, GetUnauthorized(s) \/ GiveUp(s) \/ Die(s) PROVE CaptureInv' /\ LogStep
  <2>1. UNCHANGED <<queue, records>>
    BY <1>7 DEF GetUnauthorized, AuthRequired, GiveUp, Fail, Die, Crash
  <2> QED
    BY <1>7, <2>1, StopStep, RestingStep DEF LogStep
<1>8. CASE ResetEpoch /\ UNCHANGED serverVars
  <2>1. UNCHANGED <<queue, records>>
    BY <1>8 DEF ResetEpoch, serverVars
  <2> QED
    BY <1>8, <2>1, ResetEpochStep, RestingStep DEF LogStep
<1>9. CASE /\ UNCHANGED serverVars
           /\ \/ SignOut \/ \E a \in Actor : SignIn(a) \/ LeaseExpires(a)
              \/ \E s \in Syncer : StartSync(s) \/ PickPhoto(s) \/ Finish(s)
  <2>1. UNCHANGED <<queue, records>>
    BY <1>9 DEF SignOut, SignIn, LeaseExpires, StartSync, PickPhoto, Finish, serverVars
  <2> QED
    BY <1>9, <2>1, QuietStep, RestingStep DEF LogStep
<1>10. ASSUME NEW s \in Syncer, Uploaded(s), UNCHANGED serverVars PROVE CaptureInv' /\ LogStep
  BY <1>10, UploadedStep DEF LogStep
<1>11. ASSUME NEW s \in Syncer, EvidenceOperation(s), UNCHANGED serverVars
       PROVE  CaptureInv' /\ LogStep
  BY <1>11, EvidenceOperationStep DEF LogStep
<1>12. CASE ClientStep
  BY <1>12, <1>3, <1>4, <1>5, <1>6, <1>7, <1>8, <1>9, <1>10, <1>11 DEF ClientStep
<1> QED
  BY <1>1, <1>2, <1>12 DEF Next

\* The invariant that everything else follows from.
THEOREM CaptureInductive == Spec => []CaptureInv
<1>1. CaptureInv /\ [Next]_vars => CaptureInv'
  BY CaptureStep
<1> QED
  BY CaptureInitial, <1>1, PTL DEF Spec

\* Stores and calls hold what their schemas say, for any device and any server.
THEOREM CaptureTypeOKProven == Spec => []CaptureTypeOK
<1>1. CaptureInv => CaptureTypeOK
  <2> SUFFICES ASSUME CaptureInv PROVE CaptureTypeOK
    OBVIOUS
  <2>1. /\ meta.epoch \in 0..MaxEpoch /\ meta.seq \in 0..MaxSeq /\ meta.ordinal \in 0..MaxOrdinal
    BY DEF CaptureInv, CaptureShape, Meta
  <2>2. ASSUME NEW i \in Captured
        PROVE  /\ queue[i].op.id = i /\ queue[i].status \in {"QUEUED", "APPLIED", "REJECTED"}
               /\ queue[i].op.seq \in 1..MaxSeq /\ queue[i].op.epoch \in 1..MaxEpoch
    <3>1. queue[i] \in QueueRow /\ queue[i].op \in Drawn
      BY DEF CaptureInv, CaptureShape, Captured, Drawn
    <3>2. queue[i].op \in Operation /\ queue[i].status \in {"QUEUED", "APPLIED", "REJECTED"}
      BY <3>1 DEF QueueRow
    <3> QED
      BY <3>1, <3>2 DEF CaptureInv, RowsKept, Sequenced, Operation
  <2>3. \A k \in Call : calls[k].phase \in {"free", "sent", "locked", "sequenced", "answered"}
    BY DEF CaptureInv, CaptureShape, CallState
  <2> QED
    BY <2>1, <2>2, <2>3 DEF CaptureInv, CaptureShape, CaptureTypeOK
<1> QED
  BY CaptureInductive, <1>1, PTL

\* What the device shows the operator is what the server recorded: synchronize()
\* never shows an outcome that was not recorded, whatever was lost or retried.
THEOREM DeviceAgreesWithServerProven == Spec => []DeviceAgreesWithServer
<1>1. CaptureInv => DeviceAgreesWithServer
  BY DEF CaptureInv
<1> QED
  BY CaptureInductive, <1>1, PTL

\* _sequence never flags a device that keeps its store, nor refuses one of its
\* actors the epoch that allocate() drew for it.
THEOREM HonestDeviceNeverFlaggedProven == Spec => []HonestDeviceNeverFlagged
<1>1. CaptureInv => HonestDeviceNeverFlagged
  <2> SUFFICES ASSUME CaptureInv PROVE HonestDeviceNeverFlagged
    OBVIOUS
  <2>1. \A x \in records : x.flags = {}
    BY DEF CaptureInv, RecordsKept
  <2>2. ASSUME NEW p \in Drawn, streams[p.epoch].actor # None PROVE streams[p.epoch].actor = p.actor
    <3>1. p.epoch \in 1..MaxEpoch
      BY DrawnTyped DEF CaptureInv, Operation
    <3>2. PICK x \in records : x.op.epoch = p.epoch
      BY <2>2, <3>1 DEF CaptureInv, StreamsKept
    <3>3. x.actor = streams[p.epoch].actor /\ x.actor = x.op.actor /\ x.op \in Drawn
      BY <3>1, <3>2 DEF CaptureInv, StreamsKept, RecordsKept
    <3> QED
      BY <3>2, <3>3 DEF CaptureInv, Sequenced
  <2> QED
    BY <2>1, <2>2 DEF HonestDeviceNeverFlagged
<1> QED
  BY CaptureInductive, <1>1, PTL

\* D12 for any number of actors, captures and retries: of the captures made on
\* one version of the Asset at most one applies, and a conflict never does.
THEOREM NeverRebasedProven == Spec => []NeverRebased
<1>1. CaptureInv => NeverRebased
  <2> SUFFICES ASSUME CaptureInv PROVE NeverRebased
    OBVIOUS
  <2>1. ASSUME NEW x \in records, x.op.id \in conflicts PROVE x.state = "REJECTED"
    BY <2>1 DEF CaptureInv, RecordsKept
  <2> QED
    BY <2>1 DEF CaptureInv, RecordsKept, NeverRebased
<1> QED
  BY CaptureInductive, <1>1, PTL

\* The log that the promise speaks of.
LogCaptured == {[id |-> op.id, actor |-> op.actor, row |-> op.row] : op \in Drawn}
LogDecided == {[id |-> x.op.id, actor |-> x.op.actor, state |-> x.state] : x \in records}

LEMMA CaptureRefines ==
    ASSUME CaptureInv, LogStep
    PROVE  [Log!LogNext]_(Log!logVars)
<1>1. Drawn \subseteq Operation
  BY DrawnTyped DEF CaptureInv
<1>2. CASE Rests
  <2>1. LogCaptured' = LogCaptured /\ LogDecided' = LogDecided
    BY <1>2 DEF Rests, LogCaptured, LogDecided
  <2> QED
    BY <2>1 DEF Log!logVars, LogCaptured, LogDecided
<1>3. ASSUME NEW p, Draws(p)
      PROVE  /\ p.id \in 1..MaxOrdinal /\ p.actor \in Actor /\ \A y \in LogCaptured : y.id < p.id
             /\ LogCaptured' = LogCaptured \cup {[id |-> p.id, actor |-> p.actor, row |-> p.row]}
             /\ LogDecided' = LogDecided
  <2>1. p.id \in 1..MaxOrdinal /\ p.actor \in Actor /\ \A q \in Drawn : q.id < p.id
    BY <1>3 DEF Draws
  <2>2. LogCaptured' = LogCaptured \cup {[id |-> p.id, actor |-> p.actor, row |-> p.row]}
    BY <1>3 DEF Draws, LogCaptured
  <2>3. LogDecided' = LogDecided
    BY <1>3 DEF Draws, LogDecided
  <2> QED
    BY <2>1, <2>2, <2>3 DEF LogCaptured
<1>4. ASSUME NEW p, Draws(p), p.row = p.id PROVE Log!LogNext
  <2>1. Log!Capture(p.id, p.actor)
    BY <1>3, <1>4 DEF Log!Capture, Log!Fresh, LogCaptured, LogDecided
  <2> QED
    BY <2>1, <1>3, <1>4 DEF Log!LogNext
<1>5. ASSUME NEW p, NEW i \in Captured, Draws(p), p.row = i, p.actor = queue[i].op.actor,
             queue[i].status = "APPLIED", queue[i].link = None
      PROVE  Log!LogNext
  <2>1. PICK x : x = [id |-> queue[i].op.id, actor |-> queue[i].op.actor, row |-> queue[i].op.row]
    OBVIOUS
  <2>2. x \in LogCaptured /\ x.row = x.id /\ x.id = i /\ x.actor = p.actor
    <3>1. queue[i].op \in Drawn
      BY DEF Drawn
    <3> QED
      BY <3>1, <2>1, <1>5 DEF LogCaptured, CaptureInv, RowsKept
  <2>3. \E d \in LogDecided : d.id = x.id /\ d.state = "APPLIED"
    <3>1. PICK z \in records : z.op = queue[i].op /\ z.state = "APPLIED"
      BY <1>5, RowRecorded
    <3>2. [id |-> z.op.id, actor |-> z.op.actor, state |-> z.state] \in LogDecided
      BY DEF LogDecided
    <3> QED
      BY <3>1, <3>2, <2>1
  <2>4. \A y \in LogCaptured : y.row = x.row => y = x
    <3>1. ASSUME NEW q \in Drawn, q.row = i PROVE q = queue[i].op
      <4>1. \/ \E j \in Captured : q = queue[j].op
            \/ \E j \in Captured : queue[j].link # None /\ q = queue[j].link
        BY DEF Drawn
      <4> QED
        BY <4>1, <3>1, <1>5 DEF CaptureInv, RowsKept
    <3> QED
      BY <3>1, <2>1, <2>2 DEF LogCaptured
  <2>5. LogCaptured' = LogCaptured \cup {[id |-> p.id, actor |-> x.actor, row |-> x.id]}
    BY <1>3, <1>5, <2>2
  <2>6. Log!Link(p.id, x)
    BY <1>3, <1>5, <2>2, <2>3, <2>4, <2>5 DEF Log!Link, Log!Fresh, LogCaptured, LogDecided
  <2> QED
    BY <2>2, <2>6, <1>3, <1>5 DEF Log!LogNext, LogCaptured
<1>6. ASSUME NEW r, Records(r) PROVE Log!LogNext
  <2>1. PICK x : x = [id |-> r.op.id, actor |-> r.op.actor, row |-> r.op.row]
    OBVIOUS
  <2>2. x \in LogCaptured /\ x.id = r.op.id /\ x.actor = r.op.actor
    BY <1>6, <2>1 DEF Records, LogCaptured
  <2>3. \A d \in LogDecided : d.id # x.id
    BY <1>6, <2>2 DEF Records, Original, LogDecided
  <2>4. \A y \in LogCaptured : y.actor = x.actor /\ y.id < x.id => \E d \in LogDecided : d.id = y.id
    <3>1. ASSUME NEW q \in Drawn, q.actor = r.op.actor, q.id < r.op.id
          PROVE  \E d \in LogDecided : d.id = q.id
      <4>1. PICK z \in records : z.op = q
        BY <1>6, <3>1 DEF Records, EarlierRecorded
      <4>2. [id |-> z.op.id, actor |-> z.op.actor, state |-> z.state] \in LogDecided
        BY DEF LogDecided
      <4> QED
        BY <4>1, <4>2
    <3> QED
      BY <3>1, <2>2 DEF LogCaptured
  <2>5. LogDecided' = LogDecided \cup {[id |-> x.id, actor |-> x.actor, state |-> r.state]}
    BY <1>6, <2>2 DEF Records, LogDecided
  <2>6. LogCaptured' = LogCaptured
    BY <1>6 DEF Records, LogCaptured
  <2>7. Log!Decide(x, r.state)
    BY <2>2, <2>3, <2>4, <2>5, <2>6 DEF Log!Decide, LogCaptured, LogDecided
  <2> QED
    BY <1>6, <2>2, <2>7 DEF Records, Log!LogNext, LogCaptured
<1> QED
  BY <1>2, <1>4, <1>5, <1>6 DEF LogStep

\* Offline capture is the log that D11 and D12 promise: every operation is
\* decided at most once and for good, those of one actor in the order of their
\* capture, and a photo is linked once, after its capture applied.
THEOREM ImplementsLogProven == Spec => ImplementsLog
<1>1. Init => Log!LogInit
  <2> SUFFICES ASSUME Init PROVE Log!LogInit
    OBVIOUS
  <2>1. Captured = {} /\ records = {}
    BY DEF Init, ClientInit, ServerInit, Captured
  <2> QED
    BY <2>1 DEF Log!LogInit, Drawn
<1>2. CaptureInv /\ [Next]_vars => [Log!LogNext]_(Log!logVars)
  BY CaptureStep, CaptureRefines
<1> QED
  BY <1>1, <1>2, CaptureInductive, PTL DEF Spec, ImplementsLog, Log!LogSpec
=============================================================================
