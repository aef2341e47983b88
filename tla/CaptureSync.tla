----------------------------- MODULE CaptureSync -----------------------------
(***************************************************************************)
(* The capture client and the capture server, joined by calls that may be  *)
(* lost, delayed, abandoned and retried.                                   *)
(***************************************************************************)
EXTENDS CaptureServer, CaptureClient

CONSTANT Kinds   \* the captures of this instance: "asset", "scan", "photo"

ASSUME KindsAssumption == Kinds \subseteq {"asset", "scan", "photo"}

vars == <<signed, meta, queue, lease, syncer, calls, streams, records, assetVersion, conflicts>>

\* The device captures an Asset operation on a version it has once read, or a
\* receipt scan, with or without a photo.
CaptureAsset(v) == Enqueue("asset", v, FALSE) /\ UNCHANGED serverVars

CaptureScan(photo) == Enqueue("scan", None, photo) /\ UNCHANGED serverVars

Send(s, k) ==
    /\ \E w \in NextClaim(syncer[s].actor) :
          PickClaim(s, k, w) /\ Submit(k, w.op, syncer[s].actor, s)
    /\ UNCHANGED <<streams, records, assetVersion, conflicts>>

\* The call that run s waits for has been answered.
Arrived(s) ==
    /\ syncer[s].phase = "waiting"
    /\ calls[syncer[s].call].phase = "answered" /\ calls[syncer[s].call].owner = s

Hangup(s) ==
    LET k == syncer[s].call
    IN  calls' = IF k # None /\ calls[k].owner = s
                 THEN [calls EXCEPT ![k] =
                         IF @.phase = "answered" THEN Free ELSE [@ EXCEPT !.owner = None]]
                 ELSE calls

GetAnswer(s) ==
    /\ Arrived(s)
    /\ Receive(s, calls[syncer[s].call].answer)
    /\ calls' = [calls EXCEPT ![syncer[s].call] = Free]
    /\ UNCHANGED <<streams, records, assetVersion, conflicts>>

GetUnauthorized(s) ==
    /\ Arrived(s)
    /\ calls[syncer[s].call].answer = Unauthorized
    /\ AuthRequired(s)
    /\ Hangup(s)
    /\ UNCHANGED <<streams, records, assetVersion, conflicts>>

GiveUp(s) ==
    /\ Fail(s)
    /\ Hangup(s)
    /\ UNCHANGED <<streams, records, assetVersion, conflicts>>

Die(s) ==
    /\ Crash(s)
    /\ Hangup(s)
    /\ UNCHANGED <<streams, records, assetVersion, conflicts>>

Init == ClientInit /\ ServerInit

ClientStep ==
    \/ "asset" \in Kinds /\ \E v \in 1..assetVersion : CaptureAsset(v)
    \/ "scan" \in Kinds /\ CaptureScan(FALSE)
    \/ "photo" \in Kinds /\ CaptureScan(TRUE)
    \/ \E s \in Syncer :
          \/ \E k \in Call : Send(s, k)
          \/ GetAnswer(s) \/ GetUnauthorized(s) \/ GiveUp(s) \/ Die(s)
    \/ /\ \/ ResetEpoch \/ SignOut
          \/ \E a \in Actor : SignIn(a) \/ LeaseExpires(a)
          \/ \E s \in Syncer : StartSync(s) \/ PickPhoto(s) \/ Finish(s)
                               \/ Uploaded(s) \/ EvidenceOperation(s)
       /\ UNCHANGED serverVars

Next == ClientStep \/ (ServerNext /\ UNCHANGED clientVars)

Spec == Init /\ [][Next]_vars

-----------------------------------------------------------------------------
(***************************************************************************)
(* Fairness.  The timer and the online event wake synchronize() again and  *)
(* again, a run keeps executing, the server finishes its transactions, a   *)
(* request without an answer times out after 40 seconds and an unrenewed   *)
(* lease after 60.  Nothing says that a fault ever happens.                *)
(***************************************************************************)

Stuck(s) ==
    /\ syncer[s].phase = "waiting"
    /\ \/ calls[syncer[s].call].owner # s
       \/ Arrived(s) /\ ~ Terminal(calls[syncer[s].call].answer)

Serve(k) ==
    /\ AnswerDuplicate(k) \/ LockOperation(k) \/ Sequence(k) \/ Record(k)
    /\ UNCHANGED clientVars

Advance(s) ==
    \/ (\E k \in Call : Send(s, k)) \/ GetAnswer(s) \/ GetUnauthorized(s)
    \/ Stuck(s) /\ GiveUp(s)
    \/ (StartSync(s) \/ PickPhoto(s) \/ Finish(s) \/ Uploaded(s) \/ EvidenceOperation(s))
       /\ UNCHANGED serverVars

Expire(a) == LeaseExpires(a) /\ UNCHANGED serverVars

Enter(a) == SignIn(a) /\ UNCHANGED serverVars

Fairness ==
    /\ \A k \in Call : WF_vars(Serve(k))
    /\ \A s \in Syncer : WF_vars(Advance(s))
    /\ \A a \in Actor : WF_vars(Expire(a)) /\ WF_vars(Enter(a))

FairSpec == Spec /\ Fairness

\* A step in which the network, the server, a page or the session fails.
Fault ==
    \/ \E k \in Call : Unauthorize(k) \/ Abort(k) \/ Drop(k)
    \/ \E s \in Syncer : Die(s) \/ (GiveUp(s) /\ ~ Stuck(s))
    \/ SignOut

-----------------------------------------------------------------------------
(***************************************************************************)
(* Properties.                                                             *)
(***************************************************************************)

Drawn == {queue[i].op : i \in Captured}
         \cup {queue[i].link : i \in {j \in Captured : queue[j].link # None}}

\* Stores and calls hold what their schemas say, within the bounds.
CaptureTypeOK ==
    /\ signed \in Actor \cup {None}
    /\ meta.epoch \in 0..MaxEpoch /\ meta.seq \in 0..MaxSeq /\ meta.ordinal \in 0..MaxOrdinal
    /\ \A i \in Captured : /\ queue[i].op.id = i
                           /\ queue[i].status \in {"QUEUED", "APPLIED", "REJECTED"}
                           /\ queue[i].op.seq \in 1..MaxSeq /\ queue[i].op.epoch \in 1..MaxEpoch
    /\ \A k \in Call : calls[k].phase \in {"free", "sent", "locked", "sequenced", "answered"}
    /\ assetVersion \in 1..MaxVersion

\* The implemented capture protocol is the promised log: lost answers, retries,
\* rival runs with expired leases and crashes neither duplicate, nor change, nor
\* reorder a decision, and no photo is linked twice or before its capture applied.
Log == INSTANCE CaptureLog WITH
           MaxId <- MaxOrdinal,
           captured <- {[id |-> op.id, actor |-> op.actor, row |-> op.row] : op \in Drawn},
           decided <- {[id |-> x.op.id, actor |-> x.op.actor, state |-> x.state] : x \in records}

ImplementsLog == Log!LogSpec

\* What the device shows the operator is what the server recorded, also when
\* the shown outcome was read from a duplicate or written by a run whose lease
\* had expired.
DeviceAgreesWithServer ==
    \A i \in Captured :
        /\ queue[i].status # "QUEUED" =>
              \E x \in records : x.op = queue[i].op /\ x.state = queue[i].status
        /\ queue[i].done =>
              \E x \in records : x.op = queue[i].link /\ x.state = "APPLIED"
        /\ queue[i].error =>
              \E x \in records : x.op = queue[i].link /\ x.state = "REJECTED"

\* A device that keeps its store never trips the server's sequence checks: no
\* gap, no reuse, no epoch shared by two actors, whoever signs in between.
HonestDeviceNeverFlagged ==
    /\ \A x \in records : x.flags = {}
    /\ \A op \in Drawn : streams[op.epoch].actor \in {None, op.actor}

\* D12: a capture applies only to the version it was captured on, so of all
\* captures made against one version at most one applies, however the retries
\* and the operations of other users interleave; a conflict is never applied.
NeverRebased ==
    /\ \A x, y \in {z \in records : z.op.kind = "asset" /\ z.state = "APPLIED"} :
          x.op.expected = y.op.expected => x = y
    /\ \A x \in records : x.op.id \in conflicts => x.state = "REJECTED"

Settled(i) ==
    \/ queue[i] # None /\ queue[i].status = "REJECTED"
    \/ queue[i] # None /\ queue[i].status = "APPLIED" /\ (queue[i].photo => queue[i].done \/ queue[i].error)

\* If faults eventually cease, every capture, and the photo of an applied one,
\* reaches a recorded outcome on the device: no uncertain answer, dead run or
\* orphaned lease blocks the queue for ever.  An upload that is refused is a fault.
EveryCaptureSettles ==
    <>[][~Fault]_vars => \A i \in 1..MaxOrdinal : (queue[i] # None) ~> Settled(i)
=============================================================================
