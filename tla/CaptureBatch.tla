---------------------------- MODULE CaptureBatch ----------------------------
(***************************************************************************)
(* POST /capture/operations with several operations.  The batch is worked  *)
(* off one transaction at a time, the operations of each client epoch in   *)
(* the order of their sequence numbers, whatever order the client listed   *)
(* them in; each answer goes to the place where its operation stood.  A    *)
(* failed transaction is answered as unavailable and the batch goes on; a  *)
(* credential that has died ends it.  The operations that meet each other  *)
(* are those of the batches: what other users do is part of CaptureSync.   *)
(***************************************************************************)
EXTENDS CaptureServer, Sequences

CONSTANTS
    Sent,      \* the lists of operations that reach the server
    MaxClaims  \* the longest list, 100 in CaptureBatch

VARIABLES
    batches,  \* the request that each call serves: list, credential, responses
    failed    \* ghost: the operations that a failed transaction has skipped

batchVars == <<serverVars, batches, failed>>

NoBatch == [list |-> <<>>, identity |-> None, responses |-> <<>>]

\* What an honest client sends.  It draws every id once and every number of an
\* epoch once, from 1 on; of each epoch it lists everything up to some number, in
\* any order and perhaps twice.
Honest(list) ==
    /\ list \in Seq(Operation)
    /\ \A i \in DOMAIN list :
           /\ list[i].seq # 0
           /\ \A n \in 1..(list[i].seq - 1) :
                  \E j \in DOMAIN list : list[j].epoch = list[i].epoch /\ list[j].seq = n
    /\ \A other \in Sent : \A i \in DOMAIN list, j \in DOMAIN other :
           \/ list[i].id = other[j].id
           \/ list[i].epoch = other[j].epoch /\ list[i].seq = other[j].seq
           => list[i] = other[j]

\* Where the first operation of an epoch stands, which orders the groups.
Opens(list, epoch) == CHOOSE i \in DOMAIN list :
    list[i].epoch = epoch /\ \A j \in DOMAIN list : list[j].epoch = epoch => i <= j

\* Mutant: the client's own order.
Before_AsListed(list, i, j) == i < j

\* ordered(): which of two places is processed first.  Groups stand in the order
\* in which they open, operations of one epoch by sequence number and then by place.
Before(list, i, j) ==
    LET group == [k \in {i, j} |-> Opens(list, list[k].epoch)] IN
    \/ group[i] < group[j]
    \/ /\ group[i] = group[j]
       /\ list[i].seq < list[j].seq \/ (list[i].seq = list[j].seq /\ i < j)

\* The places that have no response yet.
Remaining(k) == {i \in DOMAIN batches[k].list : batches[k].responses[i] = None}

\* The place whose turn it is in the loop over ordered().
Turn(k) ==
    CHOOSE i \in Remaining(k) : \A j \in Remaining(k) \ {i} : Before(batches[k].list, i, j)

BatchInit ==
    /\ ServerInit
    /\ batches = [k \in Call |-> NoBatch]
    /\ failed = {}

-----------------------------------------------------------------------------
SendBatch(k, list, identity) ==
    /\ batches[k] = NoBatch
    /\ Len(list) \in 1..MaxClaims /\ Honest(list)
    /\ batches' = [batches EXCEPT ![k] = [list |-> list, identity |-> identity,
                                          responses |-> [i \in DOMAIN list |-> None]]]
    /\ UNCHANGED <<serverVars, failed>>

\* The next turn of the loop opens a transaction of its own.
NextOperation(k) ==
    /\ Remaining(k) # {}
    /\ Submit(k, batches[k].list[Turn(k)], batches[k].identity, k)
    /\ UNCHANGED <<streams, records, assetVersion, conflicts, batches, failed>>

TakeResponse(k) ==
    /\ calls[k].phase = "answered" /\ calls[k].answer # Unauthorized
    /\ batches' = [batches EXCEPT ![k].responses[Turn(k)] = calls[k].answer]
    /\ calls' = [calls EXCEPT ![k] = Free]
    /\ UNCHANGED <<streams, records, assetVersion, conflicts, failed>>

\* CredentialExpired leaves the loop: what was recorded stays, nothing is answered.
ExpireBatch(k) ==
    /\ calls[k].phase = "answered" /\ calls[k].answer = Unauthorized
    /\ batches' = [batches EXCEPT ![k] = NoBatch]
    /\ calls' = [calls EXCEPT ![k] = Free]
    /\ UNCHANGED <<streams, records, assetVersion, conflicts, failed>>

FailOperation(k) ==
    /\ Abort(k)
    /\ failed' = failed \cup {calls[k].op}
    /\ UNCHANGED batches

FinishBatch(k) ==
    /\ batches[k] # NoBatch /\ Remaining(k) = {}
    /\ batches' = [batches EXCEPT ![k] = NoBatch]
    /\ UNCHANGED <<serverVars, failed>>

\* The process dies; the open transaction rolls back.
LoseBatch(k) ==
    /\ batches[k] # NoBatch
    /\ batches' = [batches EXCEPT ![k] = NoBatch]
    /\ calls' = [calls EXCEPT ![k] = Free]
    /\ UNCHANGED <<streams, records, assetVersion, conflicts, failed>>

BatchNext ==
    \E k \in Call :
        \/ \E list \in Sent, a \in Actor : SendBatch(k, list, a)
        \/ NextOperation(k) \/ TakeResponse(k) \/ ExpireBatch(k) \/ FailOperation(k)
        \/ FinishBatch(k) \/ LoseBatch(k)
        \/ /\ \/ Unauthorize(k) \/ AnswerDuplicate(k) \/ LockOperation(k)
              \/ Sequence(k) \/ Record(k)
           /\ UNCHANGED <<batches, failed>>

BatchSpec == BatchInit /\ [][BatchNext]_batchVars

-----------------------------------------------------------------------------
\* batch(): an operation is recorded after its predecessors in the epoch however
\* the client listed them and however two batches with the same operations race:
\* a gap only where a predecessor, and a reuse only where the operation itself,
\* was skipped by a failed transaction.  Every response stands at the place of
\* its operation and tells what was recorded of it.
BatchInOrder ==
    /\ \A x \in records :
           /\ "SEQUENCE_GAP" \in x.flags =>
                  \E f \in failed : f.epoch = x.op.epoch /\ f.seq < x.op.seq
           /\ "SEQUENCE_REUSED" \in x.flags => x.op \in failed
    /\ \A k \in Call : \A i \in DOMAIN batches[k].list :
           LET response == batches[k].responses[i] IN
           response # None /\ response.recorded =>
               \E x \in records : x.op = batches[k].list[i] /\ x.code = response.code
=============================================================================
