------------------------------ MODULE Evidence ------------------------------
(***************************************************************************)
(* Attachments: bytes in a write-once store under their digest, and rows   *)
(* that are unique by digest.  The store is no part of the transaction, so *)
(* bytes are published first and a row is inserted only for bytes that are *)
(* there; uploads of the same bytes meet at the unique constraint.         *)
(***************************************************************************)
EXTENDS Integers, FiniteSets

CONSTANTS
    Digest,      \* contents, which are their digests
    Uploader,    \* requests that upload, each with its Actor
    EntityType,  \* the classes of records that evidence is linked to
    LinkRole

ASSUME EvidenceAssumption == "none" \notin Digest

VARIABLES
    attachments,  \* the committed rows, by digest
    store,        \* the bytes under each digest
    uploads,      \* what every request is doing
    evidenceLinks,\* attachment_links
    answers,      \* ghost: the rows that uploads were answered with
    touched       \* ghost: the digests whose bytes the host has touched

evidenceVars == <<attachments, store, uploads, evidenceLinks, answers, touched>>

NoRow == [captured_by |-> "nobody"]
NoParent == "none"
Resting == [phase |-> "resting"]

Captured == {d \in Digest : attachments[d] # NoRow}

\* storage.read verifies size and digest on every access.
Readable(d) == store[d] = "intact"

EvidenceInit ==
    /\ attachments = [d \in Digest |-> NoRow]
    /\ store = [d \in Digest |-> "absent"]
    /\ uploads = [u \in Uploader |-> Resting]
    /\ evidenceLinks = {} /\ answers = {} /\ touched = {}

-----------------------------------------------------------------------------
\* capture() up to the store: the parent must be another, verified content.
BeginUpload(u, d, parent) ==
    /\ uploads[u] = Resting
    /\ parent # NoParent => parent \in Captured \ {d} /\ Readable(parent)
    /\ uploads' = [uploads EXCEPT ![u] = [phase |-> "checked", digest |-> d, parent |-> parent]]
    /\ UNCHANGED <<attachments, store, evidenceLinks, answers, touched>>

\* os.link publishes the bytes, or the ones already there are verified.
Put(u) ==
    LET d == uploads[u].digest IN
    /\ uploads[u].phase = "checked"
    /\ store[d] \in {"absent", "intact"}
    /\ store' = [store EXCEPT ![d] = "intact"]
    /\ uploads' = [uploads EXCEPT ![u].phase = "stored"]
    /\ UNCHANGED <<attachments, evidenceLinks, answers, touched>>

\* The link was made, but a directory cannot be synchronised or the temporary
\* file not removed: the request fails and the bytes stay.
PutLate(u) ==
    /\ uploads[u].phase = "checked"
    /\ store[uploads[u].digest] = "absent"
    /\ store' = [store EXCEPT ![uploads[u].digest] = "intact"]
    /\ uploads' = [uploads EXCEPT ![u] = Resting]
    /\ UNCHANGED <<attachments, evidenceLinks, answers, touched>>

Inserting(d) == {v \in Uploader : uploads[v].phase = "inserted" /\ uploads[v].digest = d}

\* The CHECK constraint and the tenant-safe key of attachments.
ParentAccepted(d, parent) == parent \in (Captured \ {d}) \cup {NoParent}

\* INSERT ... ON CONFLICT DO NOTHING waits for whoever has inserted the digest
\* and not ended; it inserts if there is still no row, and nothing otherwise.
InsertAttachment(u) ==
    LET d == uploads[u].digest IN
    /\ uploads[u].phase = "stored"
    /\ Inserting(d) = {}
    /\ ParentAccepted(d, uploads[u].parent)
    /\ uploads' = [uploads EXCEPT ![u].phase = IF d \in Captured THEN "lost" ELSE "inserted"]
    /\ UNCHANGED <<attachments, store, evidenceLinks, answers, touched>>

SameProvenance_Any(row, parent) == TRUE

\* A request that names no parent takes the row as it is.
SameProvenance(row, parent) == parent # NoParent => row.supersedes = parent

\* The loser reads the winner's row and verifies its bytes.
AdoptWinner(u) ==
    LET d == uploads[u].digest IN
    /\ uploads[u].phase = "lost"
    /\ SameProvenance(attachments[d], uploads[u].parent)
    /\ Readable(d)
    /\ uploads' = [uploads EXCEPT ![u].phase = "adopted"]
    /\ UNCHANGED <<attachments, store, evidenceLinks, answers, touched>>

Row(u) ==
    IF uploads[u].phase = "inserted"
    THEN [captured_by |-> u, supersedes |-> uploads[u].parent]
    ELSE attachments[uploads[u].digest]

\* The commit; the answer leaves after it.
CommitUpload(u) ==
    LET d == uploads[u].digest IN
    /\ uploads[u].phase \in {"inserted", "adopted"}
    /\ attachments' = [attachments EXCEPT ![d] = Row(u)]
    /\ answers' = answers \cup {[digest |-> d, parent |-> uploads[u].parent, row |-> Row(u)]}
    /\ uploads' = [uploads EXCEPT ![u] = Resting]
    /\ UNCHANGED <<store, evidenceLinks, touched>>

\* Refusals, failures of the store or the database, a lost process.
AbortUpload(u) ==
    /\ uploads[u] # Resting
    /\ uploads' = [uploads EXCEPT ![u] = Resting]
    /\ UNCHANGED <<attachments, store, evidenceLinks, answers, touched>>

\* guard_evidence_capture: which records may carry evidence of a role.
RoleFits(role, type) ==
    CASE role = "DISPOSAL_EVIDENCE"   -> type = "ASSET"
      [] role = "CONFIG_EVIDENCE"     -> type \in {"ASSET", "ASSET_CONFIGURATION"}
      [] role = "RECEIVING_EVIDENCE"  -> type \in {"ASSET", "RECEIPT", "RECEIPT_LINE"}
      [] role = "EXCEPTION_EVIDENCE"  -> type = "RECEIVING_EXCEPTION"
      [] OTHER                        -> TRUE

\* uq_attachment_links_target_role: one link of an attachment to a record in a role.
Linked(d, type, role) ==
    \E l \in evidenceLinks : l.digest = d /\ l.type = type /\ l.role = role

\* link(): verified bytes; the same link again is answered with the first one.
Link(d, type, role) ==
    /\ d \in Captured /\ Readable(d)
    /\ RoleFits(role, type)
    /\ ~ Linked(d, type, role)
    /\ evidenceLinks' = evidenceLinks \cup {[digest |-> d, type |-> type, role |-> role]}
    /\ UNCHANGED <<attachments, store, uploads, answers, touched>>

\* The host loses or alters bytes.
TouchStore(d, bytes) ==
    /\ store[d] = "intact" /\ d \notin touched
    /\ store' = [store EXCEPT ![d] = bytes]
    /\ touched' = touched \cup {d}
    /\ UNCHANGED <<attachments, uploads, evidenceLinks, answers>>

EvidenceNext ==
    \/ \E u \in Uploader :
           \/ Put(u) \/ PutLate(u) \/ InsertAttachment(u) \/ AdoptWinner(u)
           \/ CommitUpload(u) \/ AbortUpload(u)
           \/ \E d \in Digest, p \in Digest \cup {NoParent} : BeginUpload(u, d, p)
    \/ \E d \in Digest :
           \/ \E t \in EntityType, r \in LinkRole : Link(d, t, r)
           \/ \E bytes \in {"absent", "damaged"} : TouchStore(d, bytes)

EvidenceSpec == EvidenceInit /\ [][EvidenceNext]_evidenceVars

-----------------------------------------------------------------------------
\* capture(): the row an upload is answered with is the one that stays: it names
\* the first capturer of these bytes and supersedes what the request asked for.
\* However often requests failed on the way, every row has its bytes - only the
\* host can take them away - and what supersedes what never runs in a circle,
\* although any bytes may name any earlier ones.
AnswersTrue ==
    /\ \A a \in answers :
           /\ attachments[a.digest] = a.row
           /\ a.parent # NoParent => a.row.supersedes = a.parent
    /\ \A d \in Captured \ touched : Readable(d)
    /\ \A S \in (SUBSET Captured) \ {{}} : \E d \in S : attachments[d].supersedes \notin S
=============================================================================
