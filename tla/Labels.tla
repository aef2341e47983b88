------------------------------- MODULE Labels -------------------------------
(***************************************************************************)
(* Label templates and the outbox of print jobs.  A job is queued with a   *)
(* snapshot of its Asset; a later dispatch renders the snapshot, publishes *)
(* the file under the name of the job and only then commits the outcome,   *)
(* so a crash may leave a file that no row speaks of.                      *)
(***************************************************************************)
EXTENDS Integers, FiniteSets

CONSTANTS
    Labelled,      \* the Assets that may be labelled
    ReceivedUnits, \* the ones that a receipt created
    Text,          \* descriptions
    Unprintable,   \* descriptions that render() refuses
    Template, Format,
    Job, Dispatcher,
    MaxRenderer,   \* bound on deployments that change how labels are drawn
    MaxAttempt,    \* bound on print_jobs.attempts
    MaxBatch       \* 500 in enqueue_receipt

ASSUME LabelsAssumption ==
    /\ ReceivedUnits \subseteq Labelled /\ Unprintable \subseteq Text
    /\ MaxRenderer \in Nat /\ MaxAttempt \in Nat /\ MaxBatch \in Nat
    /\ "unlocked" \notin Dispatcher

VARIABLES
    description,  \* assets.description, which patch_asset may change
    templates,    \* label_templates
    jobs,         \* print_jobs
    jobLock,      \* the dispatch that holds each row FOR UPDATE
    output,       \* the files of the output directory, by job
    renderer,     \* the deployed renderer
    dispatches,   \* what every dispatch is doing
    served,       \* ghost: what downloads delivered
    tampered      \* ghost: the jobs whose file the host has touched

labelVars == <<description, templates, jobs, jobLock, output, renderer, dispatches, served, tampered>>

NoJob == [status |-> "NONE"]
NoFile == [found |-> FALSE]
Waiting == [phase |-> "waiting"]
Unlocked == "unlocked"

\* registry.adapter_for.
AdapterFor(format) == IF format = "ZPL" THEN "ZPL" ELSE "FILE"

Queued == {j \in Job : jobs[j] # NoJob}

\* Template and format are part of the bytes, and so is the code that drew them.
File(snapshot, format) ==
    [found |-> TRUE, snapshot |-> snapshot, format |-> format, renderer |-> renderer]

Drawn_Live(job) ==
    File([job.snapshot EXCEPT !.description = description[job.snapshot.asset]], job.format)

\* render() and the adapter's encoding: a function of the stored snapshot.
Drawn(job) == File(job.snapshot, job.format)

LabelsInit ==
    /\ description \in [Labelled -> Text \ Unprintable]
    /\ templates = {}
    /\ jobs = [j \in Job |-> NoJob]
    /\ jobLock = [j \in Job |-> Unlocked]
    /\ output = [j \in Job |-> NoFile]
    /\ renderer = 1
    /\ dispatches = [d \in Dispatcher |-> Waiting]
    /\ served = {} /\ tampered = {}

-----------------------------------------------------------------------------
PatchDescription(a, text) ==
    /\ text # description[a]
    /\ description' = [description EXCEPT ![a] = text]
    /\ UNCHANGED <<templates, jobs, jobLock, output, renderer, dispatches, served, tampered>>

CreateTemplate(t) ==
    /\ t \notin templates
    /\ templates' = templates \cup {t}
    /\ UNCHANGED <<description, jobs, jobLock, output, renderer, dispatches, served, tampered>>

\* The trigger captures the snapshot; nothing supplied by the caller enters it.
Requested(a, t, format) ==
    [status |-> "PENDING", adapter |-> AdapterFor(format), format |-> format, attempts |-> 0,
     snapshot |-> [asset |-> a, description |-> description[a], template |-> t],
     digest |-> NoFile]

Enqueue(j, a, t, format) ==
    /\ t \in templates
    /\ j \notin Queued
    /\ jobs' = [jobs EXCEPT ![j] = Requested(a, t, format)]
    /\ UNCHANGED <<description, templates, jobLock, output, renderer, dispatches, served, tampered>>

\* One transaction queues a job for every unit of the receipt, or for none.
EnqueueReceipt(t, format) ==
    /\ t \in templates
    /\ Cardinality(ReceivedUnits) <= MaxBatch
    /\ \E id \in [ReceivedUnits -> Job \ Queued] :
           /\ \A a, b \in ReceivedUnits : id[a] = id[b] => a = b
           /\ jobs' = [j \in Job |->
                  IF \E a \in ReceivedUnits : id[a] = j
                  THEN Requested(CHOOSE a \in ReceivedUnits : id[a] = j, t, format)
                  ELSE jobs[j]]
    /\ UNCHANGED <<description, templates, jobLock, output, renderer, dispatches, served, tampered>>

\* The CHECK constraints of print_jobs.
DeliveryConsistent(row) ==
    /\ row.adapter = AdapterFor(row.format)
    /\ row.status = "PENDING" <=> row.attempts = 0
    /\ row.status = "SUCCEEDED" <=> row.digest # NoFile

\* A successful job is only verified again and answered as it is.
BeginDispatch(d, j) ==
    /\ dispatches[d] = Waiting
    /\ j \in Queued
    /\ jobLock[j] = Unlocked
    /\ jobs[j].status # "SUCCEEDED"
    /\ jobs[j].attempts < MaxAttempt
    /\ jobLock' = [jobLock EXCEPT ![j] = d]
    /\ dispatches' = [dispatches EXCEPT ![d] = [phase |-> "locked", job |-> j]]
    /\ UNCHANGED <<description, templates, jobs, output, renderer, served, tampered>>

Reusable_Any(j, file) == TRUE

\* os.link refuses to overwrite; what is there already must be the same bytes.
Reusable(j, file) == output[j] \in {NoFile, file}

Decided(d, status, digest) ==
    dispatches' = [dispatches EXCEPT ![d] =
        [phase |-> "decided", job |-> @.job, status |-> status, digest |-> digest]]

\* ArtifactStore.publish succeeds.
Publish(d) ==
    LET j == dispatches[d].job
        file == Drawn(jobs[j]) IN
    /\ dispatches[d].phase = "locked"
    /\ jobs[j].snapshot.description \notin Unprintable
    /\ Reusable(j, file)
    /\ output' = [output EXCEPT ![j] = IF @ = NoFile THEN file ELSE @]
    /\ Decided(d, "SUCCEEDED", file)
    /\ UNCHANGED <<description, templates, jobs, jobLock, renderer, served, tampered>>

\* No output root, a renderer that refuses, a full disk, another file in place -
\* or a temporary file that cannot be removed after the link was made.
FailToPublish(d) ==
    LET j == dispatches[d].job
        file == Drawn(jobs[j]) IN
    /\ dispatches[d].phase = "locked"
    /\ \/ UNCHANGED output
       \/ /\ jobs[j].snapshot.description \notin Unprintable
          /\ output[j] = NoFile
          /\ output' = [output EXCEPT ![j] = file]
    /\ Decided(d, "FAILED", NoFile)
    /\ UNCHANGED <<description, templates, jobs, jobLock, renderer, served, tampered>>

Unlock(d) == [j \in Job |-> IF jobLock[j] = d THEN Unlocked ELSE jobLock[j]]

\* The update and its commit; guard_print_job never lets a success be undone.
RecordOutcome(d) ==
    LET j == dispatches[d].job
        row == [jobs[j] EXCEPT !.status = dispatches[d].status,
                               !.digest = dispatches[d].digest, !.attempts = @ + 1] IN
    /\ dispatches[d].phase = "decided"
    /\ jobs[j].status # "SUCCEEDED"
    /\ DeliveryConsistent(row)
    /\ jobs' = [jobs EXCEPT ![j] = row]
    /\ jobLock' = Unlock(d)
    /\ dispatches' = [dispatches EXCEPT ![d] = Waiting]
    /\ UNCHANGED <<description, templates, output, renderer, served, tampered>>

\* The process or the connection is lost: the row rolls back, the file stays.
CrashDispatch(d) ==
    /\ dispatches[d] # Waiting
    /\ jobLock' = Unlock(d)
    /\ dispatches' = [dispatches EXCEPT ![d] = Waiting]
    /\ UNCHANGED <<description, templates, jobs, output, renderer, served, tampered>>

\* ArtifactStore.read: the bytes must have the recorded digest.
Verified(j) == output[j] = jobs[j].digest

\* read_artifact, on every download.
Download(j) ==
    /\ jobs[j].status = "SUCCEEDED"
    /\ Verified(j)
    /\ served' = served \cup {[job |-> j, file |-> output[j]]}
    /\ UNCHANGED <<description, templates, jobs, jobLock, output, renderer, dispatches, tampered>>

\* A new release may draw the same snapshot differently.
DeployRenderer ==
    /\ renderer < MaxRenderer
    /\ renderer' = renderer + 1
    /\ UNCHANGED <<description, templates, jobs, jobLock, output, dispatches, served, tampered>>

\* The host loses a file, or puts another one in its place.
TouchOutput(j) ==
    /\ output[j] # NoFile /\ j \notin tampered
    /\ \E file \in {NoFile, [output[j] EXCEPT !.renderer = 0]} \cup {output[i] : i \in Job} :
           output' = [output EXCEPT ![j] = file]
    /\ tampered' = tampered \cup {j}
    /\ UNCHANGED <<description, templates, jobs, jobLock, renderer, dispatches, served>>

LabelsNext ==
    \/ \E a \in Labelled, text \in Text : PatchDescription(a, text)
    \/ \E t \in Template :
           \/ CreateTemplate(t)
           \/ \E f \in Format :
                  \/ EnqueueReceipt(t, f)
                  \/ \E j \in Job, a \in Labelled : Enqueue(j, a, t, f)
    \/ \E d \in Dispatcher :
           \/ Publish(d) \/ FailToPublish(d) \/ RecordOutcome(d) \/ CrashDispatch(d)
           \/ \E j \in Job : BeginDispatch(d, j)
    \/ \E j \in Job : Download(j) \/ TouchOutput(j)
    \/ DeployRenderer

LabelsSpec == LabelsInit /\ [][LabelsNext]_labelVars

-----------------------------------------------------------------------------
\* labels/service.py: a download is the label that was asked for - of that
\* Asset, as it was described then - and the same bytes each time, whatever was
\* patched, retried, deployed or damaged in between.
ServedAsRequested ==
    \A s \in served :
        /\ s.file.snapshot = jobs[s.job].snapshot
        /\ \A r \in served : r.job = s.job => r.file = s.file

\* dispatch(): a job that says it succeeded has a file with the digest it
\* recorded, even when the first attempt crashed after publishing and a later
\* one found the file; unless the host itself touched the file, the job can be
\* downloaded for ever.
ArtifactMatchesRecord ==
    \A j \in Queued \ tampered : jobs[j].status = "SUCCEEDED" => output[j] = jobs[j].digest
=============================================================================
