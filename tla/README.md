# Formal model of Defiant FleetOps

TLA+ modules, TLC configurations and TLAPS proofs for the parts of FleetOps whose
correctness depends on order: what happens when two requests meet on one Asset, when
histories are corrected again and again, and when an offline device repeats what it
cannot know the server has already done.

FleetOps is a FastAPI service over PostgreSQL and an offline-capable capture client.
Domain services in `server/fleetops/domain` check what is legal; the procedures and
triggers of `server/alembic/versions` own the histories, and are the authority when the
two could disagree. The client in `client/src/lib` keeps a queue in IndexedDB and
replays it to `POST /v1/capture/operations`.

## 1. Inventory

| Component | State it keeps | Operations | What is hard | What makes it correct |
|---|---|---|---|---|
| Asset histories, projections, corrections (`domain/assets.py`, `asset_facts.py`, `assignments.py`, `corrections.py`, `lifecycle.py`; migrations 0006-0008, 0011) | one Asset row (version and five projections), five append-only event tables, the baseline facts of receiving | transition, move, custody, ownership, assign, unassign, five corrections | callers act on a version they read earlier; a correction writes two rows in two versions; exits from ON_HOLD depend on the past | each version has exactly one event; projections are the newest effective event; effective history is one legal chain |
| Evidence (`evidence/service.py`, `storage.py`, 0012) | attachments by digest, files under their digest, typed links | capture, supersede, link, read | two uploads of one digest; bytes published before the row commits | every row has its bytes; what an upload was told stays true; retirement always proven |
| Capture ingest (`capture/service.py`, 0014) | one row per operation, one stream per epoch, conflicts | process one operation, process a batch | a retry runs beside the abandoned first try; a rollback must not be taken for an outcome; batches list operations in any order | each operation decided once, in order, never rebased |
| Capture client (`client/src/lib/db.ts`, `sync.ts`, `session.ts`) | meta (epoch, sequence, ordinal), queue, lease per actor | capture, synchronize, photo upload, sign in and out | pages freeze, die and overlap; answers are lost; operators share the device | what it shows is what was recorded; nothing blocks the queue for ever |
| Procurement (`domain/procurement.py`, 0009) | orders, lines, amendment lineages | draft, issue, amend | an amendment racing a receipt | one active leaf per lineage |
| Receiving (`domain/receiving.py`, 0010) | receipts, comparators, lines, exceptions | create receipt, add line, reconcile | PO and receipt locks; a serial number claimed twice | comparators were active when bound; exceptions are exactly the disagreements |
| Record corrections (`domain/record_corrections.py`, 0011) | generations of PO and receipt lines, evaluations | correct PO line, correct receipt line | many workflow rows locked; an observation once superseded stays so | the latest evaluation supports exactly today's disagreements |
| Exception and sync-conflict workflow (`domain/exception_workflow.py`, `capture/conflicts.py`, 0011, 0014) | status and numbered events; for sync conflicts the events alone | open, acknowledge, resolve, waive, automatic resolution | stale `expected_status`; a correction resolves what a person is looking at | every exception follows the workflow graph, and what is open is true today |
| Labels and print jobs (`labels/service.py`, `adapters/storage.py`, 0013) | templates, job rows with a snapshot, published files | create template, enqueue one or a receipt, dispatch, download | crash between publishing and commit; a release that draws differently | a job that succeeded has its bytes, and they are the label that was asked for |
| Sessions (`auth.py`, `api/app.py`, 0002, 0006) | hashed tokens with expiry and revocation | bootstrap, login, resolve, logout | logout, expiry and deactivation against transactions in flight | no row is written in the name of a session that had ended |
| Space hierarchy (`domain/space.py`, 0004, 0005) | facility and parent of every location, for good | create | one INSERT of several rows that name each other | every path runs from a root to its location |
| Configurations, readers, catalog, parties, tenancy, screens | append-only records, reads, declarations | single inserts | - | constraints of the schema |

Components interact in three ways. Calls: the capture service calls the same domain
services as the interactive routes, inside its own transaction. Shared rows: every
operation on an Asset takes the lock of the one Asset row, and receiving takes the lock
of the purchase order before that of the receipt. Replay: the client only ever learns of
the server through answers to calls that may be lost.

`PROJECT.json` lists the hazards at their lines, with the properties that would catch
each one going wrong.

## 2. Modules

| Module | Role |
|---|---|
| `AssetHistory` | one Asset, its five histories, the requests that compete for it |
| `AssetLedger` | what those histories promise, abstractly: one ledger whose newest entry alone can be replaced |
| `AssetHistoryProofs` | the inductive invariant of `AssetHistory` and what follows from it |
| `AssetCorrectionProofs` | what corrections leave behind in the five tables, and that they implement `AssetLedger` |
| `CaptureOperation` | the claim that travels between device and server, and the answer to it |
| `CaptureServer` | `process()` and the transactions around it |
| `CaptureBatch` | `batch()`: several operations in one request, on top of `CaptureServer` |
| `BatchProofs` | that batches record in order and answer truly |
| `CaptureClient` | the IndexedDB stores and `synchronize()` |
| `CaptureSync` | composes client and server; fairness and the properties of the protocol |
| `CaptureLog` | what capture promises, abstractly: a log of decisions |
| `CaptureProofs` | the inductive invariant of `CaptureSync`, and that it implements `CaptureLog` |
| `Procurement` | one purchase order: its lines, amendments and corrections |
| `ProcurementProofs` | the lineages and corrections of the order; its lemmas serve the next two as well |
| `Classification` | which disagreements a received line, and a whole receipt, give rise to |
| `Receiving` | receipts against that order or none, on top of `Procurement` and `Classification` |
| `ReceivingProofs` | what every receiving transaction has read is still true when it commits |
| `ReceiptCorrections` | a sealed receipt: corrections, evaluations, the statuses of its exceptions, on top of the same two |
| `ReceiptCorrectionProofs` | evaluations, statuses and locks of a corrected receipt, and that it implements `ExceptionStatus` |
| `ExceptionStatus` | what every exception promises, abstractly: the workflow graph |
| `SyncConflicts` | the conflicts of capture and the people who work through them |
| `Labels` | templates, print jobs, dispatches and the files they publish |
| `Evidence` | attachments, the content store and the links |
| `Sessions` | credentials, and the writes of the requests that carry them |
| `Space` | facilities and locations |
| `ServicesProofs` | invariants of `Sessions`, `Labels`, `Evidence`, `SyncConflicts` and `Space` |
| `MCAssetHistory`, `MCCaptureSync`, `MCReceiving`, `MCReceiptCorrections`, `MCServices` | instances and symmetry sets for TLC |

### AssetHistory

`version` and `projection` are the columns of the Asset row, `hist` the five event
tables (each row with its version, facts, role, correction root, pair, generation and
evidence), `baseline` the initial facts that receiving records, `links` the evidence
links of the Asset, `rowLock` the holder of `SELECT ... FOR UPDATE`, and `req` what every
caller is doing.

A request is modelled in the steps between which others can act: `Observe` (a GET, which
is where `expected_version` comes from), `Begin` (preflight that reads nothing shared,
then the lock), `AdmitOrdinary` or `AdmitCorrection` (everything the service and the
procedure decide while they hold the lock), then `Commit` or `Rollback`. The rows
planned between admission and commit are invisible to others, as in the database.
`Commit` tests what the deferred triggers test; that they never refuse an admitted plan
is a property (`CommitNeverRefused`), not an assumption.

The effective views of 0011 become `Effective`, the anomaly view becomes `WellFormed`,
`LifecycleSound` and their parts, and the queries of the aggregate reconciliation become
`VersionsExact`, `ProjectionsAgree` and `AuthorityComplete`. Data is reduced to what the
properties tell apart: places, parties and assignees are model values, and one value
`Foreign` stands for every identifier that a foreign key would refuse.

`CaptureAssetFacts` is the query by which a sync conflict quotes a past version. It reads the
rows as recorded, not the effective views, and so answers what a reader of that version saw;
`FactsAsSeen` compares it with what callers did see.

`AssetLedger` is the same Asset for somebody who knows nothing of pairs, roots, generations
and locks: entries, of which an operation appends one and a correction replaces the newest,
and the facts they establish. The mapping takes the effective rows of all five tables for the
entries, and reads an assignment projection through the event it names.

### Capture

`CaptureClient` follows `db.ts` and `sync.ts`: drawing epoch, sequence and ordinal in one
IndexedDB transaction, the lease with its expiry, the choice of the next claim, the photo
upload, the link claim drawn once, the error paths. Each `await` ends a step. A run that
lost its lease keeps going until it next asks for it, as the code does.

`CaptureServer` runs one claim per call: duplicate answer, advisory lock, stream row with
its sequence flags, then the domain effect and the record together, or an abort that
leaves nothing and answers REJECTED without `recorded_at`. Other users advance the Asset
at any time. A call whose caller has gone keeps running, and may still commit.

`CaptureBatch` serves requests with several operations. It reuses the steps of `CaptureServer`
for each operation and adds the loop around them: the order of processing, the place of each
response, what a failed transaction and a dead credential do to the rest. `Before` compares two
places as `ordered()` does, and `Turn` is the first place that has no response yet. Lists are those
an honest client may send (`Honest`): of every epoch a complete beginning, in any order and perhaps
with repetitions, where each id and each number of an epoch was drawn for one operation only.

`CaptureSync` joins them. Its refinement mapping forgets leases, calls, streams and
epochs, and keeps only which claims were drawn and which were decided.

### Procurement and receiving

`Procurement` is one order: every operation takes the order's row lock first and commits
before it releases it, so each is one step that waits for `poLock`. `lines` are the rows in
order of insertion, `poCorrections` the correction pairs of each, `comparators` what
receipts have pinned. `EffectiveLine` is the effective view, `PairsCoherent` the part of the
anomaly view that the correction of a line consults.

`Receiving` extends it. A receiving transaction (`tx`) opens a receipt - which takes the lock
of the order, then waits for that of the receipt - and records lines in two halves, because
between reading the Item and the serial (`InspectArrival`) and inserting (`InsertLine`,
`CreateReceivedUnit`) other transactions run: neither the catalog nor the serial numbers are
under the order's lock. Its rows are visible to itself only, until `Commit` publishes them
together; `Rollback` may end it anywhere, for a refused statement, a lost connection or a
deadlock victim. `LineKinds` and `AggregateKinds` are the classification of the service,
which `Complete`, the deferred trigger, repeats on what is true at commit. An Asset is named
by the line that created it. A line's identifier is a number; `Uuid7` makes it rise in every
transaction and, unless `Skew` holds, over all of them.

### Corrections of a receipt and the exception workflow

`ReceiptCorrections` starts where `Receiving` ends, with a sealed receipt and the exceptions
that follow from it. A transaction takes the locks of its list one by one (`Acquire`), which
is what makes waiting in a circle expressible: a correction takes order, receipt and then
every workflow row of the receipt, a late arrival order and receipt, a person's status change
one workflow row. `PlanCorrection` is everything between the context locks and `_evaluate`;
`After` is the set of rows that the correction writes, computed from the workflow rows as they
were read when their locks were granted. `Complete` is what the database then asks: that every
automatic resolution meets the status it expects, and that this evaluation *and every earlier
one* is sound by the anomaly views. The classification is `Classification`, the same that
`Receiving` uses.

`ExceptionStatus` is the promise. `ReceiptCorrections` implements it with status rows and a
correction that may move several exceptions in one commit; `SyncConflicts` implements it with
nothing but numbered events, an advisory lock and a trigger that is also met by statements
which skip the service.

### Labels, evidence, sessions, space

`Labels`: the row lock of a job is held from `BeginDispatch` to `RecordOutcome`, but the file is
published in between and stays when the transaction does not. Files carry the release that
drew them, so that a retry after a deployment may find bytes it would not draw itself. The host
may lose or replace one file per job; what the ghost `tampered` records.

`Evidence`: contents are their digests. The store has the bytes of a digest, damaged bytes or
none; `Put` comes before `InsertAttachment`, which waits for a rival that has inserted the same
digest and not committed, and then either inserts or adopts.

`Sessions`: a request carries its credential, and every writing statement resolves it again on
what is committed at that moment. `BeginStatement` fixes `statement_timestamp()` before the
statement may wait, so an expiry in between still lets it write. Where the trigger that resolves it
runs after the row is in place, or before an update whose lock is held, the check is the last thing
(`WriteRow`). The triggers of attachments, their links, print jobs and templates run before the
insert, which may then wait for a unique index (`CheckWriter`, `InsertChecked`); a logout or a
deactivation in that wait still lets the row through, as a logout just after the write would.
`WritesPrecedeRevocation` says exactly that. Its ghost `entitled` follows what the administrator
and the logouts do during a statement and does not look at what the check found.

`Space`: locations are inserted and never changed. One statement may insert several that name
each other; `Seen` is what the AFTER ROW trigger sees of it. `Ancestry` is the recursive query,
`Above` an independent definition of the ancestors as a least closed set.

`MCServices` puts these side by side with `Procurement`, `SyncConflicts` and `CaptureBatch` and lets
one run while the others rest. No step of one reads or writes a variable of another, so every
interleaving of them differs from one alone only in steps the property cannot see, and nothing
is lost. What connects them in the program is modelled where it matters: evidence of a
retirement in `AssetHistory`, the conflict a capture opens in `CaptureServer`, the death of a
credential in `CaptureSync` and `CaptureBatch`.

## 3. Runs

| Run | Bound | Question |
|---|---|---|
| `asset_breadth` | 2 requests, 5 classes, 4 versions, one guessed version | do competing callers keep the versions exact, lose no update, commit all they admit, and is a past version still quoted as it was seen? |
| `asset_lifecycle` | 2 requests, state only, 6 versions, one guessed version | does every mixture of transitions and corrections stay legal, proven and free of anomalies, and do the offered options match what is admitted? |
| `asset_facts` | 1 request, movements and assignments, 6 versions | do projections follow the effective history, is it one chain per class, and does it implement the ledger? |
| `capture_rivals` | 2 runs, 2 calls, 3 ordinals, scans and photos | does the protocol implement the log, and does the device agree with the server? |
| `capture_conflicts` | 2 runs, 2 calls, 2 captures, 3 versions | is a capture ever applied to a version it was not made on? |
| `capture_actors` | 2 operators, 3 epochs, sequence limit 2, 3 ordinals | does an honest device ever trip the sequence checks? |
| `capture_liveness` | 2 runs, 2 calls, 2 ordinals (one capture and its link), fair | does everything captured settle once faults cease? |
| `receiving_orders` | 2 transactions, 1 receipt, 2 line versions, 1 correction, 2 arrivals | do receipts and the order's amendments and corrections, in any interleaving, leave exceptions that are exactly the disagreements, and sealed receipts closed? Is a line a receipt has selected ever superseded before it commits? |
| `receiving_serials` | 2 transactions, 2 receipts, 3 arrivals, 1 readable serial | is a serial ever two Assets, or a unit lost, while the Item's policy changes? |
| `receipt_corrections` | 3 sealed receipts; 3 corrections beside a reviewer and a late arrival, or 2 beside amendments and corrections of the order | is what is open always true today, does every admitted correction commit, and does nobody wait in a circle? |
| `services` | `Procurement`: 3 line versions, 2 logical lines, 2 corrections each; `SyncConflicts`: 1 conflict, 2 handlers, 2 versions; `Labels`: 2 Assets, 2 jobs, 2 dispatchers, 2 attempts, 2 releases; `Evidence`: 2 digests, 2 uploaders; `Sessions`: 1 user, 2 sessions, 2 requests of 2 writes; `Space`: 4 locations, 2 facilities, 2 clerks; `CaptureBatch`: 2 batches of 3 operations in 2 epochs | does each keep its promise through races, crashes, retries and damage? |
| `scan_answers` | 2 transactions, 1 receipt, 2 scans, ids in any order | does a scan report the line it appended? It need not |

All but the last are expected to pass. `scan_answers` is a disagreement between code and
documentation: the answer to RECEIVE_SCAN is the last line of the receipt in order of
UUIDv7 (`capture/service.py:218`, `receiving.py:451`), although ADR-008 says that UUIDv7
supplies identity and not business ordering. With ids drawn by one process whose clock never
steps back the two agree; by two processes, or after a restart with the clock set back, a scan
may be answered with the line of an earlier one, and the device links its photo to it.

Why the bounds are enough to be interesting. Six versions hold a creation, a transition and
two corrections of either, or a correction around a hold and its return, which is where a
wrong predecessor would show. They also hold two holds entered from different states; the guessed
version 5 is that of the second, so that a caller who has seen the first only, but names the second,
meets it under the lock. Two callers with seven versions are beyond a few minutes. Four versions with two requests hold one complete
correction and one ordinary operation in every interleaving. Two runs are the least
number that race; a third adds no new pair. Three ordinals are a capture, the claim that
links its photo, and a later capture that must not overtake either. The sequence limit
of 2 stands for 2147483647: it forces the new epoch that the code opens at the limit.
Versions beyond `MaxVersion` stand for integer overflow, which the code refuses before
writing.

In receiving, one order and at most two receipts suffice: locks and serials relate pairs.
Two line versions are an expectation and its amendment; a receipt may hold lines of either.
Arrivals are chosen so
that every kind of exception but SUBSTITUTION arises in `receiving_orders` or
`receiving_serials`. SUBSTITUTION needs a second Item, which multiplies the catalog and every
order by itself; it is read from the comparator in the same statement as UOM_MISMATCH, which
does arise.

In `receipt_corrections` a short receipt is recounted three times: its SHORT is superseded, a
new one arises and is superseded in turn, while a person's status change is asked for at any of
these moments and takes effect at any later one. The other receipts - one line on the order and
one that nobody expected, and a serial that another Asset carries - are corrected twice, which
binds a second order line, while the order is amended and corrected. The order's lines ask for one
or two units; amendments and corrections of it ask for one (`MCQuantity`), because what they ask
for only shows in receipts bound afterwards. The proofs have no such restriction.

In `services`, two handlers, dispatchers, uploaders, requests and batches are the least that race.
Two attempts are a crash and its retry, and two releases let the retry draw other bytes. Two
digests can supersede each other, which is the shortest circle; four locations leave room for a
circle of three within one statement, beside an innocent one. The batch lists a second operation
before the first with another epoch between them, and its rival has the same operations.

Deadlock is checked in every run. A request or run can always roll back, crash or be
abandoned, so a state without successor would be an error.

### Fairness

Only `capture_liveness` assumes any. The timer, the `online` event and the visibility
event wake `synchronize()` again and again, and a run that is executing keeps executing:
weak fairness of `Advance`, which includes giving up on a request without an answer
(`lib/api.ts` aborts it after 40 seconds). The server finishes its transactions: weak fairness of `Serve`.
A lease that is not renewed ends after 60 seconds: weak fairness of `Expire`. An operator
who was signed out signs in again: weak fairness of `Enter`, which is an assumption about
people, needed because the queue belongs to an operator. No fairness is given to a
fault, and the property is conditional on faults ceasing, since a network that fails for
ever lets nothing settle.

## 4. Proofs

Every invariant and every action property that a passing run checks is also proved; only the
liveness property at the end of this section is not. The theorems hold for any number of requests,
transactions, actors, receipts and values, and for any bound that the runs make small; they are
about `Spec` of the component's own module, without the symmetry and the restrictions of the MC
modules.

None of the properties is inductive alone. Each module states the invariant that is, proves with
one lemma per action that a step keeps it, and derives the properties from it.

| Module | Theorems | Property |
|---|---|---|
| `AssetHistoryProofs` | `TypeCorrect`, `VersionsProven`, `ProjectionsProven`, `NoLostUpdateProven`, `RetirementProvenAlways` | `TypeOK`, `HistoryAccountsForVersion`, `ProjectionsFollowHistory`, `NoLostUpdate`, `RetirementProven` |
| `AssetCorrectionProofs` | `NeverAnomalousProven`, `CommitNeverRefusedProven`, `EffectiveChainProven`, `EffectiveLifecycleLegalProven`, `FactsAsSeenProven`, `OptionsMatchAdmissionProven`, `ImplementsLedgerProven` | the property each one names |
| `CaptureProofs` | `CaptureTypeOKProven`, `DeviceAgreesWithServerProven`, `HonestDeviceNeverFlaggedProven`, `NeverRebasedProven`, `ImplementsLogProven` | likewise |
| `ProcurementProofs` | `LineagesLinearProven`, `CorrectionsCoherentProven` | likewise |
| `ReceivingProofs` | `ReceivingTypeOKProven`, `ExpectationsFrozenProven`, `ExceptionsExactProven`, `UnitsAccountedProven`, `ReceivingCommitsProven`, `SealedForeverProven`, `SealedHandedOverProven` | likewise; the last has no run, see below |
| `ReceiptCorrectionProofs` | `CorrectionsTypeOKProven`, `SupportExactProven`, `OpenMeansLiveProven`, `CorrectionCommitsProven`, `NoCircularWaitProven`, `ImplementsStatusProven` | likewise |
| `ServicesProofs` | `WritesPrecedeRevocationProven`, `ServedAsRequestedProven`, `ArtifactMatchesRecordProven`, `AnswersTrueProven`, `SyncConflictsFollowProven`, `PathsCompleteProven` | likewise |
| `BatchProofs` | `BatchInOrderProven` | likewise |

### One Asset

`AssetHistoryProofs` rests on `IInv`, which has six parts:

- `Shape`: the types, those of what a caller has seen and of what it has planned included;
- `Locked`: a request between its `SELECT ... FOR UPDATE` and its commit holds the row lock,
  so at most one does;
- `Planned`: an admitted plan still extends the history as it stands now - one new root at
  `version + 1`, or a reversal and a corrected row right after the effective head that they
  replace - and shows the newest of its rows;
- `History`: the committed rows have exact versions, the projections agree with the
  effective ones, every correction points to an ordinary row of its own table, and every row
  passed the evidence rule;
- `ReadsCurrent`: what a caller read stays true as long as the version it read is current;
- `Admitted`: an admitted plan was asked for on the version that is still current.

`Planned` is the heart: what a commit writes was computed before it, and is right only
because the lock kept everybody else from moving the version since.

`AssetCorrectionProofs` adds `CorrectionInv`. `Sound` says what a table looks like after any
number of corrections: pairs and generations are complete, no ordinary row lies between a root
and its corrections, and every row that counts starts from the fact in force before its *root*.
`Continuing` says the same of an admitted plan, `NewestCounts` that the row of the current version
is effective, and `ReadsPast` that what a caller saw at a version is still what the recorded
rows say about it. The reason why `Sound` survives: only the newest effective row of the whole
Asset is ever corrected, so a correction changes the fact before no other root. From this
follow the anomaly views being empty, the deferred triggers never refusing, the chain, the legal
lifecycle (the return from ON_HOLD, which looks two rows back, included) and the refinement:
a commit adds one entry to the ledger or replaces its newest.

### Capture

`CaptureInv` says that the device's numbers are drawn without gap in every epoch (`Sequenced`),
that the queue, the log, the streams, the calls and the runs of `synchronize()` fit together
(`RowsKept`, `RecordsKept`, `StreamsKept`, `CallsKept`, `SyncersKept`), and that the device
agrees with the server. The argument has two halves. An operation is sent only after every earlier one of
its actor was recorded, and whatever is still in flight, however old, is an operation that was
drawn. So records come in the order of drawing, however many runs and abandoned calls there are;
a server that checks sequences finds neither a gap nor a reuse, and an answer, even a
late one, says what was recorded. `LogStep` then classifies each step as resting, drawing one
operation or recording one, which is a step of `CaptureLog`.

`BatchInv` is about any number of racing requests. A call serves the place whose turn it is in its
own batch (`Placed`), what its transaction has found out is still true (`Backed`), no two calls
hold the same lock (`Collide`), and a response means that its operation is recorded, has
failed, or belongs to an epoch of somebody else (`Settled`). The heart is
`PredecessorsSettled`: the predecessors of the operation whose turn it is stand in the same list,
come first in the order of `ordered()`, and so have their responses. None of them was refused as
foreign, since this operation's epoch is not. So a gap means that the operation after the
last recorded one has failed; and a reuse that a later operation was recorded before this one,
which by `RecordsExplained` happens only after this one has failed. That one batch may have
recorded what another one misses, or the other way round, is covered because `RecordsExplained`
and `Settled` speak of the log and not of a batch. That a least place exists at all is
`FirstPlace`, from the well-foundedness of the natural numbers.

### Procurement and receiving

`OrderInv` is `OrderShape`, `Consecutive` (lines are numbered without a hole, so a new version is
newer than what it supersedes), `Chained` (one root and one leaf per lineage) and `Paired`
(corrections exist only for issued lines; otherwise an edit of a draft could change the facts
under a correction). The lemmas about its steps do not say who takes them, so receiving and
receipt corrections use them as they are.

`ReceivingInv` adds `Locking`, `Committed`, what every transaction's own rows satisfy in its own
view (`Row`), and `Distinct`, which keeps identities and claimed serials apart whether committed
or not. Every expectation an arrival was compared with is frozen, by its committed comparator or
by the order lock of the transaction that is about to bind it, and a receipt's lines change only
under its lock; hence what a transaction classified is what its rows imply when it commits,
`Complete` never refuses it, and a sealed receipt stays closed. That a selected line is not
superseded before the commit is an invariant of its own (`ChosenCurrent`): a selection is made under
the order's lock, on a line that is active then, and an amendment needs that lock. `SealedHandedOver` collects what the
next component relies on: every line of a sealed receipt selects an order line that the receipt has
pinned or none, the pinned generations are current, the order is issued, a serial is unreadable,
absent or that of an Asset, and the exceptions of the receipt are those of its own lines and totals.

### Corrections of a receipt

`ReceiptInv` has two halves. `TableInv(T)` is about the tables, and takes them as a record because
the same facts are needed of the committed tables and of `After(t)`, which no state holds yet:
nothing that is pinned changes (`Pinning`), every generation was caused by one evaluation
(`Counted`), every evaluation still passes the anomaly view (`Evaluated`), a workflow repeats its
events (`Worked`), and the live observations are one to one the disagreements of the effective
facts (`Exact`, `Settled`). `Rows` and `Locking` say of every transaction what it holds, what it
waits for, and that what it has read is still true: a correction that has locked the first k
workflows has seen their present rows.

The argument has four steps: `After(t)` renews the tables by one pair, one evaluation and the
observations nothing records yet (`AfterRenews`); renewed tables satisfy `TableInv`
(`RenewedTables`), so `Healthy(After(t))` holds and the commit is never refused; a status change
keeps `TableInv` (`MovedTables`); and no other step disturbs the row of a transaction it does not
move. On the way the proof shows that the two internal errors of `_evaluate`, a duplicate
supported observation and a receipt comparator without source, cannot arise (`Exact`, `Covered`).
`NoCircularWait` follows from the order in which locks are listed, for infinite sets of
transactions too.

The specification starts from any sealed receipt in `Captured` whose bound lines are present
in the order. That is what `Receiving` leaves, by `SealedHandedOverProven`. The step from one to
the other is a reading and not a theorem, because `Captured` is a constant there and a state here:
the lines of the receipt are numbered in order of identity, and its exceptions are listed.

### The services

- Sessions (`SessionsInv`): rows written but not committed are timely already, a session about
  to be issued is new and belongs to one login, a logged out one is inactive; the session of an
  open request belongs to a known user, and a statement that has passed its check, or would pass
  it now, is entitled (`EntitledInv`).
- Labels (`LabelsInv`): a dispatch in progress holds the job's lock; a decided success has its
  file; a recorded success keeps it unless the host took it; downloads were of that file.
- Evidence (`EvidenceInv`): an upload past `Put` has its bytes in the store, rows supersede rows
  that were committed before them, and each answer agrees with its row.
- Sync conflicts (`ConflictsInv`): the events of a conflict follow the graph, and one inserted
  but not committed still follows, because its handler holds the lock.
- Space (`SpaceInv`): of the committed locations, and of what each open transaction sees, every
  parent is present and of the same facility (`ParentsPresent`), and every set of locations has one
  whose parent lies outside it (`Grounded`); and no two transactions insert the same location
  (`Apart`). The trigger's query is a recursive function, so the proof
  first shows that its equations have a solution (`Repeated`, an induction from the least
  counterexample), then what it has walked after n steps (`WalkStays`, `FurtherWalks`), then
  that it ends: a walk without repetition is no longer than there are locations
  (`AncestryEnds`). With that, a statement the trigger accepts keeps the hierarchy
  (`AcceptedHierarchy`), and so does committing it beside what others have committed meanwhile;
  and in a hierarchy the walk is complete and visits exactly `Above` (`PathComplete`).

### Assumptions

Only the named `ASSUME`s of the modules: bounds are natural numbers, `Null`, `None` and the other markers
differ from the values they stand beside, guesses lie below the bound (`ConstantsAssumption`,
`OperationAssumption`, `ClientAssumption`, `ServerAssumption`, `KindsAssumption`,
`ProcurementAssumption`, `ReceivingAssumption`, `ReceiptCorrectionsAssumption`,
`LabelsAssumption`, `EvidenceAssumption`, `SessionsAssumption`, `SyncConflictsAssumption`,
`SpaceAssumption`, which also says that there are finitely many locations).
`ReceiptCorrectionsAssumption` also says what the given orders, receipts and changes are: an
issued order with one line per logical line (`IssuedOrder`), a receipt sealed against it (`SealedReceipt`) and
facts that the request models accept (`CorrectableFacts`). TLC evaluates all of them in the runs
of their modules.

### Only model-checked

- `EveryCaptureSettles` is liveness under fairness, which the prover cannot express.
- `ScanNamesItsLine` is violated by the code, as section 3 says.

## 5. Not modelled

- `patch_asset` edits the tag and the description of an Asset without touching its version or
  history. `Labels` has the description, because labels copy it; the tag behaves alike.
  Reasons, notes and timestamps carry no control.
- Tenancy: every statement is qualified by the organisation, and the model is one
  organisation. Grants, row-level policies and table definitions are declarations.
- The payload models of capture: a payload is valid or not, and the outcome is chosen.
- A photo whose upload the server refuses for good. Every upload without an answer that can be
  used is `Fail`, a fault, and `EveryCaptureSettles` assumes that faults cease. `sync.ts` has no
  other way either: it records the message, stops, and tries the oldest photo again next time, so
  such a photo stays unsettled, and so do the photos behind it. Captures and links, which go first,
  are not held up.
- How a label looks, screens, camera, proxy, the read cache and the offline shell.
- `update_order` changes the number, vendor and notes of a draft, which no guard reads; the
  owner, custodian and notes of a receipt line decide nothing. One order is modelled, as no
  operation touches two.
- Asset configurations: single appends without lock or version, in the order of an identity
  column; nothing reads them but the history.
- History readers, the aggregate reconciliation and the resolver only read. What the
  reconciliation looks for are invariants of `AssetHistory`.
- Catalog, parties and Actors, but for the unit and the serialized policy of an Item: inserts and
  updates of one row behind unique constraints. So are the codes of locations and facilities.
- Passwords and tokens are identities; who disables a user or an Actor is outside the service.
- Temporary files that a crash leaves behind: nothing ever reads them.

## 6. Plan

All components with a protocol of their own are modelled, and their safety properties proved.
What is left:

1. One specification in which receipts are received and then corrected, so that the handover above
   becomes a step. It would replace `Captured` and `Orders` by the reachable states of `Receiving`,
   at the price of a state space that TLC can only visit with one line and one correction.
2. Operations of capture that carry out the domain operations instead of choosing their outcome,
   which would join `CaptureServer` with `AssetHistory` and `Receiving`.
