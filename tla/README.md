# A TLA+ model of Bob's Big Brain Registrar

The registrar keeps a team's governed memory. Proposals ("candidates") enter an
inbox; deterministic rules decide which become memories, which wait for a person
and which are refused; memories age, are superseded, redacted and merged; every
change leaves a receipt in a hash-chained audit log. All of it lives in one SQLite
file that several processes open at once.

This directory models that system in TLA+, checks the model with TLC on small
instances and proves the main safety results with TLAPS for every value of the
constants.

## 1. Inventory

### 1.1 Where concurrency comes from

Each program is synchronous inside (better-sqlite3 blocks), but several programs
run over one database: the API server, `curator-cli` in its many commands, the
edge daemon, the MCP server, the plugin's govern sweep. A handler typically
*reads* (outside any transaction), *decides*, and then *commits* one
`BEGIN IMMEDIATE` transaction. Between the read and the commit any other process
may commit, and the process may be killed. In the models each read is therefore
a step and each transaction is one atomic step; a statement that runs outside a
transaction (autocommit) is a step of its own. Files (the anchor log and its
lock, the PID file, the export tree, the spool) have no transactions: each
system call is a step.

### 1.2 Components

| component | state | operations | what is hard | what makes it correct |
|---|---|---|---|---|
| hold queue (`apps/curator/src/hold`) | `held`, `hold_recommended`, `hold_resolved` receipts, candidate status | place, recommend, release, reject, expire | four programs may end or bypass one hold; a rollback deletes its row; a bound on open holds; time | a hold ends once; a release stays a release; nothing else admits a held candidate; the cap; every hold ends |
| curator pipeline (`curator.ts`, `promotion`, `dedup`, `rejection`) | candidates, memories | processSingle, processBatch, promote | decides on what it read; batches outlive the state they listed | one memory per candidate; every memory has its receipts |
| API services (`apps/api/src/services`) | the same | approve, reject, transition, narrow, recategorise, holds | memory and candidate stamped in two transactions | a rejected candidate is not promoted |
| memory repository (`packages/store`) | `curated_memories` | insert, updateLifecycle, supersede, update | some writers rewrite the whole row they read earlier | the lifecycle graph; edits are not undone; supersession is acyclic |
| redaction, audience narrowing | memory rows, candidate copies, `redacted` receipts | redactMemory, narrowAudience | whole-row writes; promotions and intakes that still hold the text | removed text and hidden memories stay so; receipts account for every row |
| physical and index scrub (`redaction-scrub.ts`, `qmd-adapter/src/scrub`), native and dense index | pages and log of the store; an SQLite file per index and tenant | redact, scrub-index, ensureFresh, dense sync | refreshes in flight that hold the old file; blocked statements; kills; removed text known to one run only | a scrub reported complete left nothing, and nothing comes back; a retry gets there |
| batch transition, staleness sweep, reviewed settlements | lifecycles | list then apply | stale listings; statements without a transaction | receipts tell the state |
| audit chain (`audit-repository`, `audit-verify`) | `audit_events` | append, verify | concurrent appends; altered rows | the chain is linear; the verifier blames exactly the altered rows |
| signed merge anchors (`signed-merge-anchor`, `cli.ts`) | anchor log, lock file | lock, read clock, append, verify | lock stealing, kills | one chain of anchors; alarms exactly when history changed |
| merge gate (`merge-gate.ts`, `audit-verify-merge.ts`) | clones read-only, a target | mergeGovern, row by row | kills and failures between rows, reruns, two merges at once, order of the clones | one memory per text; as good as one atomic merge; A with B is B with A; a rerun converges |
| edge daemon (`apps/edge-daemon`) | PID file, cycle | ingest, curate, sweep, export, index | two daemons; one step failing, the next going on | nothing handed on twice; nothing fresh that is not indexed |
| git exporter, index refresher | export tree, `export_state`, `index_state` | incremental and reconciling export, index update, mark | overlapping runs, stale reads, unwritable files | the cursor passes nothing that is not on disk; a reconcile repairs the tree |
| spool capture and intake, import pipeline | JSONL files, manifests, `candidates`, `import_batches` | capture, ingest, import, roll back | two readers of one spool, caps, abandoned batches | each capture decided on; a ledger that is true |
| selected governance, recovery | manifest, run ids | govern a reviewed selection | all or nothing, replays | settles once |
| policy engine, secret scanning, origin and import gates | none | pure decisions | - | order of rules, caps |
| token registry, resolver, reporting, evaluation, search ranking | caches | - | - | not part of the governed state |

Components interact through the database (shared state), by calls (the daemon
and the CLI embed the curator; the MCP server calls the store or the API) and
through files (spool to intake, export tree to index). There are no messages
between processes and no callbacks that outlive a call.

### 1.3 Hazards

`PROJECT.json` lists each hazard at the line where it bites, with the properties
that cover it. A hazard without a property has a note that says what is missing;
a note on one with properties says where they stop.

## 2. Modules

| module | what it models | kind |
|---|---|---|
| `HoldPromise` | what the runbook promises of a hold: no processes, no stale reads | abstract specification |
| `HoldQueue` | the hold queue and everything else that moves a candidate, the rollback of its import batch included | component |
| `HoldQueue_proofs` | theorems about it | proofs |
| `Lifecycle` | what the schema promises of a memory's lifecycle and successor: no processes, no plans | abstract specification |
| `MemoryStore` | `curated_memories` and every program that rewrites a row | component |
| `MemoryStore_proofs` | theorems about it | proofs |
| `Ledger` | what the store promises of its receipts: no transactions, no hashes, no lock files | abstract specification |
| `AuditChain` | the receipts' hash chain, its verifier, the signed anchors and their lock | component |
| `AuditChain_proofs` | theorems about it | proofs |
| `MergeGate` | merge-govern: clones united by id and governed again into a target | component |
| `MergeGate_proofs` | theorems about it | proofs |
| `ExportIndex` | exporter, freshness mark and the programs that run them | component |
| `ExportIndex_proofs` | theorems about it | proofs |
| `Intake` | spool, inbox and import batches, up to the curator's decision | component |
| `Intake_proofs` | theorems about it | proofs |
| `Wording` | what the runbook and the provenance walk take for granted of texts: every change in one moment | abstract specification |
| `Redaction` | where the text of a candidate goes and how it is taken out again | component |
| `Redaction_proofs` | theorems about it | proofs |
| `IndexScrub` | a redacted text in the files of the store and of the search indexes | component |
| `IndexScrub_proofs` | theorems about it | proofs |
| `MC_*` | instances and symmetry sets for TLC | model checking |

`"map"` in `PROJECT.json` names the lines each definition stands for. Operators
whose comment begins with "Mutant:" are plausible bugs; they are not used by the
specifications and exist to show that each property can fail.

### 2.1 HoldQueue

State: `status` is `candidates.status`; `hold` and `resolution` are the `held`
and `hold_resolved` receipts (the id of the latter is derived from the
candidate, so at most one exists); `advice` the recommendations; `memory` the
candidates with a curated memory; `fires` the candidates whose triggers fire
today; `task` what each process is doing and has read; `undone` the candidates of
an import batch that is marked `rolled_back`. The constant `Imported` names the
candidates that come from import batches. A candidate without a row is `absent`.

| action | code |
|---|---|
| `Capture` | `CandidateRepository.insert` |
| `RollbackImport` | `rollbackImport`: `deleteByBatch` removes the batch's rows whatever their status |
| `Approve`, `Decide`, `Promote`, `Stamp` | `PromotionService.promoteCandidate`: reads and gate; `promote()`'s transaction; `updateStatus` |
| `BatchRead`, `BatchNext`, `PlaceHold`, `Return` | `Curator.processBatch` and `processSingle`, `placeHold` |
| `RejectCandidate` | `PromotionService.rejectCandidate`, `rejectReviewedCandidate` (same guards, one transaction) |
| `GovernSelected` | one binding of `governSelectedCandidates` |
| `Recommend` | `recommendOnHold` |
| `ResolveRead`, `ResolveReject`, `ResolveRelease` | `resolveHold` and `release` |
| `ExpiryRead`, `ExpireHold` | `expireHolds`, `expireHold` |
| `Crash`, `Throw` | a kill between two steps; an exception, which leaves the whole call |

Abstractions. The verdicts of the gate (duplicate, redacted, policy, origin,
import exclusion) are a nondeterministic refusal, `Skip`; so are the audience,
standing and acknowledgement checks of a release. Time is kept only as far as a
hold sees it: inside its bound or past it. `placeHold` computes its time just
before its transaction. `ChangeRules` stands for policy edits and for redactions
that rewrite candidate text. A sweep takes elapsed holds in any order (the code
goes by `expiresAt`). A batch never stamps a candidate; only the API, a release
and the selected governance do. A batch to roll back is any set of stored imports, and the
two statements of a rollback are one step here (`Intake` has them apart, with the ledger).
An import is stored in the inbox and never from a member, so the role of its author holds
nothing; its id comes from its content, so a second import after a rollback is the same
candidate. An `UPDATE` of a row that is gone changes nothing (`UpdateStatus`): an approval
or a release whose candidate was rolled back meanwhile leaves a memory and no row.

### 2.2 MemoryStore

State: `row` is `curated_memories` cut down to the lifecycle, whether the text
is the original, the audience tier and the successor; `said` is the lifecycle
stated by the newest lifecycle receipt; `redacted` and `narrowed` the receipts
of edits; `task` the calls in progress. Which processes run is a parameter: a
set per kind of writer.

| action | code |
|---|---|
| `PlanPromotion`, `CommitPromotion` | `planSupersession`; `promote()`'s transaction |
| `Supersede`, `Transition` | the API's and the MCP server's transition, inside an immediate transaction |
| `BatchRead`, `BatchApply` | `cmdBatchTransition`: listing, then one transaction per memory |
| `SweepRead`, `SweepCheck`, `SweepWrite`, `SweepReceipt` | `runStalenessSweep`: four statements, no transaction |
| `EditRead`, `Redact`, `Narrow` | `redactMemory`, `narrowAudience` |
| `ReviewRead`, `Settle` | `settleReviewedStaleness`, `archiveRecoveredSource` |

Abstractions. The memories a promotion supersedes are any set of active ones up
to the cap. Recategorisation rewrites a field the model leaves out, in one
transaction, and is not modelled. A memory is stale at any time. The stale
`from` in a batch receipt and the evidence a reactivation must cite are left
out.

`Lifecycle` is what the store implements without editors and sweeps
(`ImplementsLifecycle`). Its state is the `life` and `succ` of every row; a memory
enters in the place of a group of earlier ones (`Enter`), is replaced by an active one
(`Replace`) or moves along the graph (`Move`). What a promotion retires may be in any
state by then, so `Enter` allows that and nothing else does.

### 2.3 AuditChain

State: `log` is `audit_events` in `seq` order, a row being its id, whether its
content is as written, the hash it links to and its own hash; `writer` and `tx`
are SQLite's write lock and the transactions in progress; `anchors` is the
signed-merge-anchor log; `lock` its lock file; `run` the merge invocations;
`altered` and `lost` record what happened behind the program's back: rows edited
in place, and hashes replaced by a rewrite of history.

A hash is modelled by what it covers, so it is injective: the hash of a row is
the sequence of everything the chain up to it says. A signature adds nothing to
that and is not modelled.

| action | code |
|---|---|
| `BeginImmediate`, `AppendEvent`, `Commit`, `Rollback` | `AuditRepository.insert`, alone or nested in a caller's transaction |
| `BeginDeferred`, `Upgrade` | `batch-transition`'s `db.transaction(...)`, which is deferred |
| `EditRow`, `Rehash` | not code: alterations of the file |
| `OpenLock`, `StatLock`, `StealLock`, `ReleaseLock`, `AgeLock` | `acquireAnchorLock` |
| `ReadTail` ... `VerifyAnchors` | the locked section of `cmdMergeGovern`, `appendSignedMergeAnchor`, `verifySignedMergeAnchors` |
| `Throw`, `Crash` | the `finally` that releases the lock; a kill, which does not |

Abstractions. A verification reads the anchor log and the chain in one step.
`AgeLock` assumes the bound the code documents: a process that still works under
the lock finishes within 60 seconds. A killed invocation does not return: a new
one is another member of `Mergers`. A torn last line of the anchor log, which makes
every later read throw, is not modelled. Rows from before the hash columns, and v1
hashes, which also cover the timestamp, are not modelled. The parents of an
anchor are those of the invocation that wrote it (`by`).

`Ledger` is what the whole implements (`ImplementsLedger`): `said` is, row for row, the id
and whether it says what was written; `sealed` the chain length each anchor names. A
transaction is one `Record`, whatever the isolation it began with; an edit, alone or before
a rewrite, is one `Alter`; an anchor is one `Seal`.

### 2.4 MergeGate

State: `clone` and `store` are the `curated_memories` of the clones and the
targets, a row being its id, its text (and with it `content_hash`), its audience,
whether it is active and the merge clock it was stamped with; `receipts` the texts
that `redacted` receipts name; `chain` the `promoted` events the merges append;
`pc`, `todo` and `seen` what each merge-govern process is doing: the rows of the
union it has not reached, and its `existingHashes`. Two targets that start as
copies of one store serve to compare two orders of the clones.

| action | code |
|---|---|
| `RefuseUnion` | the whole-union id check, `MergeIdInvariantError` |
| `StartMerge` | `cmdMergeGovern` and steps 1 to 3 of `mergeGovern` |
| `Quarantine`, `PromoteRow`, `Conflict` | one pass of the loop: refused, promoted in its transaction, or ended by the primary key |
| `FinishMerge`, `Kill` | the return; a kill between two rows |
| `Retire`, `Redact` | another process changes a row of the target |

Abstractions. The disclosure check and the policy are a set of refused texts, and
the same for all targets. An id fixes the text it was derived from (`TextOf`). Ids are
numbers in the order of the hashes. `mergeGovernFold` is a merge of a longer list of
clones. A merge that failed may be run again at any time.

### 2.5 ExportIndex

State: `mem` is `curated_memories` as far as an export looks at it, with a revision
that stands for the content; `tree` the export tree and `index` the copy of it the
search index last read; `cursor` is `export_state.last_exported_at`, `mark` is
`index_state.last_indexed_at`; `run` what each exporter process has read and still
has to write; `clock` time. Two things are kept for the properties only: `behind`,
the memories a run wrote from a row that had changed meanwhile or removed files of,
and `stray`, the memories a run left in doubt with no cursor to recall them.
A memory is `Fresh` when the gauge does not count it: promoted at or before the mark.

| action | code |
|---|---|
| `Promote`, `Change` | `promote()`; every later write of a row, with its `updated_at` |
| `Begin` | the freshness mark and `startedAt` of a run |
| `ReadChanges`, `Scan` | `detectChanges`; `findStaleFiles` |
| `WriteItem`, `RemoveFile`, `SetCursor`, `EndReconcile` | the loops and the last statement of `runExport` |
| `UpdateIndex`, `MarkIndexed` | `reindex` or `update`; `markIndexed` |
| `Kill`, `WriteFails`, `ExportSwallowed` | a kill or a throw; a quarantined memory; `exportStep`'s catch |

The daemon, the API's refresher and the operator's command run the same steps with
the differences that matter: the operator reconciles, has a cursor of its own and
neither indexes nor marks; only the daemon goes on after a failed export.

Abstractions. Mark and `startedAt` are sampled in one step (the code samples the mark
first, so it can only be older); likewise a retried export is taken as a new run. A
change is stamped in the step that commits it: the comment at `exporter.ts:34`
states this as an assumption of the cursor, and the properties say nothing of a
change that breaks it (a write stamped before and committed after an export's read, or a
merged memory, stamped in January 2026). A memory is never deleted, so there are no
orphans. `archiveFile`, which removes and then writes, is one step. Tenants are left out.

### 2.6 Intake

State: `spool` is the number of lines of each spool file; `row` the
`import_batch_id` of each stored candidate and `inbox` those whose row says `inbox`;
`ledger` is `import_batches`; `task` what each process is doing, with the counts of
the batch and the candidates to hand on; `undoing` rollbacks between their two
statements; `decided` what the curator has decided on.

| action | code |
|---|---|
| `Capture`, `Drop` | `writeToSpool`; a producer of batch files |
| `BeginCycle`, `OpenFile`, `SkipFile` | `listSpoolFiles`; reading, admission and the batch row; a file passed over |
| `BeginImport` | `executeImport` |
| `Look`, `Insert`, `Refuse`, `Collide`, `CloseFile` | one line: `findById` (or `detectCollision`), `insert` with its three outcomes; `updateCounts` and `complete` |
| `BeginCurate`, `Decide` | the cap, `processBatch`, one candidate at a time |
| `Sweep` | the nightly sweep over `findByStatus('inbox')`, which is installed apart from this code |
| `RollbackRows`, `RollbackMark` | the two statements of `rollbackImport` |
| `Kill` | a kill, or an exception that ends the batch |

Abstractions. A candidate is its content, so the same candidate in two files has one
id; in the code a vault and a spool derive the same id only for the same workspace
and path. The verification of a file is a fault that may or may not occur, and its move to the
quarantine directory is left out. `updateCounts` and `complete` are one step, as are the
lookup of a batch and its insert. A verdict depends on the content alone (`Admitted`).

### 2.7 Redaction

State: `row` and `memory` are the contents of `candidates` and `curated_memories`, a
memory being named by what its id is derived from, the candidate and its content;
`rowTrail` and `memTrail` are the `redacted` receipts of each, in chain order; `floor`
is the content named by the sensitivity constraint of a candidate and `floored` the
memories stored under one; `promoter`, `intake` and `operator` are what each process
has read; `redactions` counts up to the bound.

| action | code |
|---|---|
| `Propose` | `CandidateIntake.intake`, one immediate transaction |
| `CheckText`, `Insert` | a spool or vault line: the receipts asked by `insert`, then its statement |
| `TakeUp`, `CheckDuplicate`, `CheckRedacted`, `Resolve` | `processSingle` and `promoteCandidate`, one read each |
| `Promote` | `promote()`: the constraint again, under the lock, then the memory |
| `GiveUp` | a refusal, a throw or a kill |
| `Settle` | one binding of `governSelectedCandidates`: constraint, gate and promotion in one transaction |
| `Plan`, `ListCopies`, `Redact`, `Withdraw` | `redactMemory`: what it reads, `candidateCopies`, its transaction, every other end |
| `Plan`, `Narrow` | `narrowAudience`: the memory it reads, and the whole row it writes back |

`MemoryStore` has the whole-row writes of a redaction beside transitions; here lifecycles are
left out and the texts are kept. Abstractions. A content hash stands for the text. A batch reads
its candidates before the first, so `TakeUp` may hold any text the row has had; that
`processBatch` also keeps the hashes it promoted itself only refuses more. A change of the title
alone is a redaction to the same text. `Quiet` says that the operator follows the runbook
(`src/000-docs/054-OD-RNBK-governed-redaction-and-audience-narrowing.md:178`) and stops
every process before the redaction; without it nothing is stopped. The scrub of
freed pages and of the index files is `IndexScrub`.

An operator is anyone who writes a memory's row back whole, so "one operator" says that no
narrowing runs beside a redaction either. Rows of candidates are never deleted in this
module. What the rollback of an import batch does to a candidate is in `HoldQueue`, to its batch
in `Intake`; a promotion or a redaction that is in flight while the row of its candidate is
deleted, and the text of a row that is imported a second time after a redaction, are
therefore in no property of this one.

`Wording` is what it implements with one promoter and one operator (`ImplementsWording`):
the same rows, memories and receipts, changed by `Capture`, `Admit` and `Reword` only. An
`Admit` asks, in the moment it happens, for everything the promoter checked in three
steps before; a `Reword` changes the memory and its candidate's row together.

### 2.8 IndexScrub

`curator-cli redact` goes on after its transaction: it scrubs the store's file and, in a
child process, every index file of every tenant. The model follows one memory and one
file, chosen at the start: the store, qmd's cache, the native FTS5 index or the dense
sidecar. State: `text` and `place` are what the store says of the memory; `exported` and
`mtime` the export file; `rows` and `known` the rows of the index and the native `files`
table; `residue` what remains of the old text in the file when no row holds it, in FTS5
segments, freed pages, the write-ahead log or qmd's inactive rows; `task` what a refresh or
a reindex has read; `run` the operator's run. `reported`, `run.cut` and `withheld` are kept for
the properties only.

| action | code |
|---|---|
| `ArchiveMemory`, `Export` | a transition; `writeFile` and `archiveFile` |
| `RefreshStat`, `RefreshSelect`, `RefreshRead` | `ensureFresh`: `stat`, `SELECT ... FROM files`, `readFileSync` |
| `RefreshInsert`, `RefreshReplace`, `RefreshRemove`, `RefreshFiles` | its four transactions |
| `QmdUpdate` | `qmd update`, an external program |
| `DenseRead`, `DenseUpsert` | `DenseIndexer.sync` before and after the embedder answers |
| `TaskEnds` | a kill, a throw, an embedder that is down |
| `Redact`, `Confirm` | `cmdRedact`, also a rerun that answers `unchanged`; `qmd-index scrub-index` |
| `LoadTruth` | `loadExportTruth` |
| `ScrubStore`, `ScrubIndex`, `Truncate`, `Vacuum` | `scrubFreedPages`; `deleteAndRebuild` and `compact` |
| `Blocked` | `SQLITE_BUSY`, a refused layout, a refused mass removal |
| `Report` | the byte scan and the verdict |
| `Kill` | a kill of the operator's process or of its child |

Abstractions. Files share nothing but the export tree and the operator's run, and what a
run does on other files can only make it report less, so one file at a time is enough.
An export is one step (its interleavings are those of `ExportIndex`), and so is the sync of
all changed files of a dense index. A modification time never occurs twice. What SQLite
leaves behind is `Written`, `Rebuilt`, `Vacuumed` and `Truncated`: a deletion without
`secure_delete` leaves freed cells and, in FTS5, tokens; VACUUM and every write go through
the log; a truncating checkpoint empties it. A byte scan finds whole copies but no
tokens. qmd writes the index files without `secure_delete`. The text followed is that of the
memory's own row: `StoreClean` says nothing of a copy of it that another candidate brings into
the same file while the redaction runs, which `Redaction` shows to stay there.

## 3. What is checked

| run | instance | properties | what it shows |
|---|---|---|---|
| `HoldQueue_changing` | 2 candidates, one imported, with rollbacks; 2 processes, cap 1, one rule change | `TypeOK` `CapRespected` `ReleasedIsAdmitted` `ResolvedOnce` | whatever the rules do, the cap holds, a release is final and a hold ends once |
| `HoldQueue_fixed` | 2 candidates, one imported, with rollbacks; 2 processes, fixed rules, one kill, no recommendations, fairness | `HeldUntilResolved` `ClosedUnpromoted` `ImplementsPromise` `EveryHoldEnds` | with fixed rules the processes implement `HoldPromise`, and every hold ends by a resolution or with its row |
| `MemoryStore_history` | 3 memories, 2 curators, a batch, a settlement | `NoCircularHistory` `ReceiptsTell` `ImplementsLifecycle` | the writers implement `Lifecycle`, supersession stays acyclic and receipts tell the state |
| `MemoryStore_edits` | 2 memories, a curator, an editor, a sweep | `EditsStick` | one edit at a time is never undone |
| `AuditChain_log` | 2 events, 2 writers, 2 merges, one kill, 2 alterations | `BreaksExact` `AlarmExact` `AnchorsLinked` `VerdictsTrue` `ImplementsLedger` | the store implements `Ledger`, and verifiers blame exactly what was altered |
| `MergeGate_merge` | 2 clones, 2 targets, 3 merges, 5 ids, 4 texts, one kill | `OneMemoryPerText` `MergeIsAtomic` `Commutes` `Converges` | a merge is as good as atomic, in either order of the clones, and converges |
| `ExportIndex_runs` | one memory, 2 revisions, 2 directories; daemon, and a refresh or a reconcile beside it; one fault | `TypeOK` `CursorSound` `FreshIsIndexed` `ReconcileRepairs` `EventuallyIndexed` | but for memories in doubt: no change is passed over, nothing promoted before the mark is missing from the index, the index catches up |
| `ExportIndex_swallow` | one memory, the daemon, one failed export | `GaugeHonest` violated | a memory never exported counts as fresh |
| `Intake_race` | 3 candidates, a capture, a batch file, a vault; daemon, ingest command, sweep; cap 1, one fault or rollback | `TypeOK` `HandedOnce` `LedgerTrue` `EveryCaptureDecided` | ingests that collide lose nothing and count right |
| `Redaction_live` | 3 candidates, 3 texts, a promoter, an intake, an operator, 2 redactions; nothing stopped | `OneMemory` `StaysGone` `TrailTrue` `ImplementsWording` | no text is promoted twice or comes back to a memory, the receipts account for every row, and all of it is as good as atomic (`Wording`) |
| `Redaction_quiet` | the same with 2 promoters and recovery runs, all stopped for a redaction | `ConstraintKept` `CopiesGone` | constraints are kept, and removed text is in no candidate row |
| `IndexScrub_runbook` | the store or one of three index files, 2 paths, a process that refreshes or reindexes, an operator, one fault | `StoreClean` `Confirmed` `Withheld` `EventuallyScrubbed` | what is reported complete is clean and stays so, and a retry gets there |

The bounds. Two processes and two candidates are enough for a read of one to
straddle a commit of the other on the same or on another candidate, and for a
cap of one to be contended; a third would only repeat this. Three memories allow
a chain of two supersessions to close into a cycle. Two events and two writers
give every order of two transactions, two alterations an edit before and after a
rewrite. `MaxRuleChanges`, `MaxCrashes` and `MaxEdits` bound what would
otherwise recur for ever; one change and one kill at any point of any call
suffice, since a second acts on a state a first could have produced. Rollbacks are not
bounded: rows come and go as long as the processes work. To keep the runs small kills are in
`HoldQueue_fixed` only (in the other a process may stop for good, but then no call takes its
place) and recommendations in `HoldQueue_changing` only, where the cap on them can bite; the
proofs have both, in any number.

In `MergeGate_merge` ids 1 and 3 hold one text, 2 a refused one, and 4 is held by both
clones, with another audience or redacted in one; so a duplicate inside the union, one
against the target, a quarantine, a refused union and a conflict on the primary key
all occur, and two merges overlap in one target. One memory suffices in
`ExportIndex_runs`, since runs treat memories independently but for the cursor, the
mark and the scan, which the proofs cover for any number; two revisions let a change
fall between a read and a write, and a clock of two instants an event at, before and
after a cursor. In `Intake_race` two ingests and an import meet on one line and the
daemon's cap is reached when capture and batch arrive in one cycle; its invariants
were also checked with two faults.

In `Redaction` two candidates share a text and the third has one an operator may also
write, so a copy, a re-ingest, a redaction back to a known text and one of another's
replacement all occur; the second redaction may act on the memory of the first or on
another. The proofs are for any number of each.

In `IndexScrub_runbook` one process refreshes or reindexes over and over, so a step of its can
fall between any two of the operator's, and one fault hits any statement of any run. Two
paths let the memory be archived, which moves its file. An unchanged text is not exported
again in the run; with one such export (`MaxTouches = 1`) it passes as well.

The types of `MemoryStore`, `AuditChain`, `MergeGate`, `Redaction` and `IndexScrub` are proved
and not checked by a run.

`CHECK_DEADLOCK FALSE` is set for `MemoryStore`, `MergeGate` and `Redaction` only: a store
in which every memory is archived has nothing left to do, a merge whose union is
refused really stops, and with every candidate captured and the redactions used up
nothing need follow.

Fairness (`HoldQueue_fixed`). Weak fairness for the steps of a call that has
begun (the processes are synchronous, so a started call goes on), for the
passing of time, and strong fairness for "some process starts the expiry
sweep": the runbook's section 11 says that expiry needs a caller, and the
sweep may find every process busy again and again. Nothing is assumed of
approvals, releases or the batch's start. A sweep that lost a race leaves the
holds after it for the next one, and the property shows that this ends.

Fairness (`MergeGate_merge`). Weak fairness for the steps of each merge, starting
again included: the runbook has the operator run a failed merge again. Kills are bounded,
and nothing is assumed of retirements and redactions.

Fairness (`ExportIndex_runs`). Weak fairness for the daemon only: it begins a cycle at
every interval and its cycles go on. Refreshers and operators may stop anywhere.
`EventuallyIndexed` speaks of the time when the bounded changes have ceased, and of the
memories that are not in doubt: one whose file could not be written, or that a run wrote from
an outdated row, is passed by the cursor, and only its next change or a reconciling run repairs it.

Fairness (`Intake_race`). Weak fairness for the daemon's polling and cycles, and for the
sweep where it is installed. Without the sweep `EveryCaptureDecided` fails: see below.

Fairness (`IndexScrub_runbook`). Weak fairness for the steps of a refresh or a sync that has
begun, for the export of a memory whose file is not up to date (the daemon exports in every
cycle), and for the operator's run; strong fairness for the operator's retry, because runs
of other kinds may occupy the operator again and again: a run that reports itself
incomplete is to be repeated, `redact` for the store and `scrub-index` with the right
`--export-dir` for an index (`src/000-docs/054-OD-RNBK-governed-redaction-and-audience-narrowing.md`,
sections 4.6 and 4.7). Faults are bounded; nothing is assumed of searches, `qmd update` or
the start of a sync.

### Findings

`ExportIndex_swallow` shows a disagreement between the code and what its comments say of it;
`PROJECT.json` quotes both sides. In short, the daemon marks the index as fresh after an
export that failed.

Other instances, made from the configurations by changing the constants named, reproduce
behaviours that have no run of their own:

- `HoldQueue_changing` violates `HeldUntilResolved`: an approval does not look for an open
  hold, and decides on triggers that may have changed before it commits
  (`src/apps/api/src/services/promotion-service.ts:296`), so after one policy edit a held
  candidate is promoted and its hold has no resolution.
  `src/000-docs/055-OD-RNBK-human-escalation-hold.md:155` says of promote and reject
  "Neither path can release or retire a held candidate, whoever calls it."
- `ExportIndex_runs` with `Faults = {}` violates `FreshIsIndexed` if its last line is replaced by
  `FALSE` (whatever is fresh is indexed): a promotion committed after an export has read the
  store, at the very instant the run was stamped with, counts as fresh, because the gauge asks for
  `promoted_at > last_indexed_at`
  (`src/packages/store/src/repositories/index-state-repository.ts:82`), and is not in the index.
  `src/apps/edge-daemon/src/cycle.ts:319` says "under-claiming freshness is the only allowed
  error direction", `src/apps/api/src/services/index-refresher.ts:85` "never over-claim it". It is
  one instant wide, and the next run reads the memory again, which is what the property states.
- `HoldQueue` with a rollback: the row of a held candidate is deleted and its `held` receipt
  stays open. No listing, sweep or release finds such a hold
  (`src/apps/curator/src/hold/hold.ts:270` wants the row), it does not count against the cap, and
  the candidate, imported again, waits in the inbox: it cannot be held a second time, nor is it promoted
  while its triggers fire. `src/packages/store/src/repositories/candidate-repository.ts:213` says of the
  row of a governed candidate that it is "NEVER deleted". The properties of statuses exempt such a candidate.
- `MemoryStore_history` with a sweeper, or with an editor, violates `ImplementsLifecycle`: a
  sweep judges a row in one statement and deprecates it in another
  (`src/packages/store/src/repositories/memory-repository.ts`, `updateLifecycle` outside a
  transaction), and an edit writes back the lifecycle it read, so a memory archived in
  between is deprecated or active again.
- `MemoryStore_edits` with two editors and no sweep violates `EditsStick`: narrowing and
  redaction write back whole rows they read outside the transaction, so of two that
  overlap the later restores the other's old text or audience.
- `AuditChain_log` with three merges violates `AnchorsLinked`: the check of a stale lock and
  the unlink are two steps (`src/apps/curator/src/cli.ts:1873`), and a waiter that is slow
  between them removes the lock of another, so two merges append at once.
- `Redaction_live` violates `CopiesGone`: a redaction lists the candidate copies before its
  transaction (`src/apps/curator/src/redaction/redact-memory.ts:416`), so a copy stored
  meanwhile keeps the removed text, and a rerun answers `unchanged` before it looks.
- `HoldQueue`: a rejection that commits between the reads of an approval and its
  transaction is overridden, since `promote()` does not look at the candidate's status.
- `MemoryStore` with a curator and a direct transition: `promote()` supersedes on a plan made
  before its transaction, so a memory archived meanwhile goes from archived to superseded.
- `MergeGate` with `Redactable` containing an id whose text a clone holds under another id
  (3 in the instance): the merge writes the redacted text again. `MergeIsAtomic`
  exempts such merges. With rows of one id that differ in audience, the two targets keep
  the audience of the clone each was given first: `Commutes` compares ids, order and clock, which
  is less than the "BYTE-IDENTICAL governed state" of `src/apps/curator/src/merge/merge-gate.ts:58`.
- `Redaction` with two promoters violates `OneMemory` and `StaysGone` (both pass the checks
  before either promotes), with two operators `TrailTrue` and `StaysGone` (the whole-row
  writes described above); either violates `ImplementsWording`.
- `Redaction` with `Recovering`: a redaction that rewrites a second candidate with a
  constraint leaves a constraint that names the old text; `Resolve` is then never enabled,
  and in the code each later batch throws at that candidate.
- `Intake` with `SweepInstalled = FALSE`, `Cap = 1` and a capture of two lines violates
  `EveryCaptureDecided`: what is over the cap is stored, and later cycles skip what is
  stored. `src/000-docs/036-AT-THRT-spool-boundary-threat-model.md:119` says of the cap
  "excess waits for next cycle"; it waits for the sweep.
- `IndexScrub` has behaviours of a scrub under load that no property rules out. A `redact` run
  again after the exporter's rewrite takes the new rows of the memory out of the native index
  and keeps a `files` row that matches the new file, so the memory is missing from native
  search until its file changes again
  (`src/packages/qmd-adapter/src/scrub/index-files.ts:216` expects the next rewrite). A refresh
  killed between `insert()` and its `files` rows makes the next one insert the document
  beside itself (`src/packages/qmd-adapter/src/native/fts5-backend.ts:134`, "KNOWN to be
  absent"). A dense sync that waits for the embedder writes the old text back after a
  scrub reported complete; `Confirmed` therefore asks for a scrub that began when no process
  held the old text any more. With no export tree at `--export-dir` a scrub reconciles
  nothing and may report complete; `Confirmed` does not count it.

## 4. What is proved

The theorems hold for any number of candidates, memories, events and processes,
any cap and any number of crashes; the assumptions on constants are
`HoldAssumption`, `StoreAssumption`, `ChainAssumption`, `MergeAssumption`,
`RowsAssumption`, `ExportAssumption`, `IntakeAssumption`, `RedactionAssumption` and
`ScrubAssumption` (bounds are naturals, the
null values are no members, the kinds of processes are disjoint, the sets of
candidates, of memories and of a clone's rows are finite, and a target begins with one row per
id and per text).

| theorem | states | argument |
|---|---|---|
| `HoldQueue_proofs!Typing` | `[]TypeOK` | by action |
| `Cap` | `[]CapRespected` | only `PlaceHold` and `GovernSelected` open a hold, both under the count they read in the same step; every other action, a rollback and a second import included, shrinks or keeps the set of open holds |
| `Released` | `[]ReleasedIsAdmitted` | a late rejection or expiry is stopped by the derived id; a rejection needs a pending status; a stamp writes `promoted`; `ReleaseHasRow`: a call about to release read the row, which is gone only if a rollback took it, and a candidate with a memory is not imported again |
| `OnceResolved` | `ResolvedOnce`, an action property | only the three resolving transactions write a resolution, and each only where there is none |
| `HoldStands`, `ClosedStays` | with `MaxRuleChanges = 0` | the invariant adds what each call in flight knows: a call about to admit a candidate has seen that no trigger fires for it, and a held candidate is one for which a trigger fires |
| `Implements` | with `MaxRuleChanges = 0`, `Spec => ImplementsPromise` | the same invariant; every step maps to a step of `HoldPromise` or a stutter |
| `MemoryStore_proofs!Typing` | `[]TypeOK` | by action |
| `Histories` | without editors, `[]NoCircularHistory` | a new successor is an active or a new memory, hence outside any group of superseded ones |
| `Receipts` | without editors and sweeps, `[]ReceiptsTell` | row and receipt change in the same step |
| `ImplementsLife`, `OutOfForce` | without editors and sweeps, `Spec => ImplementsLifecycle` and, read off it, that nothing superseded or archived comes back | `PlansSound`: what a promotion will retire and a batch has listed is still stored, and a settlement goes along an edge from the state it reviewed; every transaction judges the row it writes |
| `EditsKept` | with at most one editor, `[]EditsStick` | the invariant adds that what an editor holds is as narrow and as redacted as the row (`EditorsCurrent`) |
| `AuditChain_proofs!Typing` | `[]TypeOK` | by action |
| `Breaks` | `[]BreaksExact` | the invariant `ChainInv`: in the chain and in the one view that may replace it every row links to the row before, and the altered rows are those whose hash does not match; `RehashLinked` shows that a rewrite keeps this |
| `Alarms` | `[]AlarmExact` | `AlarmInv`: every hash covers what the hashes before it say (`Told`), and a replaced hash says `written` of a row of which the chain now says `altered` (`Dead`). Bodies never go back, so no row gets a replaced hash again |
| `Anchored`, `Verdicts` | where `OneWaiter`: `[]AnchorsLinked`, `[]VerdictsTrue` | `LockInv`: who works under the lock created it, and an old lock belongs to a killed merge; `AnchorInv`: what the holder has read is current |
| `Implements` | `Spec => ImplementsLedger` | `ChainInv` and `IdsInv`: no id is in the chain, or in the view that may replace it, twice; a view is a continuation of the chain for as long as it may replace it, and a reader that upgrades with an outdated one throws; a rewrite changes hashes and says nothing new |
| `MergeGate_proofs!Typing` | `[]TypeOK` | by action |
| `OneText`, `AtomicMerge` | where merges into one target were given the same clones (`SameClones`): `[]OneMemoryPerText`, `[]MergeIsAtomic` | the invariant says of each running merge that what it has passed is covered or refused, that its `seen` holds the texts of every row it has passed, and that rows stamped by a merge are first of their text in the union: two merges that walk the same union in the same order write the same row or collide on its key |
| `OrderCommutes` | where all merges were given the same clones in any order (`AllSame`), `[](Unredacted => Commutes)` | `OrderInv`: each merge walks the same ids (`SameUnited`) from the lowest up and never adds one it has passed; `InTurn`: what it promotes is the lowest wanted id that is not in yet, since what it passed before is in, refused or covered; so the events go up the ids (`Rising`) and leave none of the wanted ones out (`Closed`), each row has its event (`Told`), and the row's time is a function of its id (`Clocked`) |
| `ExportIndex_proofs!Typing` | `[]TypeOK` | by action |
| `Cursor`, `Gauge`, `Reconcile` | `[]CursorSound`, `[]FreshIsIndexed`, `[]ReconcileRepairs` | `ExportInv` states for a run in flight, at each of its steps, what its cursor and its mark will claim: what it read is outdated only by later changes (`Items`), what is older than its start is on disk or in its hands (`Covers`, `Files`), a quiet reconcile has read the store as it is (`Quiet`). For `Gauge`, a memory promoted before the mark is in the index by this; one promoted at the mark is not older than the cursor, or `CursorSound` has it on disk |
| `Intake_proofs!Typing` | `[]TypeOK` | by action |
| `Once` | `[]HandedOnce` | `IntakeInv`: what an ingest has in hand has a row or was rolled back, and only the step that writes the row takes it in hand |
| `Ledger` | where the lines of a batch differ (`DistinctLines`): `[]LedgerTrue` | `LedgerInv`: the counts of a batch in progress add up to the lines passed, and each of these has a row, was refused or was rolled back |
| `Redaction_proofs!Typing` | `[]TypeOK` | by action; `Listed` says that what an operator holds exists |
| `Constrained` | `[]ConstraintKept`, for any promoters and operators | a promotion asks again under the lock, and a constraint is recorded only where no memory is |
| `PromotedOnce` | where `OnePromoter`: `[]OneMemory` | `Ahead`: after the first check whoever was promoted with the text is named by a receipt, after the second nobody was; `Past`: a memory that changed has a receipt of the text it began with |
| `Gone` | where `OnePromoter` and `OneOperator`: `[]StaysGone` | `Origin`: a text no operator writes is only in the memory promoted with it, and never left it while it is there; the rest is `OneMemory` |
| `CopiesCleared` | where `QuietOperator`: `[]CopiesGone` | `Alone`: the operator has the store to itself, its list is whole, and no intake holds a removed text |
| `Accounted` | where `OneOperator`: `[]TrailTrue` | `Fresh`: what the operator read is what the memory holds; `LeadsOn` extends a trail by one receipt |
| `ImplementsWords` | where `OnePromoter` and `OneOperator`: `Spec => ImplementsWording` | `Sourced`: what a promoter holds is what the row says or said, and every listed edit has the row of its memory; `Ahead` and `Origin` make the early checks as good as late ones (`PromotesUnused`), `Fresh` the early read |
| `IndexScrub_proofs!Typing` | `[]TypeOK` | by action |
| `StoreScrubbed`, `Confirms` | `[]StoreClean`, `[]Confirmed`, for any processes, exports and faults | `ScrubInv`: once the old text is cut off it stays so (`CutOff`), and each statement of a run in which nothing has failed leaves less of it (`Leaves`): the log and freed pages after the rows, freed pages after the checkpoint, the log after VACUUM, nothing after the last checkpoint |
| `Withholds` | `[]Withheld` | `AwayInv`: while the old text is exported no new text is anywhere (`NoNew`), and a refresh that begins finds the `files` row with the mtime of the file, and one under way has read nothing (`Away`) |

None of these invariants is inductive alone. `ReleasedIsAdmitted`, for instance,
needs only the types, but `HeldUntilResolved` says nothing of a call that has
decided and not committed, `BreaksExact` nothing of an open transaction, and
`AlarmExact` nothing of hashes that a later append might produce again.

`OneWaiter` says that no merge is killed or that there are at most two of them.
It is the exact edge: the stolen lock needs one kill and two waiters. In the
same way `Editors` with at most one member in `EditsKept` and `MaxRuleChanges = 0`
in `HoldStands` mark where the behaviours listed above begin. `SameClones` is what `cmdMergeGovern` does not
enforce: two merges of different clones into one target at once may each write a row of
one text under another id. `Unredacted` says that no target has redacted a text the clones hold:
a target that has promotes that text again under another id, the other does not, and the two
orders really differ. `ImplementsLifecycle` needs stores with neither sweeps nor editors, and
`ImplementsWording` one promoter and one operator; section 3 names the instances that violate
them otherwise. `CursorSound`, `FreshIsIndexed` and `EventuallyIndexed` exempt the memories in
doubt, and `FreshIsIndexed` does not place a memory promoted at the instant of the mark in the index; the theorems show that nothing but a fault, or a run that wrote an outdated row,
puts a memory there.

## 5. What is only model-checked

- Liveness under fairness, which is out of the prover's reach: `EveryHoldEnds`, `Converges`,
  `EventuallyIndexed`, `EveryCaptureDecided`, `EventuallyScrubbed`.
- The violation, which shows one behaviour of its instance and no more.

## 6. What is not modelled, and why

- The rules themselves (policy evaluation, duplicate and contradiction
  detection, secret patterns, audience arithmetic): they enter as
  nondeterministic verdicts, which is more than any rule allows, so a safety
  property that holds here holds under all rules.
- Contents, but for which text is which, in `MergeGate`, `Intake` and `Redaction`.
- The verifier of merged chains (`audit-verify-merge.ts`), which only tests call.
- The daemon's PID file: the models let any number of daemons run, so nothing rests on it.
- Recovery manifests and their run ids; what several index files or tenants share in one
  scrub; the scrub's dry runs; the quarantine directory of the spool; orphans in the export tree.
- `src/plugin-runtime/teamkb-remote.cjs` is a bundle generated from the packages modelled
  here and from third-party code; it makes up two fifths of the lines of the repository.
- SHA-256 and Ed25519 are taken to be injective and unforgeable.
- SQLite is taken to give what it promises of an immediate and a deferred
  transaction in WAL mode. Busy timeouts appear as a process that waits or
  throws.
- Search ranking, embeddings, reporting, evaluation, HTTP and MCP transport,
  configuration and repository resolution hold no governed state.

## 7. Plan

`MergeGate`, `ExportIndex` and `Intake` (the export and the intake of the daemon, planned as one
module), `Redaction` (candidate copies and content hashes, planned as an extension of
`MemoryStore`) and `IndexScrub` are done. What is left, in this order:

1. `SelectedGovernance`: manifests of several bindings, run ids and replays;
   abstract specification: a manifest settles once.
2. Stamps that lag their commits in `ExportIndex`, and merged memories with their backdated
   stamps: the memories that only a reconcile exports.
3. Operators for the policy pipeline, checked against reference definitions over
   small inputs.
4. A sweep that keeps its promises half: what the receipts and the lifecycle still say of a
   memory that no sweep has in hand.
5. Abstract specifications of `Intake` (an inbox and its batches) and of `ExportIndex` (a tree that
   follows the store), which the detailed ones implement.
