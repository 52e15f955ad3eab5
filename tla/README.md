# A formal model of JoinLint

JoinLint tells an SQL-writing agent which physical joins of a SQLite (or CSV)
data set are safe, and checks the SQL it wrote. This directory holds TLA+
modules that model the program under `src/joinlint`, TLC configurations that
check them on small instances, and theorems checked by TLAPS. Paths below are
relative to the repository; the design documents are abbreviated **v0**
(`docs/superpowers/specs/2026-07-23-joinlint-v0-design.md`) and **zero-config**
(`docs/superpowers/specs/2026-07-25-joinlint-zero-config-harness-design.md`).

## The system

There are two programs in one package. The *runtime* (`runtime/`,
`mcp_server.py`) is an MCP server with two tools, `get_join_plan` and
`validate_sql`; it discovers SQLite databases, verifies relationships on a
snapshot and keeps what it found in a per-user cache that all server processes
share. The *governance commands* (`cli.py`, `services.py`) keep a project
directory `.joinlint/` with a registry of sources, a reviewed model, generated
evidence, local rejections and a baseline. They meet in `model.yaml`, whose
relationships the runtime takes for curated declarations.

| Part | State it keeps | Operations | What is hard | What makes it correct |
|---|---|---|---|---|
| Evidence cache (`runtime/cache.py`, `_evidence`) | evidence records, an index of pointers to them, lock files | look up, lock, verify, publish the record and then its pointer, remove damaged files | several processes, damage, crashes, power loss, a removal that hits a newer file | an answer is what verifying afresh would find; no lock stays behind; no pointer dangles |
| Runtime service (`runtime/service.py`) | calls in progress; `proofs/` | read model, take snapshot, gather evidence, plan and store proofs, or decide on a query | source and model change during a call; crash between proofs; stale plans | an answer rests on one content the source had during the call; an issued plan stays usable; calls end |
| Verification (`runtime/evidence.py`) | none | measure two tables, find, authorize | NULL keys, composite keys, reflexive relationships | blocking findings for what would repeat or drop rows |
| Planner (`runtime/planner.py`) | none | candidate edges, spanning trees, safety, choice | limits on depth and number of trees, order | a plan repeats no row of the expected grain; a safe plan is found |
| SQL graph (`runtime/sql.py`) | none | normalize, match, map to a plan, search for the grain | left joins, WHERE equalities, self joins, cycles | a query that passes repeats no row of the grain; the search ends; planner and validator agree |
| Generated store (`artifacts.py`, `paths.py`) | `.joinlint/generated/`, its backup, temporary directories | publish by two renames, undo, remove a tree, read manifest then documents, rewrite the report | no lock between commands, failing steps, crashes | a reader is answered from one fresh scan; a failed scan undoes itself as far as it can tell how far it got |
| Governance (`config.py`, `model.py`, `candidates.py`, `baseline.py`, `cli.py`) | config, model, rejections, baseline, manifest, `.lock` | scan, accept, reject, baseline update, source add/set/remove | documents read at several times, replaced by other processes in between | no source command is lost; decisions rest on what was scanned and are kept; the baseline follows the sources |
| Snapshots (`snapshots.py`) | a private copy | copy a CSV directory or back up a database under a deadline | writers during the copy, a file replaced between two looks, growth past a limit | a copy is of one content, or refused; nothing is left behind |
| Sources (`runtime/sources.py`) | the copies a call holds | discover databases, copy one after the other, read catalogs, resolve entities | sources that change, appear or vanish in between; ambiguity | the answer is justified by what the sources were during the call |
| Validation, scanner, legacy paths (`validation.py`, `scanner.py`, `candidates.py`, `services.py`) | manifest and results, baseline | profile tables, discover and accept candidates, validate relationships and paths, search paths, check | NULLs, two writings of a value, two implementations of one count, cycles, depth | what passes holds of the rows; discovery, validation and the runtime agree; the paths found are those validated |
| Server, contracts, report, errors | none | envelopes, schemas, HTML | wording | not a matter of state |
| `benchmarks/`, `scripts/` | files of offline evaluations | prepare, dispatch, score, report | none of it runs in the product | outside of this project, see below |

How they interact: the MCP server calls the service, the service the planner
and the SQL graph with the evidence that the cache gives it. The commands share
nothing but files: each document is written by replacing it, generated evidence
by renaming directories, and only the three `source` commands take a lock.

## The modules

| Module | Models | Composes or uses |
|---|---|---|
| `Evidence` | measurements, findings, authorization | |
| `EvidenceOracle` | abstract specification: every request is verified afresh | |
| `EvidenceCache` | `runtime/cache.py` and `_evidence` | extends `Evidence`, refines `EvidenceOracle` |
| `RuntimeService` | `runtime/service.py`, `proof_lifecycle`, `proofs/` | extends `EvidenceCache`, whose steps it composes with those of calls and of the world |
| `JoinPlanner` | `runtime/planner.py` over tables with rows | extends `Evidence` |
| `SqlGraph` | `runtime/sql.py` over the same tables and the plans | extends `JoinPlanner` |
| `GeneratedStore` | `artifacts.py`, `paths.py`, the readers in `services.py` | |
| `Governance` | the documents of a project and the commands on them | |
| `SourceSnapshot` | `snapshots.py` beside programs that write to the source | |
| `RuntimeSources` | `runtime/sources.py`, `_contexts` and the resolution of entities in `runtime/service.py` | extends `SourceSnapshot`: a call takes its snapshots with those steps |
| `Validation` | `scanner.py`, `validation.py` and the candidates of `candidates.py` on columns | |
| `LegacyPaths` | the commands of `services.py` and `baseline.py` on tables with rows, one after the other | extends `Validation`, instantiates `Evidence` to compare with it |
| `MC...` | small instances for TLC | |
| `...Proofs` | theorems about the module of that name; `RuntimeSourcesProofs` is about `SourceSnapshot` too, `SqlGraphProofs` is about `JoinPlanner` and `SqlQueryProofs` about `SqlGraph` | |

**EvidenceCache.** A step for each file operation of a lookup: `LoadPointer`,
`LoadRecord`, `DropRecord`, `DropPointer` (`_load`, `_load_pointer`,
`load_evidence_for`), `Acquire` (`locked`, after which the same lookup runs
again), `VerifyRelationship`, `StoreRecord`, `SyncDirectory`, `StorePointer`
(`store_evidence`). An evidence id is a digest of the record, hence the record
itself; a selector is what `evidence_selector` digests. `evidenceMay` and
`indexMay` are the directory entries a power loss may leave: every state since
the last sync of the directory. `EvidenceOracle` is the abstract specification,
with the mapping "answered as soon as the lookup is done".

**RuntimeService.** `call[p]` is the call a server handles, a phase for each
thing it waits for or does: `proof` (`_proof`), `model` (`_legacy_inputs`),
`snapshot` (`snapshot_sqlite`), `gather` (`_contexts`, through the cache),
`store` and `settle` (`store_proof` for the plan and its alternatives), `answered`.
A plan id is a digest of snapshot and evidence, hence those. The planner is its
contract: `Search` gives for a set of authorized relationships up to four sets of
edges among them (what `JoinPlanner` computes). `during[p]` is history: the
contents the source has had since the call began. One source per call; the
policy version is a constant of the program. A plan's proof whose replacement
was not synced before a power loss may be absent after it; that an older damaged
file of the same name comes back instead is left out, and would be removed by
the next read. A read error of a proof counts as damage.

**JoinPlanner** and **SqlGraph** carry the rows. The initial states are all
contents of the tables up to `MaxRows` rows; `Verify` measures them, `GetJoinPlan`
answers a request with what `plan_join` computes, `ValidateAlone` and
`ValidateWithPlan` normalize and match a query, `Search` is one round of the loop in
`_grain_compatible`. The properties then compare the conclusion with the rows that
SQL would return (`Joined`, `Result`). A query is what the normalizer looks at: its
instances, each in a scope, and its equalities. A derived table is an instance too,
shown from one instance of its own scope, as `_resolve_column` resolves its columns;
derived tables that are the nullable side of a left join, that show columns of several
instances or that are named twice, and correlated subqueries, are left out, as are
parsing and name resolution (SQLGlot) and the order of names. Values are compared for
identity: SQLite's type affinity and collations are not modelled. `_spanning_trees` searches
depth first and stops at its limit; `Grow` makes the same trees round by round, each round
adding an edge to every tree in every way `Open` allows, and `SpanningTrees` takes the `First`
of them in the order of the search (`MetEarlier`: of two trees the one whose edge comes first
where they part). `grain_compatible`'s queue is a set of refs for each distance from the
expected one (`GrainCompatible`).

**GeneratedStore.** `generated` and `previous` are names, `Trees` directories with an
identity of their own, since a removal goes on in the directory it has opened
whatever becomes of its name. `Build`, `FindBackup`, `MoveAside`, `Publish`,
`Restore`, `PutBack` are `write_generated_transaction` call by call; `OpenTree`, `Unlink`,
`Rmdir` are `remove_tree_relative`; `Raise` is a call that finds something else than it
expects, `Fault` one that fails for another reason without having changed anything, and
`SyncFails` one that has done what it was called for when the sync after it fails
(`paths.py:258`): `RenamesAside`, `RenamesOut`, `RemovesName` and `WritesReport` are what
the calls do to the disk, however they return. After the first rename
`replaced_previous` is not set yet, so nothing is put back; a failure in the except
clause itself (phases `restore` and `putback`) is passed over. `Snapshot` takes the fingerprint of
one source after the other. Readers compare the manifest
(`ReadManifest`) and open the documents (`ReadDocuments`) at two more times. The JSON documents
other than the manifest are read as one. A cast says which commands run together and
what may go wrong: every kind at once with every failure is too large to explore.

**Governance.** Each read and each replacement of a document is a step. A command
goes through phases in the order of its code: `lock` (`_config_lock`), `config`,
`model`, a snapshot per source (`snapshot`, and `hidden` where `visible_candidates` reads
the rejections), then what is its own: `Publish`, `UpdateBaseline`, `Decide` with
`ReloadModel` and `Confirm` (accept) or with `ReadRejections` and `WriteRejections` (reject), and
for `source set` and `remove` `WriteConfig`, `RemoveGenerated`, `UnlinkBaseline`, `ReadRejections`,
`WriteRejections`. A relationship is of one source (`_relationships_by_source` refuses
others); model.yaml is abstracted to the sources that have entities and the
confirmed relationships; a baseline to the paths it was measured at; generated/ to
its manifest, replaced in one step (its own module has the details). What is
discovered in a content, and what is sound there, are constants. Edits of the
model count as commands. Not modelled: `init --force`, `check`, objects missing from
a source, rejections of the first schema version.

**SourceSnapshot.** A step for each system call: `ListDirectory`, `ListSubdirectory`, `StatEntry` (the walk),
`OpenFile`, `ReadChunk`, `EndOfFile` (`_copy_csv_files`), the second walk and `CompareWalks`;
`OpenParent`, `Connect`, `BackupBatch` with `BackupProgress` after each, `StatAgain`, `HashCopy` for a SQLite file. Beside them
other programs `Write` in place, `WalCommit`, `Checkpoint`, `Replace`, `Remove` and `Rename`
files, and the clock that stamps files ticks. A content is a sequence of blocks
numbered by the write that made them, so any mixture shows. `BEGIN` is deferred: the
backup reads each batch in a transaction of its own and begins anew when another
program has committed, as SQLite documents. `seen`, `checked` and `masked` are
history: what the source has been, what it was at the second look, and which
changes identities (inode, size, time) cannot show. One listing is read in one step;
a subdirectory is listed when the walk meets it, so that its listing and that of the
directory above are of two times. `Under` says which names are below which; an entry is a
file, a subdirectory, a link or something unsupported. Files below a subdirectory change
like others; subdirectories themselves are not made, removed or renamed meanwhile.

**RuntimeSources.** `ValidateExplicit`, or `DiscoverRoot`, `DiscoverDirectory` (the place of `data` or
`datasets`: missing, a directory, a file, or a link, which leads somewhere or dangles),
`DiscoverEntry` (one entry after the other, in any order) and `OpenFound`;
then for each source in byte order `BeginSnapshot`, the steps of `SourceSnapshot`,
`KeepSnapshot`; then `Resolve`. A database's tables are what its first block says.
`EndWith` is the ExitStack: however a call ends, its copies are removed. The same
run takes snapshots alone, as the commands do.

**Validation** and **LegacyPaths.** A value is a writing with a type and a canonical
form (1 and 1.0 are two writings of one value), a column a sequence of them, and the
empty string is NULL, as `scanner.py` has it. `Profile`, `Candidate` and
`ValidateRelationship` are the functions of those names; `Scan`, `Accept`, `ValidateProject`,
`UpdateBaseline`, `Check`, `FindJoinPath`, `ValidatePath`, `ValidateEdges` are the commands and tools,
each answered at once: how they race is `Governance` and `GeneratedStore`. `answer` is
what the last one said, and the properties compare it with the rows. One source;
tables and the entities confirmed for them have one name.

## The runs

Bounds are named in each configuration. Every passing run explores all
interleavings within its bounds.

| Run | Question | Bounds, and why they are enough |
|---|---|---|
| `evidence_cache` | Is the shared cache right through damage, failures, crashes and power losses? | two servers (every race in the code is between a reader or waiter and one publisher), one relationship on two contents, so that a pointer can lead to a wrong record; two damaged files or failures, one crash |
| `evidence_cache_drift` | *violated:* are answers right when a declared cardinality is edited? | no failures at all: one edit suffices |
| `runtime_service` | Does an answer rest on one content of the source? | two servers, two parallel relationships of which one is curated, two contents, two changes, two calls: a plan and its validation, or two racing calls |
| `runtime_service_live` | Do calls end, and are issued plans kept? | two servers racing for one selector, a failure and a crash or power loss |
| `generated_store` | Is a reader answered from one fresh scan, does a failed scan undo its first rename, and do racing scans keep the evidence? | five casts: a scanner and a reader with three contents, a failing call and a crash; the same with two contents and two failing calls; a scanner, a reader, a report and `source set`; a scanner and a reader of two sources, and an edit of the model; two scanners of which one may die. Up to two scans: a scan meets at most its predecessor's directories |
| `governance` | Do racing commands keep the documents consistent? | two users and any four commands or edits, on two sources at two paths, two contents, a crash: a source command against another, an update or a decision |
| `governance_accepts` | *violated:* are confirmed relationships kept? | a scan and two accepts |
| `sql_graph` | Are plans and passing queries right about rows, do they agree, and is a safe plan found? | two tables of up to two rows with two values and NULL, an ordinary and a reflexive relationship; plans and queries of up to three instances, which is where grain, left joins and self joins interact |
| `sql_graph_loose` | *violated:* may a product of tables pass? | four instances in two pairs; an equality below an OR; a derived table that joins: each of the three violates it alone |
| `sql_graph_cycle` | *violated:* does the search for the grain end? | three instances in a cycle |
| `source_snapshots` | Is an accepted copy one moment of its source, and the answer of a call justified? | five names, of which others change two, in one layout one of these below a subdirectory, which is two listings; a dangling link or another in a directory's place; three inodes so that a number can come back, files of up to two blocks (a copy is between two reads), two changes (one before a look and one after) and two ticks; limits at, below and above the size |
| `legacy_paths` | Does what the commands accept and pass hold of the rows, and do paths found and paths validated agree? | a relationship with every declared cardinality between any two columns of up to two rows over four values and NULL; two relationships of two rows each, in a row and to one table; every choice of five relationships between three tables (a triangle, two parallel, a reflexive one); a source that changes; paths of up to three edges, where the limit on paths is two |

The passing run `sql_graph` asks its questions of connected, conjunctive, acyclic queries,
because the two violations beside it are what happens outside of them.

Deadlock is checked in the two runs of the cache. Elsewhere the system really
stops: the bound on calls, commands or scans is used up, or one request is answered.

**Fairness.** `FairServiceSpec` assumes weak fairness of `CallStep(p)` for each
server: a process that can go on does so. A waiter for a lock is woken by the
kernel once its holder has closed the file or died, and holders end because their
steps are fair too. With two servers weak fairness is enough: a waiter competes
only with the finite number of calls that `MaxCalls` admits, so nothing is
claimed about starvation by an endless stream of calls, which flock does
not exclude. Failures, crashes, damage and changes are never assumed to happen.
`SqlSpec` assumes weak fairness of `Search`, the rounds of a loop in one thread.

## What the violations show

* **evidence_cache_drift.** The cache key has no part in the declared cardinality;
  after an edit of `model.yaml` evidence computed for the former declaration answers
  for the new one. Zero-config :487-490 lists the normalized relationship definition
  among the key's parts.
* **sql_graph_loose.** Any equality of two columns counts as a join, and sources need
  not be connected. A derived table counts as one instance of the table it shows: a
  join inside it that repeats its rows is not searched.
* **sql_graph_cycle.** On a cycle without fan-out the search for the grain does not end.
* **governance_accepts.** `accept` compares the model and then replaces it without a lock;
  of two accepts that both compared, the second drops what the first confirmed. v0
  :463-465 says it fails if the model changed concurrently.

## What is proved

All theorems hold for any values of the constants that satisfy the named
assumptions: `CacheConstants`, `CacheMarkers` (the markers differ from data),
`ServiceConstants` (the planner returns at most four nonempty sets of authorized edges,
a model declares a relationship once), `ServiceMarkers`, `GovernanceConstants`,
`StoreConstants`, `SnapshotConstants`, `SnapshotMarkers`, `SourceConstants`,
`ValidationConstants`, `PathConstants`, `PlannerConstants` (what `plan_join`
admits: two to eight refs, a depth of one to four), `SqlConstants` (what SQL lets a query be:
an ON clause speaks of nothing that stands after its join). The bounds that TLC
needs (`MaxRows`, `MaxWrites`, `MaxScans` and the like) are constants as well: any number.

* **EvidenceCacheProofs.** `TypeCorrect` and `LocksCorrect`: inductive with `PhaseInv`, what a
  process knows in each phase. `SingleVerification`: inductive with both; the step that
  matters is that publishing needs the lock. `PointersLead`: needs `MayInv` (the present entry
  is among those a power loss may leave) and `DurableInv` (a pointer that may be found
  leads to a record that can only be found good), which is where the order of sync and
  pointer is used. `AnswersCorrect` and the refinement `Transparent` assume `SelectorDecides`: relationship
  and provenance determine the declared cardinality. That is exactly what the
  violated run lacks; without it the theorem is false.
* **RuntimeServiceProofs.** `ServiceUsesCache`: the composition implements `EvidenceCache`'s specification, so all
  of the above holds of it. `ServiceTypeCorrect`; `PassesAreSafe` and `PlansAreSafe` from `CallInv`: what a call has
  gathered is verified evidence of its own snapshot, a lookup under way is one of
  its own, and the snapshot is a content of the source during the call.
  `StalePlansFail`, like what it needs of `CallInv`, does without `SelectorDecides`; `IssuedPlansKept` from `IssuedInv`, which relates issued, stored and synced proofs.
* **GovernanceProofs.** `GovInv`: types, what each phase says of the job (`Sane`), a source command
  past its lock holds it (`Locking`), and one that has read config.yaml finds it
  unchanged until it writes (`Reading`). From it `ModelKeepsItsKind` (no relationship without its entities,
  although accept writes a model it read earlier) and `SourceChangesAreKept`. `ConfirmedOnlyAsScanned`
  needs `ScanInv`: every manifest in `generated/` is one that a scan published, and a
  decision that has compared holds the fingerprints and the model of one of them.
  `BaselineFollows` needs `FollowInv`: who may still leave a baseline of an older path is
  in the middle of a source command or is excused.
* **GeneratedStoreProofs.** `StoreInv` (types, the role of each process, every directory made is
  counted, and a live scanner owns the directory it builds) gives `NamesStayApart`.
  `AloneInv`, for casts of one scanner: what it moved aside is where it looks for it, and
  once it gives up the old evidence is back, or is still the backup after a failed sync or a second
  failure, hence `FailedScanUndoes`. `GoneInv` and
  `ZeroInv`, for any number of scanners: `generated/` is missing only while somebody is about
  to publish or put back, and the directory of `init` does not come back after a scan;
  together `ScansKeepEvidence`. `ReadersFindWholeScans` has two parts. `WholeInv` is about one scanner.
  `RaceInv` is about two scans that race: with only two directories made, evidence that a scan
  moves aside is the other's, which has published it and will put nothing back; so whoever
  empties a directory has published (`Doomed`), one that fails before finds the other's evidence
  standing (`Failed`), and a backup that is torn is nobody's to restore (`Torn`). `FreshInv`, of each source by itself, gives
  `ValidatedIsFresh`: with contents that never come back (`Ordered`), nothing that is read
  can be of a content later than what the reader compared the manifest with, so the
  first comparison is enough. Beside `source` commands a scan could put an older backup back when
  it cannot remove it; `SpentInv` says that where no call fails it cannot: once it has published,
  either the one `source` command there is removes the backup, and what was published
  stands (`Sheltered`), or nobody does, and what is left of the backup when its removal
  raises has no results in it (`Private`).
* **RuntimeSourcesProofs.** The invariants of `SourceSnapshot` and of a call around it. The one
  that matters is in `HistoryInv`: unless a change is masked, an identity (inode, size,
  time) has stood for one content all along; hence what looks as at the first look is
  what was copied (`ContentInv`, `BackupInv`), although the copy was read in pieces. `WalkInv` is about
  walks over several listings: a name the first walk does not meet was absent at some time, and if it is
  absent when the second walk is over, it was when that began, or it came and went. `LinkInv`: a link in a directory's
  place stays, and nothing is found beyond it. From these
  `AcceptedCopiesAreChecked`, `AcceptedCopiesAreOfOneMoment`, `NothingIsReadLate`; with `FoundInv`
  (an eligible file was found, will be looked for, or was absent at one time) and
  `HeldInv` also `OutcomesAreJustified` and `CopiesAreRemoved`.
* **LegacyPathsProofs.** Lemmas about columns of any length: what the
  counts of `validation.py` say of the rows (a key that is unique repeats in no row), and that
  a strong candidate has no orphan and the declared cardinality. Over them `PathInv`
  (documents are of the sources and models there are, what passed was validated on the
  present rows) gives `WhatPassesHolds`, `WhatIsAcceptedHolds`, `PassingPathsHaveAGrain` (by induction
  along the path: the rows of at least one entity on it determine the joined row) and `RuntimeAgreesAlways`.
  That one has one direction only: what a passing answer vouches for over canonical values has no
  finding that blocks it in the runtime, since its key repeats in no row and no row is an orphan, of which
  the runtime's measurement follows (`RuntimeMeasuresTheSame`). The converse does not hold: the commands ask that the
  observed cardinality over the values that match be the declared one, the runtime that the one over all keys be among
  those the declared one allows. `FoundInv` and the two ways of walking a graph
  give `FoundPathsAreValidated`.
* **SqlGraphProofs**, about the planner. Trees that grow are all trees: `GrownAreGrowths` by
  induction over the rounds, `HopsAreDistances`, `GrowIsAllTrees`; sorting by the order of the
  search loses none (`SortingKeepsAll`, from a lemma that places in a finite order count from
  zero). With `PlanInv` (what is answered is what `PlanJoin` computes from the present evidence)
  that is `PlannedTreesAreWhole` and `RefusedWithoutSafePlans`. `PlannedJoinsKeepGrain` takes the rows: a
  largest group of one means that no key repeats (`GroupsOfOne`), so of two joined rows that
  agree at one end of a step the search took, both agree at the other (`RowsMetAreOne`); and
  the search, which never goes back where it came from, meets every ref in as many rounds
  as there are edges, since what it has met grows until no edge leaves it
  (`SearchMeetsAll`). `EvidenceInv`: the evidence is what the tables measure.
* **SqlQueryProofs**, about the validator. `PassedQueriesKeepGrain`: for queries that are
  `JoinedInOrder` (no derived table, every equality restricts the result, every instance but the
  first is joined to one before it), passing means keeping the grain; `sql_graph_loose` shows
  what happens to others. First the edges: each pair of an edge is an
  equality of the query (`EdgesJoin`), and a matched edge compares the columns of its relationship, on the sides
  the code takes for child and parent (`ChildIsFound`, `MatchedJoins`), so the rows it joins are rows
  that meet (`MatchedRowsMeet`). Then the search: `SearchInv` says that the start is *good* if all that is pending
  is, where a place is good if it belongs to places that do not fan out and lead only to one another
  (`IsGood`); when nothing is pending, the start is good, and no fan-out was passed over. Then the
  rows: two rows that agree on the grain agree on the way from it to the first instance (`WaysAreMet`), and
  from there on to every later one by a least counterexample (`RowsAreTold`), where a left join that finds
  nothing for one row finds nothing for the other, since what it finds depends on the rows
  before it alone (`FoundByTheRowsBefore`). `PassedQueriesJoinAsPlanned`: for queries that
  `ComparesOnlyToJoin` (no derived table, every equality restricts the result and joins two
  instances, two instances of one entity by one equality), passing with a plan means joining what the plan
  joins. `BoundInv`: what is not blocked has a mapping to the plan; the mapping takes each ref once
  (`MappingsAreBindings`, by counting), and its inverse is the instance of each ref. A row of the
  result meets along each edge of the plan (`RowsAreOfThePlan`); conversely what the plan picks satisfies
  every equality, since each one is of an edge (`CrossingsAreSpanned`) and each edge of a
  relationship the plan crosses (`RowsOfThePlanAreJoined`). Both theorems assume `ReflexiveAreSingle`: a relationship of an entity
  with itself has one column (see below for those with several).
  `WrittenPlansPass` is about the agreement of planner and validator, which share no code: a plan written as a query is never blocked
  with that plan and its grain. First, what the planner calls safe: its search goes as many rounds as
  the tree has edges, and by then every further step has been met, because a walk that never
  turns back meets in n steps a branch of n + 1 refs, and none of them twice
  (`WalkGoesOn`, `WalksEnd`); so what it has met is closed under its steps (`SafeTreesAreWalked`).
  Second, the query: its edges are those of the plan, one for each join (`EdgesAreWritten`), matched by the plan's
  relationships the right way round (`WrittenIsMatched`), and the places of the refs are a mapping
  (`WritingIsMapped`). Third, under whichever mapping the validator picks, a step of its search is one of the planner's
  (`StepsAreCrossings`), so its start is good (`BoundSearchesAreGood`), and `WrittenInv` says that then all
  that is pending is: nothing fans out until the queue is empty. It assumes `DifferentEndpoints` (no two relationships join
  the same pairs of columns) and `DifferentSides` (a relationship does not join the same columns on both sides);
  without either, TLC finds plans that are blocked, see below.

Where the prover cannot follow recursion over data, a recursive function is shown to
exist by counting up to its bound (`Iterates`), and what holds of it by a least
counterexample (`UpTo`, `LeastIsThere`).

Only model-checked: liveness (`CallsEnd`, `ValidationsEnd`), which is out of the prover's reach.

## Seen while modelling

Behaviour of the code that no run shows as a violation, because nothing in the repository
promises otherwise, because it lies outside of a run's bounds, or because a property names
it as its exception:

* A crash between the two renames of a scan leaves no `generated/` at all; the next
  scan begins by removing the backup, the only copy left (`artifacts.py:33`).
* So does a sync that fails after the first rename, without any crash: `replace_relative` raises with the
  rename done (`paths.py:258`) and `replaced_previous` not set (`artifacts.py:37`), so the except clause puts
  nothing back. So does a failure while it puts back, which is passed over (`artifacts.py:48`). v0 :453-455
  promises that a scan preserves the evidence there was if it is inconclusive, which these are not, but the
  plan for v0 (`docs/superpowers/plans/2026-07-23-joinlint-v0.md:15`) says so of all failures.
  `FailedScanKeepsEvidence` and `EvidenceSurvives` state it with this exception: the evidence is then
  the backup, where no reader looks.
* With two scanners a slower scan of older content can publish between a reader's
  comparison of the manifest and its reading of `validation.json` (`services.py:261`); v0
  :331-338 describes the transaction as one. The casts with a reader have one scanner.
* Two scanners share the backup's name: a removal that fails halfway beside a
  second scan can end in an emptied backup being published.
* A removal of the backup that fails, together with `source set`, can put older
  evidence back after it was to be removed.
* Three racing scanners, or two and a `report`, can publish a backup that is being
  emptied; two failures and two scanners can lose the evidence. The theorems and the
  casts name what they exclude.
* Where a content comes back (A, B, A), or `source set` meets a failing scan, an older backup
  may be put back between a reader's comparison and its documents.
* A report may be written into the directory of a later scan (`services.py:204`).
* `source set` or `remove` dying between config.yaml and baseline.json leaves the baseline of
  the old path; so does an update that measured before and writes after. These are
  the sources `BaselineFollowsSources` excuses.
* rejections.json is read and replaced without a lock: of two rejections at once
  one is lost, and one that `source set` removed may come back, with the old
  fingerprint in its key.
* Two equalities between two instances of a reflexive relationship, one in each
  direction, are taken for one join of a plan (`runtime/sql.py:385`).
* A reflexive relationship of several columns is matched by the set of its pairs of columns:
  between two instances the pairs may be written in different directions
  (`runtime/sql.py:385`, `:408`).
* Two relationships may join the same columns: the id digests child and parent in their order
  (`runtime/domain.py:408`), so one may be declared in each direction, both one_to_one. The
  planner prefers the curated one, the validator takes the one with the lower id
  (`runtime/sql.py:385`): the plan's own SQL is then blocked with PROOF_GRAPH_MISMATCH.
* The same happens for a relationship of two columns that are its parent's columns too, in
  another order (code, superior) to (superior, code): the validator takes the left side
  for the child's whichever it is (`runtime/sql.py:408`). `WrittenPlansPass` excludes both.
* `FROM a, b LEFT JOIN c ON c.x = a.x AND c.y = b.y` passes with the grain of its
  product: a and b are joined to nothing but c, which comes after both. The theorem's
  hypothesis on the order of the instances excludes it.
* An expected grain that names an entity with two instances is not checked at all
  (`runtime/sql.py:481`).
* The same set of edges in another order counts as an alternative plan, with the
  same plan id (`runtime/planner.py:199`).
* `plan_join` cuts the list of spanning trees to four before it drops the unsafe ones
  (`runtime/planner.py:62`): asked for three instances of a table that two relationships
  connect to itself, it may answer that there is no safe join although there is one.
  `SafePlansAreFound` excuses requests with more trees than the limit.
* An entity id of one source also resolves in another source that has a table of
  that name, since only what follows the last dot is compared
  (`runtime/service.py:281`); the call then ends with SOURCE_AMBIGUOUS. Zero-config
  :165-168 speaks of source-qualified ids.
* A call copies its databases one after the other; a table moved from one to
  another during it may be found in both or in neither. `OutcomeIsJustified` therefore
  speaks of what a source had at some time, and at all times.
* A CSV file rewritten to the same size within one tick of the file system's clock,
  or moved away and back, is not seen to have changed, nor is one below a subdirectory that
  is made and removed between the listings (`snapshots.py:152`); a commit into the write-ahead
  log after the backup is not either, but the copy is still one moment.
* An entry that vanishes between the listing and `lstat` raises FileNotFoundError in
  the discovery (`runtime/sources.py:201`), which nothing turns into an error code.
* A relationship declared `one_to_many` or `many_to_many` never validates in the
  commands: REFERENCED_KEY_NOT_UNIQUE is always among its findings (`validation.py:52`).
* Any two relationships that fan out make COMPOUND_FANOUT (`services.py:306`), also two
  `many_to_one` in a row, which repeat no row of the first table.
* Validation does not ask that the types of two columns are compatible: a number 1.0
  and a text 1 match. The runtime compares in SQL, where they differ;
  `RuntimeAgrees` speaks of canonical writings only. The empty string is NULL to the
  commands and a value to SQL.
* Reflexive relationships are never crossed by `find_join_path` (`services.py:237`).
* `validate_cached_path` loads the model twice (`services.py:295`).

## Not modelled

* The reading of CSV records, SQLite rows and PRAGMA statements into columns and
  catalogs; the parsing of numbers (`Decimal.normalize` rounds to 28 digits, so two longer
  keys may become one); the normalization of SQL text by SQLGlot.
* In `SourceSnapshot` subdirectories that are made, removed or renamed during a snapshot, links that appear
  meanwhile, and a deadline that a blocked system call outlasts.
* Opening paths without following links (`paths.py:95`): no state but success or error.
* Envelopes, schemas, error codes, HTML, YAML and JSON: encodings. Digests are
  modelled as the value digested.
* `benchmarks/` and `scripts/`: offline evaluation, no part of the product. The pilot's
  budget checkpoint is the only part with state of its own.

## Plan

Done: the modules above, and the theorems of every module that keeps state. Left is the
budget checkpoint of `benchmarks/formal_eval/pilot_dispatch.py`: spending across batches, with
a crash between a batch and its checkpoint.

Runs are kept to one per question. `runtime_service` and `runtime_service_live` stay apart
because their union is too large to explore.
