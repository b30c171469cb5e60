# A TLA+ verification project for rusthouse

rusthouse is a bounded in-memory columnar SQL database in Rust: a SQL engine
over typed columns, an opt-in write-ahead log for one-column Int64 tables, atomic
snapshot files, a lock that shares a database between threads, parallel
aggregation, and a small HTTP front end. This directory holds TLA+ models of its
stateful parts, TLC configurations that check them on small instances, and TLAPS
proofs that hold for every instance. `PROJECT.json` maps every definition to the
source lines it models and lists runs, mutants, hazards and theorems.

Paths below are relative to the crate's `src/`.

## 1. Inventory

| Part | State it keeps | Operations | Interacts with | What makes it correct |
|---|---|---|---|---|
| Int64 WAL (`batch/wal.rs`) | an append-only file, `file_bytes`, `records`, `poisoned` | create, append, truncate, replace, recover | the engine logs before it applies | recovery returns what was acknowledged, or that plus the one record in doubt |
| WAL registry (`batch/wal.rs`) | directory, manifest, one log per table, shared totals | create, commit to a member, recover | its members, the engine | all tables or none; shared limits never make an acknowledged registry unrecoverable |
| Table, catalog, database (`batch/storage.rs`, `batch/catalog.rs`, `batch/engine.rs`) | columns, row count, bytes, sparse index, partitions, generation; totals per database | DDL, DML, restores, WAL on/off | log, snapshots, queries | metadata and totals always describe the rows; limits cannot be bypassed |
| Predicates and pruning (`batch/engine.rs`, `batch/storage.rs`) | none | compile, derive filter, skip partitions and blocks | reads index and partitions | exactly the rows for which WHERE is true |
| Parallel aggregation (`batch/aggregate_scheduler.rs`, `batch/global_*.rs`, `batch/grouped_bool_*.rs`) | an atomic helper budget, scoped threads | admit, spawn, scan a lane, join, reduce, fall back | every query that aggregates | budget exact under races and unwinding; answer independent of scheduling |
| SharedDatabase (`batch/shared_database.rs`) | `Arc<RwLock<Database>>`, scan counters | execute, INSERT batch, query, metrics, readiness | HTTP handlers, library callers | each call takes effect at one instant; nothing is read from behind a poisoned lock |
| Snapshot files (`snapshot.rs`) | files and directory entries, a temporary-name counter | replace, create backup, restore | database restores | the destination is always a whole envelope; Ok means durable |
| Snapshot payload codecs (`snapshot.rs`) | none | encode, decode | snapshot files | round trip; damage rejected |
| HTTP listeners (`http.rs`) | accept loop, worker set, completion channel, stop flag, report | accept, dispatch, complete, stop, drain | one exchange per worker | cap respected, no completion lost, every connection reported, stop works |
| HTTP exchange (`http.rs`) | one connection, two deadlines | parse, authenticate, read body, call the database, respond | SharedDatabase | refusals before effects, bounded time |
| Query operators (`batch/engine.rs`) | none | project, group, distinct, order, limit, union, join | tables, aggregation | agree with a declarative meaning; a limit only refuses |
| SQL parser, scalar functions (`batch/sql.rs`, `batch/scalar_*.rs`, `batch/value.rs`) | none | text to tree, pure functions | engine | language definition |
| Ingest, formatting, driver (`batch/mod.rs`, `batch/csv.rs`, `batch/tsv.rs`, `batch/json_compact_each_row.rs`, `batch/format.rs`) | the batch's output so far | read rows, write results, run a batch | engine | all rows or none; what is written is read back; output is whole results within its bound |
| Legacy stack (`parser.rs`, `execution.rs`, `catalog.rs`, `storage.rs`, `scan.rs`, ...) and `shared_catalog.rs` | a catalog of Int64 tables, an RwLock | create, restore, insert, ingest, select, join, aggregate | snapshots | answers are exact or refused for a stated limit |
| Command line (`cli.rs`, `main.rs`) | none | arguments, terminal | everything | none of its own |

What is hard to test here: crashes between the steps of a commit or of a
rename; failed writes that leave bytes behind; metadata that outlives the rows
it describes; totals kept by increments; several threads at one counter, one
lock or one directory; panics on the way out of a scope; a stop request racing
an accept. `PROJECT.json` lists each of these at its line, with the property
that covers it.

## 2. Modules

```
Int64WalCodec <- Int64Wal <- Int64WalProofs          DurableTable  (implemented by Int64Wal)
             \<- Int64WalDamage -----------.
SnapshotPayload ----------------------------+<- MCCodecs     (SnapshotPayload <- SnapshotPayloadProofs)
TextFormats <- TextIngest, BatchDriver -----'
WalRegistry <- WalRegistryProofs
Table <- Introspection <- Database <- DatabaseProofs        (Database <- MCDatabase, MCQuery)
Table <- Pruning <- Select <- SelectReference               (MCQuery)
Int64Operators <- Catalog                                   (MCDatabase)
AggregateReducers <- AggregateScheduler <- AggregateSchedulerProofs
HttpListener, SharedDatabase <- ServerProofs         AtomicDatabase (implemented by SharedDatabase)
SnapshotFile <- SnapshotFileProofs
HttpRequest <- HttpExchange <- HttpExchangeProofs
```

`MC*.tla` modules give constants their values. Three of them also play several
specifications that share no state, one *scene* per behaviour: MCCodecs (log,
payload, text, driver), MCDatabase (database, catalog) and MCQuery (statements,
rows, schema); a scene that is not played keeps its initial state, and a
property of a scene says nothing of the others. Definitions whose name has a
suffix after an underscore (`SyncFooter_NoSync`, `SumOf_Narrow`) are faulty
variants; no specification uses them, and each is listed in `PROJECT.json` with
the property that must fail when it replaces the real definition.

**Int64WalCodec, Int64Wal.** A file is a sequence of cells, the units a torn
write can split: two for the header, two for the commit footer, one per length,
row index or value. A checksum is the tuple of what it covers, so collisions are
left out. `RecoverFile` is the replay loop, including the rule that tells a torn
tail from a damaged length. Every commit is four steps (body, sync, footer,
sync), each of which can fail or be followed by a crash; a failed record poisons
the writer. `Database` takes `&mut self`, so nothing but failure and crash
interleaves with a commit. After a crash, synced cells remain, unsynced cells
survive as a prefix or, with `Holes`, as any subset of positions (lost ones read
as zero); a directory entry not yet synced may vanish. `promised` and `indoubt`
are history variables. *DurableTable* is the abstract promise: a commit is
atomic, and a failure or crash leaves at most one record in doubt.

**Int64WalDamage.** The same codec with one altered field anywhere in a
committed log, instead of crashes.

**WalRegistry.** Creation step by step (directory, members in order, manifest
last, syncs), commits that reserve shared totals, poisoning of the whole
registry, crash and recovery under the writer's limits or narrower ones. A
member is the sizes of its frames plus a torn tail.

**SnapshotPayload.** Encoders and decoders of the fixed, nullable, run-length
and whole-table payloads and of the envelope, over bytes of base `Base`; a word
is two bytes where the code has four or eight. Steps save a table under some
limits, then damage a byte or a field of the file; restore and decode are
evaluated in every state, under the limits of the save and under narrower ones.

**Table, Introspection, Database.** A table is a record with schema, columns,
row count, bytes, row cap, generation, index and partitions; each operator is
what a storage method leaves behind. One action per statement or library call
that changes a database; a refused call changes nothing and is not a step.
`replayed` is what the log's records amount to. *Introspection* is the system
tables, DESCRIBE and SHOW CREATE, with the preflight that keeps the DDL of a
table within the parser's statement limit.

**Pruning, Select, SelectReference.** The compile-evaluate-prune path of WHERE as
recursive operators, and SQL's three-valued truth as the reference. *Select* is
everything after the rows are found: shape checks, name resolution, grouping
with its fast paths, HAVING, bounded ordering, OFFSET, limits, projection, UNION
and CROSS JOIN. An execution is the set of its possible outcomes, because the
selection sort is unstable. *SelectReference* says what a query means, without
the operators of the engine.

**Int64Operators, Catalog.** The earlier engine the crate still exports. The
operators are the loops of `scan.rs`, `order.rs`, `distinct.rs`, `grouping.rs`,
`aggregate.rs` and `join.rs`, each with its early refusals. `Catalog` is the
calls of `catalog.rs` and, since each `SharedCatalog` method takes its one lock
once and holds it to the end, of `shared_catalog.rs`; the owner of the `Arc` may
panic and poison it. Statements are records, evaluated by `Read` in every state.

**TextFormats, TextIngest, BatchDriver.** A text is a sequence of characters.
The six writers, the size of a JSON result computed apart from the writer, and
the CSV, TSV and JSON readers follow the code character by character. *TextIngest*
stores rows by INSERT and ingests any short sequence of the pieces a reader
tells apart, or what a writer wrote. *BatchDriver* is `run_batch_with_limit`.

**AggregateReducers, AggregateScheduler.** The ordered reduction (sums, counts,
extrema with ties, first-seen groups), and the scheduler around it: load and
compare-exchange on the budget, spawn, local lane, join in order, release on
every way out, sequential fallback. A spurious compare-exchange failure is a
stutter.

**SharedDatabase, AtomicDatabase.** Threads make one call each through the
RwLock; the database is the sequence of statements applied. Applying a batch is
one step per statement so that other threads could see it half done; a panic may
tear a statement and poisons the lock. A query reads twice, so an inconsistent
read would show. *AtomicDatabase* says every call takes effect at once. The
refinement mapping shows the state before the current (or fatal) writer.

**SnapshotFile.** Names, open files, what is synced, what a crash may leave under
each name (any value the entry has had since the last directory sync, each entry
on its own). Savers, backup creators and readers interleave at system calls. An
envelope is empty, partial or whole.

**HttpListener.** The three accept loops in one module, selected by `variant`;
workers, the completion channel and the final report.

**HttpRequest, HttpExchange.** *HttpRequest* decides, from the request line, the
header fields, the credentials, the URL parameters and the statements, which
status is owed and whether the body is read; the order of the checks is the
code's. *HttpExchange* plays exchanges side by side: bytes that may or may not
arrive, a clock, two absolute deadlines, one try of the database's lock, a
prepared response, writes the peer may refuse, and an embedding application that
takes the same lock or panics under it.

## 3. Runs

| Run | Question | Properties | Bounds |
|---|---|---|---|
| `wal` | Do the log, the memory and the counters agree under failures and crashes? | RecoveryComplete, MemoryMatchesLog, WriterAccounting, AckedBytesStable | 2 values, 2 rows, 3 records, 18 cells, batches of 2 |
| `wal_paths` | Does every step implement the promise, over several log files and nullable columns? | ImplementsDurableTable | 2 paths, 2 records |
| `wal_holes` | Is recovery sound when unsynced cells are lost out of order? | RecoverySound | nullable, 3 records |
| `registry` | Can an acknowledged registry always be recovered, and only whole? | TotalsExact, RecoveryIsExact | 3 tables, 4 further frames of 2 sizes, 3 limit sets |
| `codecs` | Is what was written read back, damage refused, and input or output never half done? | ReplayIsExact, PayloadsAreExact, FormatsRoundTrip, IngestIsExact, OutputIsWhole | 3 log records; 3 rows, 18 limit sets, 1 altered byte; texts of 4 pieces; batches of 2 |
| `database` | Do totals, limits, index and log survive any statement sequence? Does the single-column catalog answer exactly? | TablesWellFormed, MeasurementsExact, IndexFresh, LoggedTablesFollowLog, CatalogIsExact | 2 names, 2 columns, 2 rows, 3 cells; 3 names, 2 tables, 3 rows in all, Int64 of -2..1 |
| `query` | Does a query find and answer exactly what it means, after any history, and refuse only at a limit? | PruningIsExact, SelectIsExact, CombinationsAreExact, LimitsOnlyRefuse, ShowCreateReplays | 1 table of 3 rows and clauses of up to two atoms; a relation of 3 rows (2 with String keys) and some 400 queries; 4 columns |
| `aggregates` | Is the budget exact and the answer schedule-independent? | HelpersAreAdmitted, AnswerIsSequential, EveryQueryEnds | 2 queries, 2 helpers |
| `shared` | Are calls atomic, counters exact, and does every call return? | NoLostScans, ImplementsAtomicDatabase, EveryCallReturns | 3 threads, batches of 2, counter saturating at 2 |
| `snapshot` | Is the destination always whole, an acknowledged save durable, and does every save return? | PrimaryIsWhole, ResultsAreTruthful, NoStrandedTemporary, EverySaveReturns | 2 savers, 1 reader, 2 files, 1 crash; or 1 saver, 3 files on a file system that folds a candidate name into the destination |
| `listener` | Cap, reports, panics and stop of the HTTP listeners? | WorkersAreBounded, ReportIsComplete, ListenerEnds | budget of 4 connections, cap 2, 5 clients |
| `exchange` | Is access decided before any effect, the answer true, and the time bounded? | AccessIsEnforced, AnswersAreTruthful, DeadlinesAreAbsolute, EveryExchangeEnds | one exchange with every kind of request and handler, or two with inserts and reads; clock of 4 instants |

All of them pass. No disagreement between the code and its documentation was
found in the parts modelled, so there are no findings. Some behaviour is worth
knowing although no document says otherwise: `write_csv` leaves a bare carriage
return in a field quoted, and the CSV reader refuses it (FormatsRoundTrip states
this exception); the catalog's `CREATE TABLE IF NOT EXISTS` matches names
without case while every other call matches them exactly; and its ordered SELECT
refuses a LIMIT above the row cap that an unordered one accepts.

Why the bounds suffice. In the WAL, recovery looks at one frame at a time: three
records give a first, a middle and a last one, and each file, record and row
limit is reached inside the instance. In the registry three members distinguish
"before", "at" and "after" the failing one, and the limits admit the last frame
exactly. Two names are enough for every rename, clash and transfer of the single
index slot; three cells in two columns of two rows make the cell limit bite
before the row limit. Pruning with three rows has full, partial and all-NULL
blocks and both ends of the integer range; three rows also give top-k selection
a row to evict and one to keep, and three groups. The Int64 range of -2..1 makes
1 + 1 overflow while 1 + 1 - 2 does not, so a sum kept in a narrow accumulator
shows. Three rows of a run-length payload have a run that ends at NULL, one that
ends at a value and one that ends with the rows. Four pieces of text open a
quoted field, escape in it, close it and follow it; two-character strings hold
every pair of special characters. Two queries and two helpers race for the last
slot; a lane split needs no more. Three threads give a writer, a queued writer
and a reader. Two savers collide on names and on the destination; the second
file is what an alternating rename needs. Two exchanges and the application are
what contend for a lock that is only tried. `GenerationMod` is deliberately tiny,
so the wrap of the mutation counter happens.

Deadlock checking is off where the system may legitimately stop: limits reached
and everything refused, all queries, calls or exchanges finished, the listener
returned, the batch written.

## 4. Fairness

Liveness is stated only where the code's scheduling supports it.

- `aggregates`: weak fairness of each query thread and helper thread. They are
  running OS threads, a helper only computes over its rows, and the budget is
  never waited for.
- `shared`: weak fairness of each calling thread. Work under the lock is finite,
  each thread makes one call, and a lock that stays available is handed out.
- `listener`: weak fairness of the listener thread and of each exchange, the
  latter because reads and writes have absolute deadlines (`http.rs`,
  `deadline_remaining`): the run `exchange` shows that they end it.
- `exchange`: weak fairness of the clock and of each handler thread. Peers
  promise nothing: a read or a write that never comes is ended by its deadline.
- `snapshot`: no fairness. EverySaveReturns is an action property instead: every
  step of a running save lowers a measure that no other thread raises.

## 5. Proofs

TLAPS checks every theorem, for every value of the constants allowed by the named
ASSUMEs of the component modules (TLC evaluates those on the instances). Each
proof module has one inductive invariant with named parts, one lemma per action,
and theorems that follow from the invariant; Int64WalProofs, AggregateSchedulerProofs,
DatabaseProofs and ServerProofs have more than one. No theorem has a hypothesis
besides the specification, except those of SnapshotFileProofs and
`RecoveryIsComplete`; the theorems about a single codec are about its operators
and take what is encoded or decoded as a parameter.

Where a proof is an induction over data (sums over members, header fields, the
rows of a compaction), it is written with sets: the set of indices up to which
the claim holds contains 0 and is closed under successor, so by the
well-foundedness of the naturals it is everything (`Induction`,
`InductionUpTo`). The definitions concerned are recursive functions and folds,
which a lemma first shows to satisfy their equations.

**Int64WalProofs.** `WalInvariance` proves that TypeOK, FilesBounded,
WriterConsistent and RecordFits together are inductive. TypeOK alone is not: that
the writer's byte count equals the file's length after a commit depends on what
was in the file at every program point of the commit (`RecordFits`), and that the
memory equals the log depends on the poisoned writer refusing further records
(`WriterConsistent`). From it follow `Typing`, `MemoryAgreesWithLog`,
`AccountingIsExact` and the action property `AckedBytesAreStable`.

Recovery needs a second invariant. `LogInvariance` proves LogInv: of every file,
the replay loop passes exactly the acknowledged cells and arrives there at the
promised rows (`Reaches`), and behind them there is at most a torn frame of the
one record that is in doubt; while a commit runs, that is a prefix of its frame
(`CommitLogged`). RecoverySound is not inductive, since it says nothing of where
the loop stands. The argument goes in four steps. (1) The loop depends only on
the cells it has passed (`ReachesLocal`), so neither an appended frame nor a
crash disturbs what was acknowledged. (2) Decoding undoes encoding for every
operation and any rows (`DecodesLogged`). (3) A torn frame, with or without
holes, either stops the loop or is there as a whole, because the checksum covers
the payload (`TornFrame`); a prefix without holes is never taken for corruption,
because the length derived from what is left of a payload is the declared one
(`ExactFrame`, `PrefixIsTorn`). (4) A loop that stops gives the rows before the
torn record, one that passes it those of the record in doubt (`LogSound`), and
it stops without an error when no cell was lost before another (`LogComplete`).
`RecoveryIsSound` and `RecoveryIsComplete` follow, and with the first
`WalImplementsDurableTable`: the last sync of a mutation is the abstract commit,
the sync of the directory the abstract attach, everything else inside a commit
stutters. `RecoveryIsComplete` has the hypothesis `Holes = FALSE`, under which
the run `wal` checks the property: a hole may break a header or a footer, which
recovery has to refuse.

**WalRegistryProofs.** For any number of tables, frame sizes and limits. The
invariant says, per stage of `create_registry`, which entries and members exist
and are durable; that a frame under way was reserved in the shared totals before
its first byte; and that whatever a crash may leave of the file being written is
bounded by that reservation. Sums over the members get their own lemmas (a change
of one term, a bound on each term, monotony). `RegistryTotals`: the shared totals
are what the files hold. `RegistryRecovery`: the manifest names only complete,
durable members, recovery returns the acknowledged frames and at most one more,
and under the writer's own limits it never refuses.

**DatabaseProofs.** For any schemas, limits, tables, restored snapshots and
generations. The first part proves of every operator of *Table* what it leaves
behind: columns rectangular and typed, row and cell limits kept, an index either
gone or equal to one built again. Deleting and partitioning are passes over the
rows, so their lemmas are inductions. The second part is the invariant of the
whole database: all tables sound, one index at most, and each logged table one
Int64 column holding what its records amount to. TablesWellFormed and IndexFresh
are not inductive on their own: a mutation keeps the index fresh only because it
drops it or because the generation it was built for moves on, and a restore is
within limits only if what was saved was. `DatabaseTablesWellFormed`,
`DatabaseIndexIsFresh` and `DatabaseFollowsLog` follow.

The third part is about what the database measures of itself. `MapThenSumSet` is
a recursion that takes the elements of a set in an order nobody knows, so its
lemmas come first: the recursion has one solution on a finite set (`TotalExists`,
`TotalUnique`), any term may be taken first (`TotalTerm`), and sums can be split,
added term by term and taken over renamed elements (`TotalUnion`, `TotalOfSums`,
`TotalRenamed`), each by induction over the subsets of the set. Then one lemma per
storage method says that it keeps `BytesExact`: the retained bytes of a table are
those of its values, although DELETE, UPDATE and DROP COLUMN subtract with
saturation. `Measured` is that together with the totals beside the catalog being
the sums over its tables; it is inductive only in the presence of the first
invariant, which gives the columns their types and lengths. RENAME COLUMN, which
goes past the measuring guard, keeps it because no type changes, RENAME TABLE
because a sum does not care about names. `DatabaseMeasurementsAreExact` compares
it with the rows of system.tables and system.columns, which are counted by
bijections.

**SnapshotFileProofs.** For any number of savers, readers, names, files and
crashes. The invariant gives each saver its own candidate file (`Owns`), says
what it knows about that file at each program point (`Knows`), orders files by
the save that wrote them (`RankInv`) and bounds what each name may show after a
crash (`DiskInv`). The theorems assume `Serialized`: either no candidate name
aliases the destination, or saves do not overlap. Without it the discard by name
may remove another saver's file, as section 6 says. `SnapshotPrimaryIsWhole`,
`SnapshotResultsAreTruthful` and `SnapshotLeavesNoTemporary` follow, and, with a
measure that each saver's own step lowers and no other step raises,
`SnapshotSavesReturn`.

**SnapshotPayloadProofs.** For any size of a byte, any limits, and rows and names
of any length. An encoder flattens a sequence of encoded rows or runs; a decoder
folds a scan over the payload. So the first part unfolds `FoldLeft` into a
recursion over positions (`IterationExists`) and shows that `FlattenSeq` lays its
sequences out one after the other (`FlattenLaysOut`) and that nothing else is laid
out so (`LayoutIsFlatten`). For one row, the decoder reads what the encoder wrote
(`ScanRowReads`) and accepts nothing else (`ScanRowYields`); the fold carries both
to all rows, `ScanRowsReads` by induction from the front, `ScanRowsYields` by
walking back from an accepted end, where every earlier state must have been
accepted too. The headers are compared part by part. Each codec thus inverts its
encoder in both directions: `NullableRoundTrip` and `NullableAccepts`,
`TableRoundTrip` and `TableAccepts`, `RleRoundTrip` and `RleAccepts`. A run-length
payload may hold runs that the encoder would have merged, so its decoder accepts
more than one encoding of the same rows; that their rows can be saved again under
the same limits is because the runs of the encoder are the shortest
(`RunsAreShortest`). The proof follows the encoder over the rows of one given run:
it begins at most one run there, and adds at most that run's bytes. The invariant
`FileInv` says that the checksum of a saved file is still what its codec
wrote, and that the file is its envelope as long as nothing altered it;
`PayloadsStayExact` follows. `PayloadAssumption` says that a byte has at least
three values (the tags), that NULL is not a word, that the rows that can be saved
are fewer than a word can count, and that limits are natural numbers.

**ServerProofs.** The threads of a server, in two parts that share no variable.
The listener, for all three variants, any budget, cap and number of clients: the
accepted connections are partitioned into running exchanges, queued completions
and reported ones; counting them is a matter of the cardinality of disjoint sets,
and the sort of the failures is characterised by what it returns.
`ListenerIsBounded` and `ListenerReportIsComplete` follow. The shared database:
`SharedInvariance` says that the lock excludes (a writer is alone), that the
database of the current writer is its base followed by the part of its batch
applied so far, and that a reader's first read equals the database while it holds
the lock. `SharedIsAtomic`: the specification implements AtomicDatabase, for any
threads and any batch length; each step is either a stutter or one abstract call,
because the mapping shows the base while a writer is active.
`SharedCounterLosesNothing`: the compare-exchange loop of the counters loses no
scan, for any number of threads and any ceiling.

**HttpExchangeProofs.** For any handlers, requests, deadlines and number of
exchanges. The first part shows what the parse of the header fields and of the
URL parameters establishes, by induction over sequences of any length; the second
relates, at each phase, what has been decided to what has been touched, who holds
the database and which rows are whose. `ExchangeAccess`, `ExchangeAnswers` and
`ExchangeDeadlines` follow.

**AggregateSchedulerProofs.** `SchedulerInvariance`: TypeOK together with which
program points hold a permit (PermitPhase), that no more helpers are spawned than
permitted (SpawnBound), that helpers run only inside the scope (RunningInScope)
and BudgetExact, that the counter equals the permits held and stays within the
limit. The sum of the permits is the cardinality of the set of held slots, so
that taking and returning a permit are unions and differences of disjoint finite
sets. `RunningHelpersAreAdmitted` follows, for any finite set of queries and any
limit: the budget is exact and every running helper holds one of its slots.
`AnswersAreSequential`: an answer equals the sequential scan of its input. The
folds over rows and over partials are unfolded into recursive functions; a scan
may be cut anywhere, since merging the scans of two adjacent pieces gives the scan
of both; the lanes of `Partition` are adjacent from the first row to the last
(`LanesAreAdjacent`), so `ReduceOrdered` over them gives the scan of all rows
(`LanesReduceToScan`). The invariant `AnswerInv` then says that unless a helper
failed every lane has its thread and the partials are the scans of the lanes
joined so far, in order. The one assumption on the
inputs is that they are sequences of typed rows (`SchedulerAssumption`).

Proving changed the models in four places. `Acknowledged` of WalRegistry was
vacuously true of a registry without members. A missing pair of
parentheses in `InsertRows` let one disjunct past a guard. Two ways of creating a
one-column table, from a partitioned definition and from a decoded snapshot, were
missing the guards the code has on the column list and the row cap. The bounds of
TLC had hidden each of them.

Only model-checked:

- every liveness property: they rest on fairness, which these provers do not
  handle;
- the text formats and their ingestion (FormatsRoundTrip, IngestIsExact,
  OutputIsWhole) and queries and pruning (PruningIsExact, SelectIsExact,
  CombinationsAreExact, LimitsOnlyRefuse; ShowCreateReplays, which MCQuery checks
  beside them): TextFormats, TextIngest and Pruning declare RECURSIVE operators
  over the structure of a text or of a predicate, which cannot occur in a module
  with proofs;
- a committed log with one altered field (ReplayIsExact): Int64WalProofs covers
  crashes, which tear a log but alter none of its fields; the altered log is a
  finite computation that the run makes for every field;
- the single-column catalog (CatalogIsExact): statement by statement it compares
  an answer with a definition of that answer, over joins, groups and orders of
  rows; no proof was attempted.

## 6. What is not modelled

- SQL text (`batch/sql.rs`, `parser.rs`): stateless and character-level; the
  models start from statements. Of the scalar functions, toString, lower, upper,
  round, floor, ceil and the casts other than those Select names.
- LIKE, column-to-column and non-Int64 comparisons in WHERE, which derive no
  filter.
- SHOW CREATE of a table with more columns than one list may hold: the column
  limit of 1024 is far below the parser's list limit.
- In the text formats: digits other than 0 and 1, negative zero, exponents, the
  escapes of form feed and apostrophe, which bytes are valid UTF-8, and the key
  names of `write_json`, which are abbreviated; the lookup of an unknown table by
  an ingest. In the catalog's CSV, a line is one of a few texts with one of four
  ends.
- HTTP header texts are classes (absent, valid, malformed, repeated), not bytes.
- Checksum collisions; media errors on synced data other than one altered field
  or byte; storage that acknowledges a sync it did not perform.
- Concurrent savers on a file system that folds names (the `Aliases` case): the
  discard is by name after a check by inode, and only one saver is checked there.
- An acknowledged backup may vanish in a machine crash: `create_new_file` syncs
  no directory and promises no such durability, so no property claims it.
- The wait for the lock inside SharedCatalog: its calls are single steps, the
  lock discipline is that of SharedDatabase.
- Non-Unix fallbacks and the command line.

## 7. Plan

1. The remaining scalar functions in Select, where an abstract value suffices.
2. HttpListener with HttpExchange as its worker, in place of the assumption that
   an exchange ends.
