# booking-data-platform: TLA+ models, checks and proofs

The platform copies the bookings, customers and payments of a Postgres database
into BigQuery along two independent paths, and builds its models with dbt:

* **CDC**: Postgres WAL → Debezium → Redpanda (one topic per table, one
  partition) → `ingestion/cdc_consumer.py` → `raw.{table}_cdc` →
  `stg_bookings_cdc` → `int_bookings_actives`;
* **batch**: Airflow, one run per day: `extract` (rows whose `updated_at` is in
  the window, to a Parquet file) → `validate` → `load` (overwrite of the
  partition of the day) → `stg_bookings`, `stg_customers*`, `stg_payments` →
  marts.

The callbacks of the Airflow tasks write a journal of events, which two programs
load into BigQuery.

The source database is kept alive by `simulator/generate.py`, several commands of
which may run at once.

This directory models these parts, checks the models with TLC on small
instances, and proves with TLAPS, for instances of any size, every safety
invariant, action property and refinement that the runs check. `PROJECT.json`
maps each definition to the source lines it stands for.

## 1. Inventory

| Component | State | Operations | Talks to | Module |
|---|---|---|---|---|
| CDC consumer (`ingestion/cdc_consumer.py`) | `tampon`, `a_commiter`, positions of each process; committed offsets; raw tables; group membership | poll, buffer, flush (`vider`), commit, lag, Ctrl+C, idle exit, `close` | broker, BigQuery | `CdcConsumer`, contract `AtLeastOnce` |
| CDC replica of the bookings (schema, connector settings, `stg_bookings_cdc`, `int_bookings_actives`) | source rows, WAL of the slot, topic, raw table | insert, update, delete; snapshot, streaming, restart; load; "last event" view | consumer (through its contract) | `CdcReplica`, which runs the steps of `AtLeastOnce`; contract `MonotoneReplica` |
| Batch ingestion (`ingestion_dag.py`, `extract.py`, `load.py`, `snapshot.py`) | runs, tasks, attempts; Parquet files; partitions | trigger, clear, extract, validate, load, skip, snapshot, retry; an attempt that hangs; expiration of a partition | Postgres, disk, BigQuery | `BatchIngestion` |
| Batch staging (`stg_*.sql`) | none (views) | last version per key | raw tables, marts | `Versions`, `After` of `BatchIngestion`; `Scd2`, `StgPayments`, `Doublon` of `Marts` |
| Marts (`dim_customers`, `fct_bookings`, `orphan_payments`, `rpt_bookings_dashboard`) | three tables, each rebuilt from staging by a statement of its own; a view over them | SCD2 intervals, as-of join, payments per booking, orphans | staging, CDC replica | `Marts` |
| Simulator (`simulator/generate.py`, `postgres/init/02_audit.sql`) | rows, one transaction per turn, journal of events, audit table | aging, inserts, status changes, deletions, injected defects, commit or abort | Postgres, journal | `Simulator`; its defects on payments in `Marts` |
| Task events and metrics (`commun/callbacks.py`, `commun/metriques.py`, `metriques_dag.py`) | a JSON-lines file per day, one partition per day | append, load of a day, removal of an empty partition | Airflow, disk, BigQuery | `EventJournal` |
| Checks (`sql/checks/`), `bq.py`, scripts, Terraform, CI | none | read-only or provisioning | – | not modelled |

### What is hard here

* **Ordering and partial failure in the consumer.** The guarantee "at least
  once, no loss" rests on the order *load → wait → commit* (lines 110-145) and on
  the order *note the offset → buffer the row* (lines 211-216), while the process
  may die, be interrupted, be evicted or lose its partitions between any two
  steps. `subscribe()` is called without `on_revoke`, so the memory of a process
  survives the loss of its partitions.
* **Several processes in one group.** A late commit by a former owner, the same
  rows buffered twice, a lag read while no partition is assigned.
* **Repeated and reordered change events.** After a restart Debezium emits old
  events again, at greater offsets; rows of a snapshot are older than events that
  precede them in the mind of the reader but not in the topic; a slot may be lost.
* **The windows of the batch path.** Retries after a success, clears, replays of
  past windows, versions that become visible after their window was read, the
  first load that creates the table.
* **One slot for all runs.** A run that fails must not hold back the others. One
  that hangs does, without limit: no task has an `execution_timeout`.
* **Data that leaves by itself.** The BigQuery sandbox deletes a partition 60 days
  after its date, whether its rows are still the present ones or not.
* **A file that everybody appends to.** An event is dated before it is written,
  by any process, while the day of its date is being loaded; a sudden stop
  truncates a line, and the next one is glued to it.

* **Marts built one by one from moving inputs.** Customers and payments come by
  daily windows that may be replayed or expire, bookings by CDC with a delay, and
  each mart is a statement of its own: two of them read the bookings at different
  instants, and the dashboard joins a fact to a dimension rebuilt since.
* **Intervals.** A booking joins the version of its customer that was valid when
  it was made: a gap loses it, an overlap counts it twice, and a booking may
  precede every version (late dimension).
* **Commands that update what they read earlier.** Under READ COMMITTED an update
  applies to what another command has committed since the SELECT; `CURRENT_DATE`
  is the day the transaction began; the journal is a file that no rollback undoes.

`PROJECT.json` lists each hazard at its line, with the properties that would
catch it.

### What makes each component correct

* Consumer: nothing below a committed offset is missing from the raw table; the
  lag says 0 only when everything is delivered; memory is bounded; duplicates and
  backward commits come from failures only; everything is delivered in the end.
* Replica: at lag 0 the target equals the source; in between it shows past states
  of the source, in order; no booking comes back from the dead.
* Batch: a partition is a function of the file of its window for as long as it is
  kept; staging shows the last version of each row whose window was loaded and has
  not expired; a load removes no present version; every window ends, failed or
  not, provided that no attempt hangs for ever.
* Staging and marts: the versions of a customer cover each instant once; each
  booking that exists has one row, with the version of its day; each payment is
  in the fact, or a double submission, or among the orphans, and only one of these.
* Simulator: a booking with a payment is never cancelled or deleted; a closed
  booking stays closed; what is committed is in the journal, in its order.
* Journal: what a load leaves out came late; a replay loses no event that the file
  still holds; a bad line costs that line only; every event is loaded in the end.

## 2. Modules and their correspondence with the code

### `AtLeastOnce`: the delivery contract
Three variables: `log` (topics), `raw` (offsets that have a row), `commis`
(committed offsets). Rows may be loaded in any order and number; an offset may be
committed only if everything below it is loaded (`Covered`). It is what the first
lines of `cdc_consumer.py` promise, what `CdcConsumer` is shown to implement, and
all that `CdcReplica` knows of the consumer: it is composed of its very steps.

### `CdcConsumer`: the program
One action per step of `main()` and `vider()`:

| Code | Action |
|---|---|
| `poll()` returns a message; line 211 | `PollMessage` |
| lines 212-222: buffer or count the message, test of the size or the time | `Handle`, `HandleFails` (the message cannot be read) |
| `poll()` returns nothing: lines 218-222, lines 199-204 | `FlushOnTime`, `IdleExit` |
| `vider`, one `load_table_from_json(...).result()` per table | `BeginFlush`, `LoadTable` |
| `vider`, `consumer.commit(asynchronous=False)` | `Commit` (guard `MayCommit`) |
| `vider`, `lag_total()`; lines 223-224, new `tampon` and `a_commiter` | `Reset` |
| `KeyboardInterrupt`, last `vider()`, `close()` | `Interrupt`, `Finish`, `Close` |
| any other end of the process | `Die` |
| coordinator: eager rebalance, session expiry, eviction | `Join`, `Revoke`, `ShareOut`, `OnAssign`, `SessionExpire`, `Evict` |

`pc[c]` names the step that a process is about to take. When a process is
interrupted or dies, `InFlight` lets what it had sent take effect or not: a load
job that BigQuery finishes, a commit that the broker has taken. A job takes
effect at the failure or never; one that completes much later would only add a
row that the contract allows. Time is a free choice: the flush and the idle exit
may happen at any empty poll. Each member is started once; a restart is another
member.

### `CdcReplica`: from the source to the active bookings
`source` and `deleted` are Postgres; `wal`, `read`, `flushed`, `mode`, `image`
the slot and the connector; `topic` the topic. The raw table (`charges`, of which
`raw` is the part of the bookings) and the committed offsets (`positions`,
`commis`) move by `Consumer!Load` and `Consumer!Commit`, the steps of
`AtLeastOnce` with the topic for log: rows are loaded in any order and number,
offsets committed forwards or backwards. What is checked and proved of the
replica therefore holds of every consumer that implements the contract, and
`CdcConsumer` does. A deletion
writes two messages, the `d` event and its tombstone. `Ligne`, `After`, `Dernier`
are the `coalesce`, the `order by lsn desc, _kafka_offset desc` and the
`row_number() = 1` of `stg_bookings_cdc`. `ConnectorRestart` goes back to the
last recorded position; with `Resnapshots`, `SnapshotAgain` loses the slot.

### `MonotoneReplica`: what a lagging replica promises
Each booking shows a state that the source has had, never older than the one it
has shown before.

### `BatchIngestion`: runs, files, partitions
One table. `pc[d]` is the task of the run of window `d`; window 0 stands for
everything before `start_date`, which `snapshot.py` loads. `load` is two actions,
`GetTable` (does the table exist?) and `Job` (the load job), since another run
may act in between. `AttemptFails` is a failed attempt, before or after it had
its effect. An attempt may hang (`Hang`), with its run in the slot, until what it
waits for answers (`Resume`) or someone kills it (`AttemptFails`): nothing in the
DAG bounds it. `Expire` empties a partition `Expiration` days after its date,
whenever BigQuery gets to it, even one that a replay has just written.

`Write` lets a version appear with an `updated_at` of a day that is over: a
transaction open across midnight, or a back-dated booking. From a version of a
row to the next `updated_at` does not go back: the trigger of `01_schema.sql`
takes `clock_timestamp()`, the time of the update and not that of the start of
its transaction, and a `BEFORE UPDATE` trigger runs once the update has the row
lock. That the clock of the server is never set back is assumed.

### `EventJournal`: the journal and its two loaders
`ConstruireEvenement` dates an event, `Ecrire` appends its line: the two are
apart, since a process may be slow, and an event of yesterday be written today.
`AppendLine` abstracts the file to the events that are alone on their line
(`lisibles`), to whether a line is refused by `json.loads` (`rejets`) or by the
decoding of UTF-8 (`illisible`), and to the event whose line ends the file
without a newline (`ouverte`). `Coupures` says where a line may be cut. The two
load programs, `metriques_dag` and `pipeline_metrics`, only read the file and
write to tables of their own: a behaviour follows one of them (`programme`), and
every property is checked for both. They differ in `Readable`, `MayRead`,
`Refuse`, `Overwrite` and `MaxActive`.

### `Marts`: from staging to the dashboard
An instant is one change of the source. Its inputs come through the contracts of
the other models: `LoadCustomers` and `LoadPayments` overwrite the partition of a
closed window with its present rows (`BatchIngestion`), `Expire` is the sandbox of BigQuery,
`Consume` shows a booking in a later state than before (`MonotoneReplica`). The
views are operators: `StgPayments` and `Doublon` (`stg_payments`), `AmountPaid`
(`int_payments_by_booking`), `Actives` (`int_bookings_actives`), `Tableau`
(`rpt_bookings_dashboard`). The tables are `BuildDim`, `BuildFct` and
`BuildOrphans`. A version is named by its customer and its `updated_at`, which
`customer_sk` hashes; `Nul` is NULL. That a booking with a payment is not deleted
(`DeleteBooking`) is what `Simulator` proves. `frais` records which marts were
built since their inputs changed, and is read by properties only.

### `Simulator`: commands on the same rows
`Commencer` opens the transaction of a turn and reads the stays that have
elapsed; the updates follow one at a time (`CompletePastStays`,
`AdvanceStatuses`, `DeleteOldBookings`), each on a row read earlier (`lus`), each
traced at once. `Ecrire` waits for the transaction that has the row and applies
to what it left. `Commit` appends what a turn wrote to the history of each
booking, `audit`, which is the table `bookings_audit`; `Abandonner` is Ctrl+C, a
deadlock that Postgres breaks, or a lost connection: the journal keeps what it
has. `trouble` records the bookings of such turns and those that a command
updated from a stale row; properties that stale rows do break exclude them.

`MCCdcConsumer`, `MCCdcReplica`, `MCBatchIngestion`, `MCMarts` and `MCSimulator`
add the symmetry sets used by the configurations; `EventJournal` needs none.
Definitions commented as mutants are faulty variants
of the definition that follows them: each property of a run fails when one of
them is put in its place, so each property does depend on the code.

## 3. Runs

| Run | Instance | Question and answer |
|---|---|---|
| `cdc_batches` | 2 tables, 2 processes, 2 messages of 3 kinds, batches of 2 | Interleavings of loads, commits, crashes, Ctrl+C, evictions, rebalances; batches over two tables, one loaded and the other not; the lag read by a process without partitions: no loss, the buffer bounded, duplicates and backward commits only after an incident, the contract implemented. Holds. |
| `cdc_liveness` | 1 table, 2 processes, without Ctrl+C | Every row is delivered, the lag drains. Holds under the fairness of section 4. |
| `cdc_interrupt` | 1 process, 1 message | Ctrl+C between lines 211 and 216: a row is lost. Violated (finding 1). |
| `replica_exact` | 2 bookings, 2 versions, 5 messages, no lost slot | Stale snapshot rows, repeated and late events, loads in any order: at lag 0 source and target are equal. Holds. |
| `replica_resnapshot` | 1 booking, 2 versions, 4 messages, slots lost | With slots lost: nothing is missing, nothing comes back, the view advances through past states, versions and retained deletions are shown in the end. Holds. |
| `replica_ghost` | 1 booking, slots lost | A booking deleted while the slot is lost stays active for ever. Violated (finding 2). |
| `batch_runs` | 1 row, 2 versions, 2 windows and the snapshot, 1 retry, 1 slot, partition 0 expires | Failures, hung attempts, retries, clears, skipped windows, late versions, an expiration: partitions and staging are right for the windows that are kept, no load or replay takes a present version out of the raw table, every window ends if clears do and no attempt hangs for ever. Holds. |
| `batch_race` | 2 rows, 2 runs at a time | Two first loads wipe each other's partition. Violated (finding 3). |
| `journal_loads` | 2 events, 2 days, 1 retry, lines cut inside or before their newline | Appends against reads, bad and glued lines, replays: complete but for late events, nothing readable lost, everything loaded in the end. Holds for both programs. |
| `journal_accents` | 1 event, lines cut inside a letter | `metriques_dag` fails for ever on such a line. Violated (finding 4). |
| `marts` | 2 customers, 1 booking, 2 payments, 4 windows of one instant | Loads, replays, expirations, CDC events and builds in any order: intervals, grain, completeness of the fact, version of the day, conservation of amounts, double submissions. Holds. |
| `simulator` | 1 `simulate`, 1 `age`, 2 bookings, 3 turns | Interleavings, aborts and midnights: paid bookings, journal against audit, closed bookings, elapsed stays. Holds. |

### Bounds, and why they are enough

* *Two processes*: every hazard of the group is a former owner against a present
  one. A third would add owners that already gave up.
* *Two messages, batches of two*: a batch may be full, half full, empty of rows;
  a message may be on either side of a commit, a crash or a rebalance. The two
  messages are of one table or of two (`MaxTotal` bounds those that wait), which is
  enough to have one table loaded and the other not.
* *Two versions and a deletion of a booking* are the three operations. Four
  messages hold a repeated event, or two snapshots, or an inserted, updated and
  deleted booking with its tombstone; five hold that and a repetition, or the
  events of a second booking.
* *Two windows and the snapshot, two versions*: a row can move between any two
  windows, or stay in one of them under a new version. Longer histories are left
  to the proofs. `Expiration = 3` lets the partition of window 0 expire on the
  last day, when the windows 1 and 2 may still be replayed: an expired partition
  beside those that are kept, and one that `snapshot.py --force` fills again.
* *Two events and two days*: an event on either side of a read, a line glued to
  another, a run of one day between those of another. Three events (770 000
  states) show nothing more.
* *Two customers, one booking, two payments, four windows*: a version of each
  customer in a window before, at and after the booking, three versions of one;
  an overpaid or doubled or orphan payment beside the first. Properties of the
  marts relate one booking to its customer, or a sum over payments; the number of
  bookings is left to the proofs.
* *One `simulate`, one `age`, two bookings, three turns*: two commands on the same
  row, one of them across midnight or aborted, then a turn that sees the outcome.
  Two runs of `simulate` add nothing that `age` does not do to a row read.
* Bounds are constants named in each module, and appear in guards only
  (`MaxOffset`, `MaxTotal`, `MaxTopic`, `MaxVersion`, `LastDay`, `MaxPaiements`,
  `MaxTours`).

Deadlock is not checked: the bounded systems stop when the bounds are reached
and every process has ended.

Symmetry is used in runs without liveness only, and over processes or bookings,
which the specifications never compare or order.

## 4. Fairness

* `CdcConsumer`: weak fairness of each step of a running process (it is a loop
  whose calls all have timeouts) and of the coordinator. No fairness obliges a
  process to start, to be interrupted, to die or to be evicted. Delivery assumes
  that evictions end (`EvictionsCease`) and that some process is left running;
  the lag drains when there is no incident. `FlushOnTime` is fair because
  `--max-seconds` elapse.
* `CdcReplica`: the connector keeps working, and each message that is no
  tombstone is loaded in the end, which is what `EventuallyDelivered` says of
  `CdcConsumer` (the fairness of a consumer is no part of `AtLeastOnce`); restarts
  end (`RestartsCease`). The bound of the topic is an explicit way out
  (`TopicFull`).
* `BatchIngestion`: the scheduler triggers each window that is over
  (`catchup=True`) and runs the tasks of the runs whose attempt does not hang.
  **That attempts end is not guaranteed by the code**: there is no
  `execution_timeout` (ADR-027), the runbook says that a frozen query or a
  suspended load leaves the task `running` without limit, and with one slot such
  a run stops the whole DAG (ADR-021). It is therefore no part of the fairness but
  a premise of the property, `HangsCease`; without it TLC finds `EveryWindowEnds`
  violated. Nothing obliges anyone to kill an attempt that hangs, to launch the
  snapshot or to clear a run, and clears are assumed to end (`ClearsCease`).
* `EventJournal`: the days pass, and the same of the scheduler and of clears; here
  that attempts end is assumed in the fairness itself, and `EventuallyLoaded` says
  nothing of an attempt that hangs. Nothing obliges an event to happen or to be
  written.

`Marts` and `Simulator` state no fairness: dbt and the commands are launched by
hand, and nothing obliges anyone to.

## 5. Proofs

`CdcConsumerProofs` and `CdcContractProofs`, for every number of tables,
processes and messages, every batch size and every set of interrupt points, the
one of finding 1 (`"noted"`) left out where that is said:

* `TypeCorrect`: `Spec => []TypeOK`. `TypeOK` alone is not inductive: `Handle`
  computes the offset in hand from `a_commiter`, which may be 0. `TypeInv` adds
  `HandInv`: a process with a message in hand knows its topic, the offset lies in
  that topic, and the next one to read is the one to commit.
* `Safety`: `Spec => []NoLoss`, given `"noted" \notin InterruptPoints`. `NoLoss`
  is about the broker and the warehouse only; why an offset may be committed lies
  in the memory of the processes. `SafetyInv` is `TypeInv`, `NoLoss` and
  `MemberInv` of each process: below the offset that it would commit, and below
  the next one that it reads, each message is in the raw table, a tombstone, or
  in its buffer, the message in hand excepted; and the tables that `vider()` has
  dealt with have their buffered rows in the raw table. `MemberInv` does not say
  that a process owns what it commits: it need not, and this is why a late commit
  loses nothing. Topics and raw tables only grow (`GrowStep`), a permitted
  commit is covered (`CommitCovers`), and memory stays in its invariant
  (`MemberStep`).
* `Implementation`: `Spec => Contract!Spec`, same proviso. Each step is
  a step of `AtLeastOnce` or stutters on its variables; it needs `RowsInv` (only
  rows are buffered) to see that a load job loads rows of the topic.
* `OnceSafe` and `MonotoneSafe`: `Spec => []OnceWhenCalm` and
  `Spec => MonotoneWhenCalm`, for every set of interrupt points. Here who owns
  what does matter. `CalmInv` says that no partition is shared out while a member
  has yet to give up its own (`RebalanceInv`, incident or not), and, as long as
  there is no incident, that a partition has one reader, at or above the committed
  offset, which would commit what it has read (`ReaderInv`); that its buffer is
  increasing, below the offset to commit, and above the committed one until the
  commit (`BatchInv`); and that what the raw table has beyond the committed offset
  is what this reader is loading (`LoadedInv`). The rows of the next load are then
  new, and the next commit is not behind.
* `BufferStaysBounded`: `Spec => []BufferBounded`, for every batch size. A buffer
  is full only between the test of line 218 and the end of `vider()` (`BufferInv`),
  so that the row in hand always has room.
* `LagIsTrusted`: `Spec => []LagZeroMeansDelivered`, same proviso as `Safety`. A sum
  of lags may be 0 for the wrong reason, when one is negative; `LagInv` (no offset,
  committed, read or to commit, passes the end of its topic) excludes that.

`CdcReplicaProofs`, for every number of bookings, versions and messages, and every
consumer that keeps the contract; with lost slots too, unless it is said
otherwise. `LoadFacts` and `CommitFacts` are all that the proofs take from the
steps of `AtLeastOnce`. `Inv` is inductive, and has four parts:

* each change that the slot, a snapshot, the topic or the connector knows is a
  state that the source has had (`SoundInv`); of two changes of a booking the one
  with the greater `lsn` is at least as recent (`OrderInv`); a tombstone has no row
  (`TombInv`);
* below the committed offset all is in the raw table, tombstones apart
  (`CoverInv`);
* the present version of an existing booking is in the topic, or in the image of the
  snapshot, or still pending in the slot (`CurrentInv`);
* without new snapshots, the deletion of a booking of which anything is known is
  in the topic or pending (`GoneInv`). A lost slot is what breaks it, and why
  `replica_ghost` finds a ghost.

From it follow `TypeCorrect`; `NothingIsMissing` (`[]NothingMissing`);
`ReplicaReconciled` (`[]Reconciled`, assuming `~Resnapshots`); `GoneForGood`
(`NoResurrection`); `ReplicaIsMonotone`, the refinement of `MonotoneReplica`: the
last event of a booking by (`lsn`, offset) is never less recent than before, since
rows are only added, in whatever order.
`CdcReplica` takes two assumptions that the proofs need and the code justifies:
NULL is no row (`BookingsAssumption`), bounds are numbers (`BoundsAssumption`).

`SumTheorems` says what a sum is. The models add up with `MapThenSumSet` of the
community modules: rows buffered, lags, cents. The provers cannot use the
library's induction theorems, which take an operator. `InductionOnNat` and
`InductionOnSets` state induction with a set instead (a set that has 0 and the
successors of its elements contains the numbers; the same for the finite parts of
a set), and follow from the well-foundedness of `<`. `Total(f, S)`, a recursive
function over the parts of `S`, is defined on every finite set (`SumExists`), does
not depend on the order in which elements are taken out (`SumOfPart`), splits
over disjoint parts (`TotalUnion`) and over groups (`TotalByGroup`). Each sum of a
model is shown to be one (`EnAttenteIsTotal`, `LagIsTotal`, `SommeIsTotal`,
`PayeIsTotal`).

`MartsProofs`, for any customers, bookings, windows and payments:

* `VersionsCovered`: `Spec => []VersionsCoverOnce`. `dim` is not the dimension of
  the present raw table but of an earlier one: the invariant (`DimInv`) is that it
  is `Scd2` of *some* finite set of versions of each customer. `CoverOnce` is the
  lemma on intervals: of the versions at or before `t` the last one is valid at
  `t`, or the first of all when there is none, and no other is; it rests on
  `Smallest` and `Largest` (a finite set of instants has a minimum and a
  maximum) and on `LeadIsNext`.
* `DashboardGrain`: `Spec => []OneRowPerBooking`. A row of the fact holds the name
  of a version, not its bounds, so the dimension it was built from need not be the
  one the dashboard joins (`KeysOfScd2`, `FctInv`).
* `FactWhole`: `Spec => []FactIsWhole`.
* `TypeCorrect`: `Spec => []TypeOK`. That a sum of cents is a number needs that the
  payments are finitely many, and that each has an amount (`PaymentsInv`).
* `SinglePayment`: `Spec => []PaidOnce`. The rows of a booking come from one form,
  in the source or loaded, an old version of a payment being in the raw table only
  (`PaymentsInv`); of those that staging shows at most one is the first submission
  (`RetenuIsOne`), and a sum over at most one row is its amount or 0
  (`AmountPaidFacts`).
* `TierHeld`: `Spec => []TierAtBooking`. A table is a function of the present
  inputs as long as it is fresh (`FreshInv`), and the version held at the time of a
  booking, when the raw table has it, is the one whose interval the booking falls
  in (`DetenueIsValid`), since loads only bring versions that were (`HeldInv`).
* `AmountsKept`: `Spec => []AmountsConserved`. The payments of staging are split
  into the doubles, the orphans and those of active bookings; the latter are
  grouped by booking, which a fresh fact has once each. Sums are of finite sets
  because the bookings made and the payments are finitely many, which is part of
  the invariant and not assumed of the constants.

`SimulatorProofs`, for any number of commands, bookings and turns:

* `TypeCorrect`, with `IdleInv` (a command between two turns has written nothing).
* `PaidSafe`: `Spec => []PaidNeverCancelled`. The rows that a command read may be
  stale, and what it read is not what it overwrites, so nothing can be said of
  them in general. `PaidInv` says what matters: of a booking that has, or at
  commit will have, a payment, all that was ever written, committed or not, and
  every status that any command has read, is confirmed or completed. It needs that
  a command only holds rows that were written (`ReadInv`), that the first status
  of an insertion is never replaced, and that one command at most has uncommitted
  changes of a row (`LockInv`).
* `TracedSafe`: `Spec => []CommittedIsTraced`. What would be committed of a booking
  if any one command committed now is in the journal, in its order (`TracedInv`);
  an update that finds the row deleted, or a turn that fails, only adds events.
* `JournalSafe`: `Spec => []JournalIsAudit`. For a booking without trouble the
  journal is exactly that (`JournalInv`).
* `TerminalSafe`: `Spec => TerminalKept`. Without trouble, what is committed and
  what is written after it form a way through the statuses on which nothing follows
  "completed" or the deletion, and only the deletion follows "cancelled"
  (`CheminInv`): each command updates the row that it read, and only reads rows of
  the status that its step selects (`StepInv`).
* `PastStaysSafe`: `Spec => PastStaysClosed`. A stay that had elapsed when the turn
  began and that the turn sees open is one that it has still to close (`ClosInv`);
  another command may commit in between, but on a way (`CheminFin`), hence never
  opens what was closed.

`BatchProofs`, for any number of keys, versions, windows and retries; all but
`TypeCorrect` with one run active at a time (`MaxActive = 1`, what the
`max_active_runs=1` of the DAG gives; `batch_race` shows what two runs do):

* `PartitionSafe`, `StagingCurrent`, `OthersSafe`, `ReplaySafe`:
  `PartitionIsItsFile`, `StagingIsCurrent`, `OthersUntouched`, `CurrentKept`.
  `load` decides on the table's existence in one step and writes in another;
  `ControlInv` (one active run) and `TableInv` (a run that saw no table is still
  right when it writes) are what closes that gap. That a replayed run brings no
  older version back takes three more facts: files and partitions never hold a
  version that the source has not reached (`PastInv`), the present rows of a
  partition are in the file of its window (`KeptInv`), and once a window has been
  read the present version of its rows is in its file, the late ones excepted
  (`FileInv`). `StagingIsCurrent` follows (`InvIsCurrent`): any other version that
  staging could choose is older. The four properties except what `Expire` takes
  away, and nothing else: a partition is its file or has expired.

`JournalProofs`, for any number of events, days and retries, any set of cuts,
either program:

* `LoadsComplete` and `ReplaySafe`: `LoadedIsComplete` and `ReplayKeeps`. The
  invariant is on what a run has read and not yet written (`JobInv`): it has the
  events of its day that can be read, late ones excepted, and all that its
  partition holds and the file still has. `DatedInv` (a partition holds events of
  its day only, written before) is why another day's run cannot disturb that.

The invariants of the consumer without incident and of the journal of the
simulator were first checked by TLC on the instances of the runs.

Only model-checked:

* the liveness properties (`EventuallyDelivered`, `LagDrainsWhenCalm`,
  `EventuallyShown`, `EventuallyGone`, `EveryWindowEnds`, `EventuallyLoaded`): they
  rest on fairness, hence on ENABLED, which this prover does not handle;
* the violations, which are counterexamples.

Two limits of the prover shaped definitions. `SortSeq` of the module TLC has no
definition for it, so `CommittedIsTraced` says "in its order" with an increasing
function and not with a sorted sequence of positions. And the provisos of the
theorems are those of the runs: the interrupt point of finding 1, the lost slots
of finding 2, the one active run of finding 3.

`Implementation` and the theorems on the replica meet at `AtLeastOnce`: the first
says that what the consumer does to the raw table and the committed offsets are
steps of the contract, the others take any such steps. In the same way
`Marts` uses of the replica that bookings only advance, which
`ReplicaIsMonotone` proves, and of the simulator that a paid booking is not
deleted, which `PaidSafe` proves.

## 6. Findings

1. `cdc_interrupt`: line 211 notes the offset before line 216 buffers the row. A
   Ctrl+C between the two leads to a final flush that commits the offset of a row
   that was never loaded. The module announces "Aucune perte".
2. `replica_ghost`: after a lost slot, `DECISIONS.md` (ADR-037) announces "état
   retrouvé". A booking deleted in the meantime is in no event and in no new
   snapshot: its last event is not a deletion and it stays active.
3. `batch_race`: a comment of `ingestion_dag.py` says that two concurrent runs no
   longer corrupt each other. On a table that does not exist yet they do, as
   ADR-023 records; `max_active_runs=1` does not bind a backfill, which has a
   limit of its own, nor `snapshot.py`.
4. `journal_accents`: `metriques_dag.py` rejects and counts a "ligne tronquée par un
   arrêt brutal". When the cut falls inside an accented letter, which
   `callbacks.py` writes as it is, the decoding of the file raises in the `for`
   statement, outside of the `try`: every later load fails, of any day.

Behaviour met while modelling that no run refutes:

* a member that commits after it lost a partition moves the committed offset
  back. Nothing is lost, rows are loaded again; the lag stays above 0 until the
  next message or rebalance (`LagDrainsWhenCalm` excludes that case);
* a message that cannot be read stops every process that reads it, and its
  partition with them. It is never skipped;
* the replay of a past window reads the present rows: it removes from the raw table
  the versions that have moved on since. The first lines of the runbook call any
  replay safe, its section on customers says when it is not. `CurrentKept` is what
  does hold: present versions stay;
* one line that `json.loads` refuses stops `pipeline_metrics` (`metriques.py`) for
  good, since it reads the whole file for each day;
* a run of `metriques_dag` started by hand before its day is over leaves out the
  rest of the day until it is cleared, as ADR-040 notes;
* the journal of the simulator is written before the transaction commits: a turn
  that aborts leaves events of changes that never happened. The comment of
  `generate.py` (lines 61-63) that the file keeps what really happened is to be
  read with that reserve; it is about the states that the source overwrites, so we
  do not count it as a finding. `CommittedIsTraced` is what does hold;
* of two commands that select the same pending booking, the second update applies
  to what the first one committed: across midnight `simulate` may confirm a
  booking that `age` has just cancelled (`TerminalKept` and `JournalIsAudit` exclude
  bookings updated from a stale row);
* between two builds a CDC load makes `fct_bookings` and `orphan_payments`
  disagree about what exists: a payment is in both or in none until the next
  build of both, which is why `AmountsConserved` asks that both be fresh;
* a replay of `customers` erases past versions (ADR-034): `TierAtBooking` promises
  the version of the day only while the raw table holds it;
* `expire_past_stays` of `generate.py` is called by nothing;
* `stg_bookings` shows a late version only after a replay of its window
  (`tardives`), as `DECISIONS.md` accepts for transactions open across midnight;
* a present version leaves staging with its partition, 60 days after its date
  (ADR-041): a booking that no longer changes is lost to the batch path, and no
  later window brings it back. `StagingIsCurrent` speaks of the partitions kept;
* an attempt that hangs keeps the only slot, and every other window behind it
  (ADR-021, runbook): `EveryWindowEnds` excludes it.

## 7. Abstractions, and what is not modelled

* Payloads are a kind of message or a version number. Columns, types, currency
  and status values are left out, so the content checks of `validate` are a free
  refusal; schema changes are left out.
* Postgres, Debezium, the broker, BigQuery and Airflow are not in the repository
  beyond their settings; they are modelled from how the code uses them. The
  eager rebalance is the default of the client; a transaction left open across
  the start of the Debezium snapshot is not modelled.
* `creer_tables` is idempotent and runs before the loop.
* *Expiration.* The sandbox deletes partitions after 60 days everywhere;
  `BatchIngestion` and `Marts` model it for the raw tables of the batch path. Left
  out: the raw tables of the CDC, whose first partitions expire on 2026-12-01
  (ADR-041): the last event of a booking that no longer changes goes with them,
  and `Reconciled` and `NothingMissing` hold until then; and the table of
  `pipeline_metrics` (`docs/limites.md`), so that `LoadedIsComplete` and
  `ReplayKeeps` say what loads and replays do, not how long it is kept. Tables that
  are not partitioned, the marts among them, expire too, and are built again.
* *Retention of the topics.* A message stays in `log` and `topic` for ever; the
  consumer is assumed to be less late than the retention of the broker.
* A load job that the server finishes long after its attempt was given up
  (`BatchIngestion` lets it take effect at the failure or never), and a clock of
  the Postgres server that goes back.
* In `Simulator` the defects 5 and 6 (`generate.py`, lines 466-488), which update
  the currency or the amount of a booking, are left out: they take row locks and
  fire the audit trigger with an unchanged status. They neither read nor change a
  status, which is what `JournalIsAudit` is about.
* In `Simulator` a booking is its status and a payment its booking; in `Marts`
  amounts take two values, the booked price and the overpaid one. Changes of
  email, duplicate emails, `seed --truncate` and
  the sequence of ids are left out; `dim_hotels` and `dim_dates` are joined on a
  unique key and never change.
* Two extractions of one window at once, which share a temporary file
  (`extract.py:97`): only a command line beside the DAG can do that.
* `sql/checks/reconciliation_raw.py` only reads, and assumes that nothing changes
  meanwhile; whether its counts could agree by compensation would need two keys
  per window in `BatchIngestion`, beyond what its run can explore.
* One table in `BatchIngestion`: the tables share nothing but the runs.
* `bq.py`, `sql/checks/`, scripts, Terraform and CI keep no state of the running
  system.

## 8. Plan

Done: `AtLeastOnce`, `CdcConsumer`, `CdcReplica`, `MonotoneReplica`,
`BatchIngestion`, `EventJournal`, `Marts` and `Simulator`, with the proofs of
every safety property and refinement that the runs check.

Left: the safety part of what the liveness properties rest on, as theorems (a
member that is left running owns each partition or is about to; a connector at
rest has emitted all that the slot has; a run that waits for the slot finds it
free), so that only fairness remains to be checked; the retained deletions of the
replica when slots are lost, as an invariant.
