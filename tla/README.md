# Triplox in TLA+

Triplox is a database of facts (entity, attribute, value). Clients append
transactions to a log; every node reads the log, indexes the transactions into
SlateDB, and answers queries over any point of the history. This directory
models the path of a transaction from the log to an open database value. Paths
below are relative to the repository; line numbers are in `PROJECT.json`.

## The system

| Part | Source | State | Operations | What is hard about it |
|---|---|---|---|---|
| Log subscription | `src/log.rs` | last id, receiver, cancellation token | catch up in batches, retry, receive, recover from lag, stop | hand-off from reading to receiving; overwritten records; cancellation in the middle |
| Kafka log | `src/kafka_log.rs` | partition, consumer position | produce, poll, read, bootstrap | other nodes append; lost acknowledgements; unreadable records; bootstrap race |
| Memory, file log | `src/memory_log.rs`, `src/file_log.rs` | records, broadcast sender | append, read, bootstrap | broadcast outside the lock; failing `flush`; torn last record |
| Indexer pipeline | `src/indexer.rs`, `src/tx.rs` | index rows, partition counters | `transact_tx` | values read, rewritten and checked in different steps |
| Tempids, upserts | `src/tempids.rs`, `src/upsert_resolution.rs` | generations | resolve, allocate | several tempids that refer to each other |
| Schema | `src/schema.rs` | attributes, idents | validate, update, reload | in-memory schema against reloaded schema |
| Completions | `src/indexer.rs` (`TxWaiter`) | channel of 1024 | announce, `await_tx`, `await_indexed` | overwritten completions; records that fail to decode |
| Node | `src/node.rs` | the above | start, `submit_tx`, `execute_tx`, `db`, `db_as_of`, close | crash before writes are durable; two reads that are not atomic |
| Incremental queries | `src/incremental.rs`, `src/incremental/`, `src/slate/cdc.rs` | circuits, WAL cursor, subscriptions | register, apply, unregister, shut down | registration against a running CDC loop; slow subscribers |
| Query engine | `src/query.rs`, `src/query/` | none | evaluate | joins |
| Server, clients | `src/server.rs`, `triplox-client`, `triplox-jvm` | connections, streams, queues | HTTP handlers, subscription stream | dropped streams, draining, closing against the reader thread |

`PROJECT.json` lists every part, with what is and is not modelled, and the
hazards with the line where each bites.

## Modules

| Module | Models |
|---|---|
| `OrderedDelivery` | what a log promises: every record, once, in order (abstract) |
| `LogSubscription` | the broadcast channel and the subscription task; extended by the logs |
| `KafkaLog` | producing, the consumer thread, unreadable records |
| `LocalLog` | memory and file log: append and broadcast as two steps, failing append |
| `FactStore` | what a transaction means for a set of facts (abstract) |
| `TxStore` | the pipeline over index rows, `MCTxStore` its small instance |
| `Node` | indexer, storage, completions, clients, crash and restart, `MCNode` its small instance |
| `KafkaLogProofs`, `TxStoreProofs` | theorems |

**LogSubscription.** `after` is `last_tx_id`, `pos` and `end` delimit the batch
being accepted, `remaining` is `max_records`. One action per await point of
`catch_up_transactions` and per branch of the live `select!`. The `Closed`
branch is left out: the task holds the log, and with it a sender. A record is its
position; the file log's ids are byte offsets, which order the same.

**KafkaLog, LocalLog.** Their `OrderedSpec` says that a step is a step of
`OrderedDelivery` or leaves the log and the deliveries alone, unless the node is
closed (`cancelled`) or, for the local logs, an append overlapped with another one
or failed (`overlap`, `failed`, history variables of `LocalLog`).

**TxStore.** One step is one `transact_tx`. The operators follow the numbered
stages of `transact_tx_inner`: `Expand` (lookup refs, `RetractEntity`),
`Unallocated`, `ResolveTempIds`, `AddRetractConflict` and `CardinalityConflict`,
`Finalize`, `UniqueConflict`, `IndexRows`. `last` is history, for `FactStore` and
for the documented rule on contradictions. A transaction has at most one tempid,
in entity position, and the schema is fixed.

**Node.** Stands on the promise of `OrderedDelivery`: records are accepted in
order. That promise is proved for Kafka until shutdown, and fails for the local
logs under concurrent or failing appends (below). Transactions are reduced to
claims of unique values, enough for an outcome to depend on earlier outcomes;
`Junk` is a record that does not decode, such as the orphan of a Kafka bootstrap
race. `WriteTx` and `FinishTx` are separate because storage can be read between
them, while `indexer.read()` cannot be taken. `Announce` stands for the four sends
of a completion: of a commit (in `FinishTx`), of an abort (also `FinishTx`), of a
failure to write the abort (`FailStorage`) and of an undecodable record
(`FailUndecodable`). Catch-up holds the write lock for
a whole batch; the model lets readers in between records, which allows more
behaviours. A graceful close is a `Flush` followed by `Crash`.

SlateDB is external: a write is visible at once and durable later, in order.
That writes are not awaited for durability is stated in the comment above
`registration_gate_blocks_cdc_apply_until_query_is_registered`
(`src/incremental.rs`).

## Runs

| Run | Result | Shows |
|---|---|---|
| `kafka` | pass | no record twice or late, ever; `OrderedDelivery` implemented until shutdown and all delivered that can be read, record 6 being unreadable; a cancelled task ends |
| `kafka_shutdown` | **violated** | a task cancelled in catch-up may accept a later record over a gap |
| `local` | pass | no record twice or late with two appenders and a failing append; `OrderedDelivery` implemented as long as appends neither overlap nor fail |
| `local_concurrent` | **violated** | broadcasts overtake each other, the earlier record is dropped |
| `local_failed_append` | **violated** | after a failed append, a lagging subscriber passes over a record whose append succeeded |
| `tx_store` | pass | index consistency at every basis, history, counters, meaning of transactions |
| `tx_contradiction` | **violated** | a transaction that asserts and retracts the same multi-valued fact commits |
| `node_safety` | pass | storage is a replay of the log; replies and reads are right through crashes; a node whose backlog fits one read is up only after indexing it |
| `node_faults` | pass | with a storage error, replies agree with storage, database values do not change; `execute_tx` and start-up return |
| `node_startup` | **violated** | a node with a longer backlog than one read is up too early |
| `node_idents` | **violated** | `db` may pair a new basis with old idents |
| `node_transient_error` | **violated** | a storage error is stored as an abort that a replay would not produce |

A violated run checks one statement of the repository's documents or comments,
quoted in `findings`. How far they matter in practice differs: `node_startup`
needs more than 65535 un-indexed records.

`local_failed_append` has one appender. A record whose `sync_data` failed is in
the file but not in the channel. That the live subscription passes over this
record is excepted by `SkipsOnlyFailed`: the trait's comment warns appenders that
a failed append leaves the record's fate open (`src/log.rs:174`). But a lagging
subscription reads back as many records as the receiver missed, and the failed
record uses up one of them; the last missed record, successfully appended, is
then never read.

`tx_contradiction` is about the one kind of transaction that `FactStore` does not
take from the documentation. The website counts asserting and retracting the same
fact as a conflict; `add_retract_conflicts` does so for cardinality-one attributes
only, and a test keeps it that way. `FactStore` has an action of its own for these
transactions, `CommitContradiction`, which says what the code makes of them (the
assertion wins). `Commit` and `Abort` are the documented outcomes.

`StartupCaughtUp` holds in `node_safety` because `StartupBatch` is as large as the
log can grow; with a smaller one it fails (`node_startup`). `ReadYourWrites` depends
on this too: a node that is up too early can open a value without a transaction that
was acknowledged before a crash. `TruthfulReplies` is about
transactions that `execute_tx` appended, which always decode; waiting for records
that do not is the subject of `StartupReturns`.

### Bounds

* Logs: channel of 2 (1024 in the code), batches of 2 and 1 (100 and 65535), up
  to 7 records. Small sizes make full batches, short batches, repeated lags and
  duplicates all happen within a few records. The Kafka theorems hold for all sizes.
  The initial state ranges over every length of log and starting point.
* `tx_*`: three transactions of one operation, or of an assertion and another
  operation, two attributes (a cardinality-one identity, a multi-valued unique one),
  two values, two entities.
  The theorems hold for all schemas and transactions of the model.
* `node_*`: completion channel of 1, three records, at most two clients, two
  crashes, one storage error. A channel of 1 loses a completion as soon as two
  records finish. Clients are symmetric; no symmetry is used for liveness.
* Deadlock is not checked: each bounded model ends when its bounds are used up,
  and a program without requests waits.

### Fairness

* `KafkaLog`: the consumer thread and the task keep running (weak). A read that
  is retried for ever succeeds at some point (strong) unless it reaches an
  unreadable record: such a read always fails, with the readable records of its
  batch, so `EventuallyDelivered` is about the records before (`Deliverable`). That
  other reads succeed in the end is an assumption about the broker. `select!` picks a ready branch
  at random, so a cancelled task leaves its loop (strong).
* `Node`: the subscription task, start-up and waiting callers are scheduled
  (weak). Nothing is assumed of flushing, crashes, timeouts or clients' requests.

## Proofs

`KafkaLogProofs`, for all capacities, batch sizes, bounds and unreadable records:
`TypeCorrect`, `NoGapWhileRunning`, `ImplementsOrderedDelivery`. `GapFree` is not
inductive: whether the next received record fits depends on what was overwritten
and polled. The invariant `Inv` follows `Base == polled - Len(chan) - missed`,
the receiver's position. Broadcasting never moves `Base`, overwriting included;
receiving moves it by one; and a task in its live phase has accepted everything
up to `Base` (`Progress`), which a short batch, or reading as many records as
were missed, establishes. Assumptions: `SizeAssumption`, `UnreadableAssumption`.

`TxStoreProofs`, for all schemas, values, transactions and bounds: `TypeCorrect`,
`OneValueAlways`, `OneOwnerAlways`, `HistoryNeverChanges`,
`CounterAlwaysRecoverable`, `ImplementsFactStore`. The invariant adds `RowBounds`
to the properties: rows are not newer than `latest`, they are about allocated
entities, and the newest entity has a row. The argument: a view before the new
transaction is unchanged (`ViewBefore`); the view at it follows from the finalized
datoms (`ViewAfter`); finalizing keeps the meaning of datoms without conflicts
(`FinalizeMeaning`), which needs `OneValue` because the code reads one stored value
only; the uniqueness check rejects exactly the transactions that would leave a value
with two owners (`UniqueMeaning`), which needs `OneOwner` because the code reads one
owner only. Assumptions: `SchemaAssumption`, `BoundAssumption`, `InputAssumption`.

Only model-checked: everything about `Node` and `LocalLog`, `NeverRepeats`, and
liveness, which is out of the prover's reach.

## Not modelled

Incremental queries, CDC, the query engine, server and clients are planned (below).
Parsing, configuration, logging, value arithmetic and encodings
have no state of their own. Topic creation and object store settings are I/O.

## Plan

Done: the modules, runs and theorems above. Next, in this order:

1. `IncrementalQueries`: registration gate, basis and WAL cursor, CDC loop,
   bounded subscriptions, shutdown. Abstract specification: a subscriber's deltas
   add up to the query's result at each transaction. Bounds: two queries, three
   transactions, channel of 1. Composes with the write and flush steps of `Node`.
2. `TempIds`: generations of upserts with two or three tempids, checked against a
   reference resolution.
3. `SchemaEvolution`: update and reload; a reloaded schema equals the one in memory.
4. `FileLogCrash`: bytes, torn last record, reopening, reading.
5. `KafkaBootstrap`: two nodes racing to write record 0.
6. `SubscriptionStream`: the server's streams and the Rust and JVM clients' end of
   them.
7. `TemporalFilter`: the iterator's steps against `View`; then joins of the query
   engine against a reference evaluation, as far as TLC reaches.
8. Theorems: `NeverRepeats` for both logs, `OrderedSpec` for local logs,
   `StoreIsReplay`, `TruthfulReplies` and `ReadYourWrites` of `Node`.
