# pgx in TLA+

pgx is a command-line tool around PostgreSQL. Most of its commands run one
statement and print. Three run for ever and move data: `replicate` follows a
logical replication slot, `consume` turns broker messages into documents,
`listen` forwards notifications. What can go wrong in them is an order of
events, a failure between two steps, or a buffer nobody empties, and that is
what is modelled here; so is the way such a command starts, from a command line
and a configuration file that `profiles` commands rewrite. Modules are beside
this file; `PROJECT.json` maps every definition to the lines it stands for
(paths under `src/src/`).

## The system

```
replicate   slot -> worker task -> mpsc -> ReplicateSession -> fan-out of sinks
                                              |        |-> PostgresApplier -> target
                                              +-> applied LSN -> worker -> slot
consume     RabbitMQ | Kafka -> ConsumeSession -> GraphQL compose -> sink -> ack
listen      NOTIFY -> Drainer task -> mpsc -> event loop -> downstream -> BulkBuffer
all three   session_loop::run -> session factory, backoff, signal
at start    command line + ~/.pgx/config.toml -> settings -> sinks, one by one
```

| Component | State | Operations | What makes it correct |
|---|---|---|---|
| replication client (`replication/client.rs`, `proto.rs`) | slot position, applied LSN, bounded channel, stop flag | start, receive, report, stop, detach | never reports an LSN whose rows can still be lost; a detached worker lets go of the slot |
| replicate session (`replicate_session.rs`, `mod.rs`) | relation cache, resume LSN, outcome | one arm per event, idle timeout, signal | progress follows delivery; a reconnect skips nothing |
| applier (`applier.rs`) | buffer that outlives the session, target connection | begin, event, commit | one target transaction is one whole source transaction |
| row pipeline (`decoder.rs`, `event.rs`, `filter.rs`, `transforms.rs`) | relation cache, rules | decode, gate, drop, rename | the selected rows, under the right names, in order |
| file sinks (`parquet.rs`, `iceberg.rs`) | rows in memory per table | accumulate, flush, close | no row is lost silently, none is written twice |
| session loop (`session_loop.rs`, `backoff.rs`, `signal.rs`) | failure counter | retry, give up, stop | the budget is spent on refusals only; the signal ends it |
| consume session (`consume_session.rs`, `consume.rs`) | message in hand, duplicate cache | take, compose, send, record, settle | at least once; with ids, once within process and TTL |
| consumers (`consumer/rabbitmq.rs`, `kafka.rs`) | credit, last offset of a partition | deliver, ack, nack, commit, rebalance | what the broker forgets was delivered |
| listen (`listen.rs`) | channel, Drainer | poll, LISTEN, offer | order, and the loss of a connection is noticed |
| bulk buffer (`downstream/bulk.rs`) | lines, batches in flight | push, flush, POST | a document is posted once and does not stay |
| data loader (`graphql/dataloader.rs`, `pool.rs`) | entry of the global cache | load, expire, insert | the children of one database state |
| deliveries (`downstream/delivery/*`, `consumer/kv.rs`) | connection, channel, producer queue | post with retries, publish, SET and EXPIRE | an accepted event or acknowledged message has arrived, in order, or is in a known place |
| configuration (`profiles.rs`, `config.rs`) | one file, no lock | add, edit, delete, list, show | the default exists; a command changes its profile only |
| start of a pipeline (`main.rs`, `sinks.rs`, the `run`s) | effective settings, sinks opened | resolve, merge, open | connects where it was told to; every setting is somebody's word |
| the rest (export, query, psql, info, doctor, graphql, mcp, format, ...) | none that outlives a call | | not modelled: sequential input and output |

Components meet in four ways. Calls: a session calls its sink and waits for it,
so a slow sink slows everything behind it. Channels: worker and session, Drainer
and event loop share nothing else. Shared state: the applied LSN, the applier's
buffer, the duplicate cache and the bulk buffer outlive a session. Callbacks:
the session loop calls the factory and watches one signal. Processes meet in the
configuration file only.

The hard behaviours are listed in `PROJECT.json` under "hazards", each at the
line where it bites and with the property that would notice.

## Modules

| Module | Models | Composed from |
|---|---|---|
| `Replicate` | client worker, session, applier, sinks, slot, restarts | |
| `RowFilter` | a rule: parser and evaluation | |
| `RowPipeline` | the way of a row | takes `RowFilter`'s operators as constants |
| `WalBuffers` | Parquet and Iceberg sinks, alone and in a fan-out | |
| `SessionLoop` | the loop, the backoff in w-bit arithmetic, the signal | |
| `ConsumeSession` | the session, against any broker | |
| `Consume` | the same on a RabbitMQ queue with prefetch | extends `ConsumeSession` |
| `ConsumeDelivery` | the same with the calls of its sink | extends `Consume`, `BulkBuffer` inside |
| `ConsumeKafka` | the session on Kafka partitions with a group | extends `ConsumeSession` |
| `AtLeastOnce` | what a forwarder promises, abstractly | implemented by `Replicate`, `Consume` and `ConsumeKafka` |
| `Listen`, `BulkBuffer` | the Drainer and the event loop; the buffer for Elasticsearch | |
| `ListenDelivery` | listen with each of its sinks | extends `Listen` and `BulkBuffer` |
| `DataLoader` | overlapping loads over one cache entry | |
| `Executor` | the document of a query, in one state of the database | extends `DataLoader` |
| `ProfileRegistry` | what the profiles commands promise, abstractly | implemented by `Profiles` |
| `Profiles` | the configuration file and the processes that rewrite it | |
| `Settings` | options, merges, sinks: pure definitions | |
| `Pgx` | a pipeline starts while profiles commands run | extends `Profiles` and `Settings` |
| `MC*` | constants for TLC | |
| `*Proofs` | theorems | |

### Replicate

`Wal` is a constant: the stream the server will send, one record per message
with its kind, its commit LSN and the LSN the session reports for it. The
assumption on it is what PostgreSQL guarantees of a stream (whole transactions
in the order of their commit records, a change written before its commit), and
nothing about its length. Kinds stand for the paths of the code: a row that
becomes a statement, one the applier skips, a relation, a change that is not
forwarded, a message the decoder skips, one it rejects.

`worker`, `chan` and `progress` are the live worker; `detached` are workers of
earlier sessions, which go on reporting their own progress until they see their
stop flag. `HandleBegin`, `HandleCommit`, `HandleForwarded` and so on are the
arms of the `select` in `ReplicateSession::run`, with the early `continue` and
`break` of each. A handler is one step although it awaits: only the worker runs
beside it, it shares nothing but the tail of the channel and `progress`, and the
handler writes `progress` last; the head of the module gives the argument. There
is a sink, or a fan-out of several: `SendErr` lets any of those in `Failing` refuse
an event while the others have taken it.
`Crash` empties the process, `Restart` runs `ensure_slot` again.

### SessionLoop

One variable per local of `run`, and the three commands as they differ: what
counts as a healthy session (`Advance` for replicate, which must have moved its
LSN; a connection for the others), whether a session can be fatal, and where it
looks at the signal. A connected session ends by an error in two ways
(`EndsByError`): the server is gone (`ConnectionDrops`), or it is up and an event
cannot be applied, an ack fails, a connection is reset (`SessionFails`).
`Delays(n)` is the set of delays `backoff::delay` may
return, with `saturating_mul`, the jitter and the cap, in words of `Width` bits;
the shift limit and the jitter are those of the code scaled to the width.

### ConsumeSession, Consume, ConsumeKafka

`pc` and `cur` are the place of the session in its loop and the message in hand;
`Fate` says at which stage a message is unusable. `Take`, `Compose`, `SendOk`,
`SendFails`, `Record`, `Ack` are separate steps because each awaits and a crash
may come between. `Failed` is the table of `ConsumeErrorMode::handle`. The
broker modules add what each broker does with the same calls: RabbitMQ holds
unacknowledged messages against a prefetch credit and puts them back when the
channel is gone; Kafka gives a range of offsets, commits asynchronously, and
knows no negative acknowledgement, so `nack(requeue)` does nothing. A delivery
tag is packed and unpacked with `OffsetBits` bits for the offset, 32 in the code.

### ConsumeDelivery

`Consume` with the one step in which a sink takes a document replaced by the
calls it makes. A webhook POST is processed or not, and its answer arrives or
not. Redis takes `SET`, then `EXPIRE`; either may fail with or without effect,
and its key is the message id, or a fresh one when the message has none. The
Elasticsearch sink pushes into a `BulkBuffer` and returns, so the message is
acknowledged while its document is still in memory; the POST of a full buffer is
made by the session, the others by the flusher.

### Listen, BulkBuffer, ListenDelivery

`Drain` and `DrainFull` are the two ends of `try_send` in `Drainer::poll`, under
the three behaviours; a Drainer that returned `Pending` without a waker is
`parked`. The LISTEN loop and the event loop are separate phases because
notifications of the first channel arrive while the second is being asked for.
`BulkBuffer` has two tasks, the pusher and the flusher, that take batches under
the lock and POST outside it.

`ListenDelivery` follows an event into its sink. `push` is the call under way,
`reached` what the receivers have got, in their order. A webhook is retried after
a lost answer; the shell runs once; Kafka's producer keeps trying until its
timeout, after which the message may still have been taken; RabbitMQ's messages
are written to one channel (`pipe`) that the broker reads later: it closes the
channel at a message for an exchange it does not know, what lies behind is
`gone`, and the channel is never opened again. In contract mode the payload may
name another destination (`"hint"`).

### WalBuffers

A position of `Stream` is a WAL event, of a table or of none. `Send` accumulates
and decides on a flush (full, or the interval elapsed, which is asked on a send
only), `WriteTable` writes one table after the other in any order, `WriteFails`
drops that table and those behind it, `CommitRefused` is an Iceberg catalog that
does not take a second file of the same name (the name counter starts anew on
every flush). `Confirm` is the slot moving up to the applied LSN.

### RowFilter, RowPipeline

A rule is parsed from tokens by the same precedence climbing, evaluated in three
values, with NaN and with text beside numbers. The walsender describes a table
before its first change and after ALTER TABLE; the session's cache is filled by
these messages only. `Configs` are command lines: tables (bare or qualified),
operations, rules, drops and renames.

`RowPipeline` does not extend `RowFilter`: it takes the parser (`parse_rule`), the
evaluation (`passes`) and what SQL says of a rule (`SqlTrue`) as constant operators,
because the first two are recursive and a module with recursion cannot be proved
about. `MCRowPipeline` gives them the definitions of `RowFilter`. A message knows the
position of its change in the WAL, so that `DeliveredAsDeclared` can say which change
an event was. What is due (`Selected`) follows the option's own words, "schema.table
or bare table name" (`mod.rs:122`); a TRUNCATE that the session drops because its
tables were typed bare is the one thing `DeliveredAsDeclared` exempts (`TypedBare`).
`RulesMeanWhatTheySay` is about one row: its `FiltersAsSql` compares
parser and evaluation with SQL, whose comparisons `RowFilter` states by themselves (how
a text stands to a literal, and where it must stand for each operator); its
`TransformsAsDeclared` the code's `Transformed`
with `Declared`. `Ruled` says, without any order of steps, what the drops and renames of
one key leave of a row, and `Declared` puts the keys in the order in which the
command line first names them. `Transformed` is what the code does: merged entries,
each with its drops and its renames in two phases.

### DataLoader, Executor

`past` is the history of the database, `entry` the one entry of the cache of one
resolver, each load a little process: look up, query, insert, give the children
to the parents. The clock is explicit; `MaxLatency` bounds a query.

`Executor` is the recursion over a query as operators named after the functions
of `executor.rs`: one root row goes through `resolve_children_with_depth`, several
go together through `resolve_children_batched`, both through
`resolve_field_for_parents`, which runs one query for each parent or one for all.
A row is a function from names to cells, as the JSON object it stands for, so a
resolved field may replace a column that a later field takes its parameter from.
`DocumentComplete` compares the document with `Joined`, one query for each parent
and nothing else; it does so in every state the database of `DataLoader` reaches,
so a key has no child, one, or three. That the queries of one document run at
different moments is the business of `OneRecentState`.

### Profiles, ProfileRegistry

Each process is a `pgx profiles` command: `Start` is the load in `main` (which
only asks whether the file parses), `Load` the load of the command with its
change in memory, `Truncate` and `Write` the two steps of `fs::write`. Over what
another process wrote meanwhile a shorter content leaves a tail behind: the file
does not parse, or has more profiles. `raced` and `saved` are history: which
commands another one overlapped, and the last content before the writes under
way. `ProfileRegistry` says what `add`, `edit` and `delete` promise;
`ActsAsRegistry` maps its registry to `saved`.

### Settings, Pgx

A setting is not its value but whose word it is: typed (or from the environment),
the profile's, both (rules add up), a default, or nobody's. `Settings` has the
options of the three pipelines and of every sink and source, which of them clap
gives a default or insists on, which a section can set, and the five ways of
merging: `merge_opt` and its like, the profile over a clap default,
`channel_full_behavior`, rules that are joined, and `consume`, which takes source
and sink from the profile. `Sinks` is the list `build_fan_out_sink` builds.

`Pgx` puts a run beside the profiles commands: `Invoke` loads and resolves in one
read, `Configure` merges and refuses what has no sink, `Open` and `OpenFails` open
the sinks one after the other.

## Runs

| Run | Question | Bounds |
|---|---|---|
| `replicate_live` | Does every committed row arrive, once per process, and does nothing reach the slot that the target does not have? | three transactions, one empty for the target, one of two rows; channel of 1; two failures |
| `replicate_sink` | The same for sinks that do not fail, beside ones that do; does a reconnect skip anything? | a transaction with every kind of change and one after it, channel of 2, two sinks, two failures |
| `replicate_sink_fails` | Is the LSN held back by a failed send? It is not. | two transactions, one failure |
| `session_loop` | Is the retry budget spent rightly, the backoff bounded, the signal obeyed? | three commands with budgets 0, 3 and 2; 6 sessions; outages and failing sessions together bounded; 5-bit words, so that the shift saturates |
| `consume` | Is what RabbitMQ forgets with the receiver, once per id, and everything settled? | two messages of one id, one without, one unusable; webhook, Redis, Elasticsearch; prefetch 2, batch of 2; two faults of any kind |
| `kafka` | Is what the group has committed delivered, and all of it in the end? | two partitions of 3 and 1 records, two faults among crash, failed ack, rebalance; strict |
| `kafka_requeue` | Is a requeued message redelivered? It is not. | the same, lenient, one fault |
| `listen` | Order, loss and its notice, an accepted event at its receiver, one post per document | five sinks in both modes; two channels, three notifications, channel of 1 or 2, batch of 2, one retry, two faults |
| `wal_buffers` | Where are the rows, and how many are at risk? | two tables, four rows and an event without one, `max_rows` 2, one fault, one drop, one restart |
| `row_pipeline` | Are the right rows delivered, once and in order, under the right names and after their schema; does a rule select and rewrite a row as it says? | two tables, one altered; two changes, truncates of one or both; one lost connection; 24 command lines, one with a bare and a qualified table |
| `documents` | Do the children come from one recent state, and does a document hold the right rows however it is resolved? | two keys, three loads, two writes, expiry 1; eight queries of up to two root fields, three root rows and three levels, in a circle, every choice of `batch_by`, `max_depth` 2 |
| `commands` | Does a run connect where it was told to, with everybody's word kept, while the file is rewritten? | 56 command lines with configurations, every sink and source typed in full, hardly, and with a URL; two profiles; two profiles commands of 8 kinds, failing or killed |

Each finishes within three minutes; the largest has about 1.2 million states.

**Why these bounds are enough.** Two failures let a second one strike while the
traces of the first are still there: a detached worker, a left-over buffer, an
old commit request. A channel of one or two makes the worker wait and lets a
message lie between worker and session. Two tables, partitions, keys or
channels are what it takes for one to fail and another not; two changes of one
table with an ALTER between them are what it takes for the cache to be stale.
Where a counter has a boundary the run is small enough to cross it (word width,
batch, `max_rows`, prefetch, TTL, retries). What does not depend on the bound is proved
below. The offsets of the Kafka runs stay below `2^OffsetBits`. The webhook of
listen retries once instead of twice, which shows the same repeats. Two profiles
and two commands are what it takes for one to undo the other. `grow` is not in
the instance of `listen`: it is `drop_oldest` with another capacity.

Deadlock is checked in the Replicate runs, where a restart is always possible.
The other modules end (a signal, a settled queue, an exhausted bound), so their
configurations say `CHECK_DEADLOCK FALSE`; their liveness properties say what
must happen before.

## Fairness

* Replicate: the runtime polls worker and session (weak fairness of their
  steps), the loop retries for ever as with the default
  `max_reconnect_attempts = 0`, someone restarts a dead process, PostgreSQL
  notices a dead peer. `ReceiveWal` is strongly fair: the server goes on sending
  what it has decoded, a keepalive does not displace it for ever. `DetachedStop`
  is weakly fair: a worker whose stop flag is set reaches a look at it. (Under
  uninterrupted traffic the drain loop looks at it once per batch.)
* SessionLoop: a connection attempt ends, a session looks at the signal;
  nothing makes the server come back, and nothing makes a session fail while it is
  up: `Reconnects` speaks of a run in which both have ended.
* Consume, Kafka: the broker delivers (strong fairness, because lost channels
  interrupt it) and a commit request that keeps being made arrives. The sink is
  not assumed to succeed: faults are finite.
* Listen: woken tasks are polled, a bulk POST ends (30 s timeout), a Kafka send ends
  (5 s), the interval of the flusher goes on. A Drainer that parked itself without a
  waker is not woken. Webhook and shell calls have no time limit, so their end is no
  fairness of the specification: `ReceiversAnswer` is the premise of the properties
  that need it, and they say nothing of a run whose receiver hangs.
* WalBuffers: a flush and the end of the run are ordinary code.
* Profiles, Pgx: none; their properties are safety.

No fairness is asked of anything that fails, and none of a crash.

## Proved

Eight modules of theorems, for every value of the constants that satisfies the
named assumptions, so for every stream, capacity, budget, queue, log, command line
and number of failures. Each `...Inv` below was an invariant of a TLC run before it
was proved.

**Replicate** (`ReplicateProofs`). `NothingLost`: with a PostgreSQL target and a
permanent slot, a row the slot will not send again has been committed on the
target. `TargetIsAtomic`: a target transaction is one source transaction, whole
and in order. `TypeCorrect` and `ResumeForward` complete them.

`TargetLosesNothing` is not inductive: it speaks of the slot and the resume LSN,
but what gets there travels through `progress`, the resume LSN, the start LSN of
a session and the progress of workers left running. `TargetInv` says of every
one of them that all owed rows below it are applied (`LsnsCleared`), that the
session has applied every transaction it has seen to the end (`SeenApplied`),
that the buffer holds exactly the rows seen of the current transaction
(`BufferCurrent`), and that the channel is, without gaps, what was sent and not
yet seen, no keepalive running ahead of a transaction behind it
(`ChannelContiguous`). The point is the early report of Begin: the commit LSN of
a transaction may go to the slot before its rows are applied, because the slot
skips only what commits strictly below it, and everything strictly below is
applied when Begin is handled.

`AppliedOnce` is the other half: within one process no transaction is applied
twice. `TargetInv` bounds what may be skipped from below; `NothingAppliedAgain`
bounds what may be sent again from above: as long as the applier lives, what the
process applied commits below `progress`, below the resume LSN between sessions,
below the start LSN of a session that opens, and below every position of the
stream the session has not seen. When the applier's connection is lost the bound
may fail (the commit happened, its answer did not come), but then nothing more is
applied before a restart, which is why the invariant asks for `targetUp`. A
transaction without rows would be applied below its own LSN without leaving a
trace; `NoEmptyTransaction` says there is none.

**Sinks of replicate** (`ReplicateProofs`, second part). `NoSinkLoss` and
`ReconnectIsSafe`: the same for any set of sinks without an applier, for each sink
that has not refused an event, and the invariant follows the same LSNs
(`SinkInvariant`); a change is safe when it is with the sink, not yet seen, or the
sink has failed.

**Replicate implements `AtLeastOnce`** (`ReplicateProofs`, last part). `PromiseKept`:
delivered are the rows on the target (`Applied`), or without an applier the forwarded
events every sink that does not fail has taken; released are those the slot is past;
every step delivers, releases what had been delivered, or stutters. The abstract
specification lets nothing be dropped and takes nothing back, so the theorem says
more than the two invariants: the target and the slot only grow. What a step may do
to the slot is one case distinction (`SlotStep`): it stays, or it moves forward in a
step that touches neither target nor sinks. When it moves, everything below it was
there (`ReleasedArrived`, from `TargetInv` and `SinkInv`). The hypotheses are
`~Temporary`, without which the slot is made anew behind rows nobody has seen, and,
without an applier, that some sink does not fail; with sinks that all fail the code
lets go of what it dropped, which is the finding of `replicate_sink_fails`. No run
lists this refinement, as the runs check the invariants it rests on; TLC finishes
without an error when `KeepsPromise` is added to `ReplicateLive.cfg` or
`ReplicateSink.cfg`.

**The way of a row** (`SessionProofs`). `SchemaFirst` for every set of tables,
history of columns, command line and number of lost connections: a sink that asked
for schemas was last told the columns a change was made with, for each table of a
TRUNCATE, too. It is not inductive, as it speaks of what was delivered; that the next
change will be preceded by its description is decided when the walsender sends it,
and must survive on the wire and in the cache. `PipelineInv` says that on the wire
are the changes sent and not handled, in order, each behind the descriptions it is
decoded by, or the cache has them already (`WireInv`, `Knows`), that at its end the
session knows what the walsender believes it knows, and that the sink was last told
what the cache holds (`ToldInv`). A lost connection empties wire, cache and the
walsender's memory at once, which is why all three must be new ones.
`DeliversAsDeclared`: the sink is given only changes the command line selects, each
once, in order of the WAL and decoded by the columns of its time, and of those selected
none is missing but a TRUNCATE of tables that are typed bare. Its hypothesis
`RulesMeanWhatTheySay` is an invariant of the run `row_pipeline`; it is about a single
row and can only be checked (see below). Everything that depends on the order of
events is in the theorem.

**SessionLoop** (`SessionProofs`). `GiveUpSound` and `SignalStopsSessions`
from `LoopInv`: the counter never exceeds the refusals since the last healthy
session plus one for its drop, and only the first session follows no failure.
`BackoffSound`: a delay is at most the cap, not nil for a base above zero, and not
below two thirds of the one before: the jitter is a fifth either way, the base never
shrinks (`DelaysGrow`), and once it has stopped growing, at the limit of the shift, four
fifths may follow six. The hypothesis `6 * MaxMs < 5 * Word` keeps the sum of base and
jitter below the word; beyond it the sum wraps and the delay may be anything. That `2 ^ (n+1)`
is `2 * 2 ^ n` is an assumption of the module (`ParametersAssumption`), because the
provers know nothing of exponents; TLC evaluates it for every exponent in use.

**Consume and its sinks** (`ConsumeDeliveryProofs`). `NoDoubleSend`,
`NothingForgotten` and `PromiseKept`, which is refinement: `Consume` implements
`AtLeastOnce`, its initial states map to initial states and every step to a step or
a stutter, with `sent` for what is delivered and the settled messages for what is
released. A message with the same id may stand for another when `--idempotent` is
given. `ConsumeInv` adds to the type invariant that messages are conserved, that a
channel that is gone holds nothing, that what is in hand was delivered once, and
what the session's place in its loop says about the message in hand.
`DeliveryRefines`: every behaviour of `ConsumeDelivery` is one of `Consume`, so all
of this holds with the calls of the sinks; the call under way maps to a session that
is still sending. `AcknowledgedIsStored` and `EveryEntryExpires` rest on
`DeliveryInvariant`: what is recorded, or in hand with only its ack to come, is
where the sink put it, and an entry without expiry has its message in hand,
unacknowledged, or discarded by the policy.

**Kafka** (`ConsumeKafkaProofs`). `CommittedReached` and `ReassignmentSafe`: in
strict mode, a committed offset belongs to a message that reached the sink, and a
reconnect or a rebalance starts behind no other. Neither is inductive: a commit is
asked for now and takes effect later, the offset asked for is the highest the
consumer object ever acknowledged, and a rebalance moves the position back under a
message in hand. `ReadSettled` therefore says, of each partition, that everything
from where the group joined is settled up to the position (but for the message in
hand), up to the message in hand, up to the highest acknowledged and up to the
offset of a commit on its way. `CommitsNeverBack` needs less (`OffsetsInv`): what a
session can still ask for is not behind what is committed, because it begins to read
there and keeps its highest offset. The hypotheses are where the code breaks the
promise, and each has its place below: `Strict` (lenient mode requeues by doing
nothing, run `kafka_requeue`), `GroupKnown` (a partition without a committed offset
is read from its end) and `OffsetsFit` (the tag has 32 bits for an offset). Under
`OffsetsFit` the tag decodes to what was packed (`TagDecodes`); that the bitwise or
of numbers without a common bit is their sum is part of `KafkaAssumption`, which TLC
evaluates for the operator the runs use. `PromiseKept` is refinement again: with the
offsets below the committed one as what is released, strict consume on Kafka
implements `AtLeastOnce`. A commit that arrives late, after a rebalance or from a
process that was killed, releases only what had been sent (`CommittedReached` of the
next state), and takes nothing back (`NextOffsets`). The run of this module, too,
checks the invariants and not `KeepsPromise`, with which it passes. The lemmas about the session are those of
`ConsumeDeliveryProofs` once more: each of the two modules extends the session with
variables of its own.

**Listen and its sinks** (`ListenDeliveryProofs`). `ListenLosesNothing`,
`ListenInOrder`, `ListenAcceptedReached` and `ListenPostsOnce` from one invariant.
The session's half, `InSequence`, is that the offered, the channel, the wire and the
unpublished follow each other, each in order, so that nothing which overtakes can
exist; a Drainer that is done has read the wire to its end (`SessionShape`), which
is why the end of a connection drops nothing. The sink's half says how many copies
of the notification in hand the call may have made by now (`DeliveryOrder`: as many
as attempts, and none for the sinks that try once), that what waits in RabbitMQ's
pipe comes after all that arrived, and that the four places of a document (index,
buffer, the batches of the two tasks) share none (`BulkApart`), a document entering
the buffer only with the call of its own notification (`BulkFresh`). Working on this
proof showed two operators whose `CASE` guards overlapped, and which TLC had read
from the top; they are conditionals now, as in the code.

**File sinks** (`WalBuffersProofs`). `BuffersLoseNothing`, `BuffersInOrder`,
`BuffersRiskBounded`. The order of a table's rows is an order within each of file,
flush under way and buffer and between the three (`PartsInOrder`), up to rows the
slot has sent again, which are those a process had and the stream has still to pass
(`Repeats`). The bound counts, for the first process, the rows answered and in no
file: while it streams they are in the buffers, which are short (`Phases`), and
while it flushes nothing is answered (`UnsafeBounded`). After a reconnect `next`
falls back and the buffers do not: what the process knows is told by `Past`. Where
the stream resumes is the least number of a set, and that a set of numbers has one
is a lemma from the library's well-founded induction (`LeastNat`).

**DataLoader** (`DataLoaderProofs`). `LoadsOneRecentState` from `LoaderInv`: an
entry of the cache, an answer on its way and a resolved load each have the children
of *one* state, which held at some time in the entry's life or since the load began
(`EntryAsOf`, `AnsweredAsOf`, `ResolvedAsOf`). States are intervals of time; that an
entry which has not expired still dates from the window the property allows is
arithmetic on their ends (`HeldWithin`), as is that an insert which comes late,
behind a newer one, dates from no earlier than its query's latency (`InFlight`).

**Configuration and start** (`PgxProofs`). `DefaultIsNamed` and
`UnracedActsAsRegistry` from `ProfilesInv`: a command no other one raced holds, until
it writes, its change to the last whole content, and is the only one that writes.
`PgxImplementsProfiles` carries both over to the composition, and `PgxConnectsAsTold`
says a run takes its connection and section from one whole content, or none.
`PgxRunsAsTold`: every setting of a run is the word of the command line, of the
section or a default, for every command line and section. It rests on what each merge
of `Settings` yields whatever it is given, and on the invariant `RunsInv` that a run
opens its sinks one by one, as built from its command and section. `PgxAssumption`
gives command lines and sections the shape clap and serde let through: a kind of the
command's own, the options it requires, sets of known options.

## Only model-checked

Liveness (`EventuallyApplied`, `SignalEnds`, `Reconnects`, `EventuallySettled`,
`EventuallyDelivered`, `EventuallyPosted`, `LossNoticed`, `Offered`,
`SignalEndsListen`, `SignalStops`): TLAPS does not reason about fairness and
ENABLED. `RulesMeanWhatTheySay` and `DocumentComplete`: the
parser, the evaluation and the executor are recursive operators, and the drops and
renames are folds over lists of any length; what these compute for every input takes
induction over data, which the installed provers cannot do. TLC compares them with
their reference definitions on every rule, row and query of the instance, and
`DeliversAsDeclared` says what follows from the first in a session. Every other
property of a passing run is a theorem.

## Where the code and its documentation part

Two are runs with a finding:

* A failed send keeps the LSN only until the next event
  (`replicate_session.rs:253`), although README.md:262-263 says no event is lost.
  `replicate_sink_fails`.
* `nack(requeue)` on Kafka does nothing (`kafka.rs:124`), although
  `consume.rs:166` says the broker redelivers. `kafka_requeue`.

Others are behaviours of the models, too, each against a sentence of the repository.
The property beside it states the condition under which the promise is kept; where
that condition is one on the constants, TLC finds the property violated without it,
as said below.

* With `--temporary` the slot is created again at the end of the WAL on every
  reconnect (`client.rs:447`): rows committed in between are skipped, against
  README.md:262-263. `ReconnectSkipsNothing` asks for `~Temporary`; with `Temporary =
  TRUE` and that conjunct removed, `ReplicateSink.cfg` has a session that idles while
  a transaction commits, and a next one that starts behind it.
* A clean stop sends CopyDone without a last status report (`client.rs:507`, `520`):
  a restart, like one after a crash, applies again what was applied since the last
  report, against "Exactly-once" in README.md:81. `OncePerProcess` counts from `base`,
  where the process started; counted from the first transaction it fails. With
  `--emit-txn-boundaries` and a sink that fails at the Commit event, a transaction
  already applied is sent again within the process.
* `--table` matches TRUNCATE by the qualified name only (`replicate_session.rs:333`),
  against `mod.rs:122`: rows of a table typed bare arrive and its truncates do not.
  `DeliveredAsDeclared` exempts these by name (`TypedBare`), and no others.
* A Kafka partition without a committed offset is read from its end
  (`kafka.rs:28`), so a rebalance or a crash before the first commit skips what was
  received, against README.md:608-609. With `None` for `Committed0` in `Kafka.cfg`
  `ReassignedSkipsNothing` fails.
* Offsets of 2^32 and more do not survive the delivery tag (`trait.rs:45`): their ack
  commits in another partition, against README.md:607. With `OffsetBits = 1` in
  `Kafka.cfg` `CommittedDelivered` fails.
* The Elasticsearch sink of `consume` returns when the document is in the buffer,
  so the ack precedes the POST (`consume.rs:225-233`), against README.md:607-608: a
  failed POST or a crash loses acknowledged messages. `AckedStored` names them
  (`refused`, in `AtRisk`); without `refused` it fails.
* Lenient mode discards messages whose composition fails as unusable
  (`consume.rs:182-190`), also when the cause is the query connection, which is
  opened once and never again: until a restart every message is dropped, against
  `consume.rs:179-181`. `KeepsPromise` lets a usable message be dropped in that
  state, and in no other.
* `drop_oldest` drops the newest (`listen.rs:353-358`), against README.md:384; `grow`
  stops growing at 100000 and does the same. `NothingVanishes` counts what is
  dropped (`dropped`), whichever it is: a state of `Listen.cfg` has the third
  notification in `dropped` and the first two in `chan`.
* `block` loses a notification and parks the Drainer with no waker
  (`listen.rs:359-365`), against README.md:383: it may then miss the loss of the
  connection. `NothingVanishes`, `LossNoticed` and `SignalEndsListen` exempt `block`.
* `listen` is called at-most-once (README.md:354, `main.rs:64`), but a webhook
  retry, a Kafka producer retry or a shell command that fails late delivers twice;
  no message id is passed in either mode, so the receiver has no idempotency key.
  `DeliveredInOrder` allows a repeat and nothing out of order.
* "CLI wins" (`listen.rs:168`) does not hold for an option clap gives a default: the
  file's `mode` and the like replace what was typed (`listen.rs:190-215`).
  `Settings` keeps, for every option, which merge the code uses; `RunsAsTold` says
  that a setting typed is replaced for these options only.

Others, which no property speaks of, or which a property names as its exception:

* A Kafka record's key is its id (`kafka.rs:87`), so with `--idempotent` a second
  record of a key is taken for a redelivery.
* A file sink returns Ok for a row in memory, whose LSN is confirmed
  (`parquet.rs:71`): a kill loses up to `max_rows - 1` rows of a table, which is
  what `RiskBounded` bounds. When the loop gives up, the last flush is skipped
  (`mod.rs:639`); a fan-out never passes it on (`sinks.rs:209-230`).
* A failed bulk POST loses its batch, whose documents were reported as sent, and
  an item error inside an HTTP 200 is not looked at (`bulk.rs:81`).
* An update whose filter column is an unchanged TOAST value is not forwarded
  (`filter.rs:88`), nor is a delete whose filter column is not part of the replica
  identity.
* Keys without children are not cached (`dataloader.rs:93-101`), so a load with
  one always queries, although `pool.rs:117-119` speaks of the same keys.
* A replicate session that connected and saw no progress counts as a refusal
  (`replicate_session.rs:284-287`), against `session_loop.rs:7-12`.
* A configured `ops` list whose names are all unknown forwards every operation:
  names are dropped one by one and an empty list means all
  (`replicate/mod.rs:376-378`).
* Nothing asks the broker for confirms, so `Publish confirm failed`
  (`delivery/rabbitmq.rs:76-79`) cannot tell of a lost message, and a channel the
  broker closed (an exchange a contract names and nobody declared) is never opened
  again: every later notification fails. `AcceptedReached` names what the channel
  took with it as one of its two gaps.
* Documents do not only hold the same whether resolvers are batched or not
  (`executor.rs:509`): with one root row a single child without `batch_by` is an
  object, with two root rows an array (`executor.rs:112-118`, `375`), and with two
  or more a query may be one level deeper than `max_depth` before it is refused
  (`executor.rs:363-372`). A second root field resolves its children in the rows of the
  first as well (`executor.rs:297-305`), and a field whose parameter is the name of
  a field before it finds nothing when rows are resolved together.
  `DocumentComplete` is about what documents hold and leaves such names out.

Of the start of a pipeline:

* The profile's sink and source replace those of a `consume` command line, although
  the merges around it say "CLI wins" (`config.rs:320`).
* A URL beats a profile's name (`config.rs:397-408`), and the URL's option reads
  `DATABASE_URL`: with that variable set, `--conn` is ignored.
* `config.rs:151` says "Default: 10"; the code takes 0, that is, for ever
  (`replicate/mod.rs:494`).
* `--publication` and `--channel` are required on the command line, so the
  configured lists are never used.
* `--reset-slot` drops the slot before `--start-lsn` is parsed
  (`replicate/mod.rs:539-556`): a typing error in the one costs the other.
* Two `profiles` commands at once lose an update, and one that is killed, or read,
  in the middle of `std::fs::write` leaves or sees a file that does not parse
  (`config.rs:377`). `DefaultNamed` and `ActsAsRegistry` state what holds of the
  commands nothing raced.

## Not modelled

* Rendering of values, SQL text, wire codecs, framing, authentication and TLS:
  conversions and byte formats, no order of events to get wrong.
* `export`, `query`, `psql`, `info`, `doctor`, `graphql` and `mcp`: one request
  after another, no state that outlives it.
* The parsers of GraphQL queries and schemas: files read once at the start.
* The statement cache of a connection across a change of the schema: a prepared
  statement that stays invalid fails every composition that uses it, which to the
  session is an `Outage` of its source.
* A sink or a server that never answers. Every call is assumed to end; the webhook
  client has no timeout (`delivery/webhook.rs:20-32`), and such a call would block
  its session and the signal with it. `ReceiversAnswer` is the name of the premise
  under which the signal of `listen` ends it.

## Plan

Done: the three pipelines (Replicate and its sinks, SessionLoop, Consume on both
brokers, Listen), every delivery, the file sinks, the rows, the loader and the
executor, the configuration and the start; proofs of every safety and action property
but the two above, and of the implementation of `AtLeastOnce` by each pipeline that
promises it. What would come next:

1. The statement cache across a change of the schema, once its errors are told
   apart from a lost connection.
2. The choice of a consume message's route and variables, which is data today.
