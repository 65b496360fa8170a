# Formal models of Pollard

Pollard runs model and tool calls of an agent under budgets, records them in a
content-addressed tree, and replays them. What must never go wrong is money and
evidence: concurrent workers share limits through a store, the store's answers get
lost, workers die in the middle of a call, leases expire, and what the tree says
afterwards must be true. This project models the library in TLA+, checks it with
TLC on small instances, and proves the main results with TLAPS for all instances.

Paths below are relative to the repository, `pollard/` stands for `src/pollard/`.

## 1. The system

| Component | State | Operations | Interacts with |
|---|---|---|---|
| Governed call, `runtime.py` (`Run._call`) | cursor, scopes, exhausted budgets, pending reservation | precheck, dispatch, settle, record, assess, release | governor, arbiter, heartbeat thread, store |
| Lease heartbeat, `runtime.py` (`_LeaseHeartbeat`) | deadline, lost reason, stop event | renew on a cadence, stop and join | arbiter, from its own thread |
| Governor and scopes, `governor.py`, `scopes.py` | none: computed from the tree | `check_budget`, `exhausted_after_settle` | tree |
| Meters, `meters/`, `adapters/usage.py` | measurements in progress | estimate, start, finish, charge | governed call |
| Key/value arbiter, `stores/_transactional.py` | budget rows, reservations with tombstones, window events | reserve, settle, release, renew | Redis, MongoDB and Neo4j drivers |
| Transaction drivers, `stores/redis.py`, `mongodb.py`, `neo4j.py` | one logical store each, with a revision | open, run a transaction, retry on conflict, reconnect | servers |
| PostgreSQL store, `stores/postgres.py` | nodes and the arbiter's tables under row locks | the same, READ COMMITTED; migrate | server, several sessions |
| SQLite store, `stores/sqlite.py` | nodes, interned texts, the arbiter's tables without tombstones | the same, under `BEGIN IMMEDIATE`; collect | file lock, local clock |
| Kafka store, `stores/kafka.py` | a command log and its materialized view | append, sync, recover an uncertain produce | broker |
| HashRope store, `stores/hashrope.py` | an append-only log with a rope digest | put, update, reopen, collect | file |
| Node store and tree, `store.py`, `tree.py` | nodes by identity digest | put, update_meta, traverse, drop subtree | all stores |
| Merge, `merge.py` | spools, a destination | union of nodes, join of metadata | stores |
| Replay, `replay.py`; revalidation and dependencies | recorded results, notes about them | find, verify, reuse or re-execute | tree, runtime |
| Teams and contexts, `teams.py`, `team_context.py` | write-once bindings in the tree | delegate, attach, checkpoint, report | store, other processes |
| Approvals, `approvals.py` | a write-once decision slot | request, decide, check before dispatch | store, policy |
| Registry and policies, `registry.py`, `schema.py` | schemas, tokens | register, validate, redact, confirm | runtime |
| Governance, seals, custody | documents and digests | seal, export, import, collect | tree |
| Async runtime, `aio.py` | coroutines around the same calls | await, branch, cancel | runtime |
| Adapters, `adapters/` | a stream, a subprocess | convert events, collect output | providers |
| Telemetry, MCP, command lines, pytest plugin | none of the core's | conversion, I/O | outside |
| Rust crate and npm packages | ports of all of the above | | |

### Hard behaviours, and the properties they call for

*Arbiters.* Any transaction may be applied and its acknowledgement lost, and is
then tried again; calls arrive twice, late, or after the reservation's lease
expired. The limits must hold over all rows of a request at once, every
settlement must be charged once, an outcome must be final, expiry must be
final. Where transactions are not serialized (PostgreSQL) the locks must carry
all this, and their order decides which deadlocks there can be.

*Governed call.* The ledger (arbiter) and the tree (store) are written by
different transactions, with crashes between them. At each end of a call the
two must agree, or the disagreement must be recorded. The heartbeat thread runs
beside the call and its renewals outlive it; what it reports about the lease
must be true. Capacity must come back whatever happens. Measurements, streams
and cancellations can fail after the provider was paid.

*Stores.* Each backend has its own way to make a read-check-write atomic, its own
ways to lose an answer, and its own retries on top. What a caller sees must be
one write on the whole store. Several processes open, create and migrate a store
at once.

*Processes that agree.* Several processes write the same identities; the first
must win and later ones must notice. Check-then-write sequences are not atomic
over a live store, and a process may die between any two accesses.

*Evidence.* What replay serves is what was recorded; a verdict, a report or an
export is true of what is stored, although others write meanwhile.

The full list, with lines, is under `hazards` in `PROJECT.json`.

## 2. The modules

Every module begins with a comment on what it models and what it leaves out. The
definitions keep the names of the code where they can, and `map` in `PROJECT.json`
gives the lines each one stands for.

```
budgets   Totals                     sums over finite sets, by counting, with their lemmas
          SharedAllowance            what an exact arbiter promises (abstract)
          KVArbiter                  the arbiter of the key/value stores
          PostgresArbiter            the PostgreSQL arbiter, lock by lock
          SQLiteArbiter              the SQLite arbiter, without tombstones
          GovernedCall               Run._call and the heartbeat on top of KVArbiter
stores    StoreNodes                 put, update_meta and drop as functions
          SerialStore                what a transactional store promises (abstract)
          RedisTransactions, MongoTransactions, Neo4jTransactions, PostgresNodes
          NamespaceOpening           opening a store in MongoDB or Neo4j
          PostgresSchema             opening and migrating a database
          SQLiteNodes, KafkaLog, HashRopeLog
          SubtreeTransfer            seals, publication, export, import
agreement WriteOnce                  a register bound once (abstract)
          Approvals, TeamStart, Delegation, TeamAccounts, Merge
calls     RecordedCalls, Revalidation, AsyncRuns    trees and replay
          RegisteredCall, SchemaReferences          schemas, audit, policies
          MeasuredCall, StreamedCall                one call with its faults
          ProviderStreams, UsageAccounting, CodexProcess    adapters and meters
proofs    KVArbiterProofs, PostgresArbiterProofs, NodeStoreProofs
          GovernedCallProofs         of GovernedCall and RecordedCalls
          CallProofs                 of Approvals, MeasuredCall, StreamedCall, CodexProcess
          those of SQLiteArbiter and Merge are the last parts of these modules
TLC       MCKVArbiter, MCPostgresArbiter, MCGovernedCall,
          MCNodeStores, MCFileStores, MCTeams, MCCalls
```

Three abstract specifications are implemented by detailed ones, and the governed call
uses its arbiter as that arbiter is specified:

| Promise | Implemented by | Shown by |
|---|---|---|
| `SharedAllowance` | `KVArbiter`, `SQLiteArbiter` | TLC and proof |
| `SerialStore` | `RedisTransactions`, `MongoTransactions`, `Neo4jTransactions`, `PostgresNodes` | TLC and proof |
| `KVArbiter` | `GovernedCall`, as its client | proof |
| `WriteOnce` | `Approvals` | TLC and proof |

### Budgets

**KVArbiter.** One action per outcome of `_reserve_once`, `_settle_once`,
`_release_once` and `_pollard_renew` (`pollard/stores/_transactional.py`). Clients
are arbitrary: any call, any id, any request, at any time. This includes every
retry, duplicate, and reordering that a runtime may produce, and more.

| Model | Code |
|---|---|
| `state`, `request`, `expires`, `paid`, `completed` | the reservation document and its tombstone, including the digests that recognise a retry |
| `budget`, `present` | the budget bucket: amount and existence of a row |
| `events` | the window bucket; an event's time is `completed` of its reservation |
| `now` | the server's clock, read in the transaction |
| `RefuseByBudget`, `RefuseByWindow`, `Grant`, `RetryReserve` | the exits of `_reserve_once`, with the rows it raises to the baseline before it refuses, and the events it deletes |
| `SettleActive`, `RetrySettle` | `_settle_once`; an expired reservation still settles |
| `ReserveReply`, `SettleReply` | what the caller is told |

Assumed: one write transaction at a time per logical store (`RedisTransactions`,
`MongoTransactions` and `Neo4jTransactions` show it of the drivers' node writes,
which go through the same functions), a clock that does not run backwards, amounts
that are multiples of a smallest unit (the code uses exact decimals). `MaxTime`
stops the clock in TLC; the proofs do not use it. `compact` does nothing in these
stores.

**PostgresArbiter.** The same tables (it instantiates `KVArbiter` for them, as
`Ledger`), written by transactions that are interleaved statement by statement.
`owner` holds the row locks; `tx` what each session has read so far: its stage, its
clock reading and the verdict of a reserve. The order of locks is the code's: a
reserve inserts missing budget rows, locks all of them in order, then the windows,
then reads the clock; a settlement locks the reservation, its windows, reads the
clock, and locks budget rows as it updates them; a renewal locks the reservation
only. Any session may roll back at any point (`Rollback`): a failed connection, a
broken deadlock, a violated primary key.

Merged: a reserve's reads after the clock are one instant, as are its writes and
its commit; a reservation's details share the lock and the life of its state row.
Nothing another session commits in between could not as well have committed before
or after. `ended` and `revived` are history variables with no counterpart in code.

**SQLiteArbiter.** Every operation is one `BEGIN IMMEDIATE` transaction that reads
the clock under the lock. A reservation is its rows: settling and releasing delete
them, and so does the collection of expired ones, so nothing tells a settled
reservation from one that was swept. What makes settlements exact is the client:
`alive` are the calls whose process still runs, and only they settle, release or
renew. `Compact` is enabled when no living call holds a reservation, because
`docs/data-governance.md` requires it to run offline; the proof rests on that
(`NoneSweptAlive`).

**GovernedCall.** `Run._call` in record mode for calls that are dispatched:
`Precheck` and `Snapshot` (two reads of the tree, as in the code), `Reserve*`,
`StartLease`, the heartbeat's actions, `Return*` (the caller's function, with its
three kinds of end), `StopLease`, `Settle*`, `Record*`, `Assess*`, `Release*`. Each
transaction can be acknowledged, lose its connection before or after it is applied
(then it is tried once more), or fail for good. A worker can crash at any step; a
renewal already sent is still applied. A call is a reservation id; `pc` is how far
it has got.

| Model | Code |
|---|---|
| `pc`, `ask`, `again`, `outcome`, `charge` | local variables of `_call` and the retry loops of the store |
| `beat`, `attempted`, `deadline`, `renewed`, `lost` | `_LeaseHeartbeat` and its thread |
| `recorded`, `unsure` | nodes in the tree; nodes with an uncertain-settlement note |
| `exhausted` | a run's exhausted scopes, lost with its process |
| `Spent`, `FitsTree` | `recompute_charges`, `check_budget` |

Simplified: the inner reconnect of a renewal is part of `RenewalFails`; worker and
server clocks run at one rate; refusal nodes carry no charge and are left out; the
baseline of a row is what the tree under its own run says.

**SharedAllowance.** The promise without clock, tombstones, windows or retries: a
call is granted its estimate, may lapse once, and ends at most once by paying into
all of its rows or giving back; each grant leaves every row it claims within its
limit.

### Stores

`StoreNodes` has the writes as functions of what their transaction reads: `put` (a
new node, the same result again, a rival result that is noted), `update_meta`, and
dropping a subtree. `SerialStore` lets each call take effect once or more between its
beginning and its end, on the whole store at once. What a call that returns did is
what it was told; a call that fails may have taken effect or not.

| Module | The code's way to be atomic | Faults |
|---|---|---|
| `RedisTransactions` (`stores/redis.py`) | WATCH the revision, read records one by one, MULTI/EXEC; bounded retries on a conflict | connection lost before or after EXEC; a reconnect; a store that lost its revision |
| `MongoTransactions` (`stores/mongodb.py`) | a snapshot; the coordinator document as the point of conflict; `with_transaction` retries, and the same commit sent again | aborts, a commit of unknown outcome, a reconnect |
| `Neo4jTransactions` (`stores/neo4j.py`) | the coordinator's lock is taken first; managed transactions are run again | broken connections with the lock held, lost answers, a reconnect |
| `PostgresNodes` (`stores/postgres.py`) | unique keys, `SELECT ... FOR UPDATE`, interned strings, statement by statement | roll back at any statement, sessions that are gone, deadlocks |

The driver libraries and servers are external: their retry loops, snapshots, locks and
abort rules are modelled as the store relies on them. `NamespaceOpening` and
`PostgresSchema` have several processes create, open and migrate one store, and die
while they do it; `PostgresSchema` also has the workers of the older release whose
reservations an operator must resolve first.

`SQLiteNodes` follows long strings into `blobs` and back, through migration of old
files and through garbage collection, with objects that happen to look like a
reference. `KafkaLog` has a topic that delivers late, twice or never; a client replays
it into a view (`ViewAt` of an offset) and answers when its command is in the view.
`HashRopeLog` keeps nodes and log apart, so that reopening is a function of the log.
`SubtreeTransfer` seals and publishes a subtree, writes an export that may be cut
short or edited, and imports it node by node with a writer on either side.

### Processes that agree

`Approvals`: reviewers bind the slot and then store the decision, and may die between
the two; workers check the request and dispatch, and roll back. `TeamStart`: several
processes start teams and plain runs on one root, each binding the manifest, the
shared limits and the registry in the code's order. `Delegation`: slots bound below a
cursor with tools and budget, documents attached in other processes, checkpoints,
contexts handed on, and tool calls with the check of the whole chain. `TeamAccounts`:
the two walks of a report, and dependency notes with their verification, while nodes
are recorded, pruned, merged and damaged. `Merge`: spools, the checking pass, the
writing pass, node by node, with a crash between any two accesses and with runs that
record meanwhile.

### Calls

| Module | Code | What can happen |
|---|---|---|
| `RecordedCalls` | `Run._call` and its modes, `replay.py`, `branch`, `rollback`, `drop`, `resume`, `confirm` | two runs look a call up before either has stored it; tokens outlive their place |
| `Revalidation` | `revalidate_model_call` of both runtimes | two workers observe under one id; a call is refused; the comparator fails, or the store before or after a write |
| `AsyncRuns` | `AsyncRun._acall`, `branch` | coroutines suspended at an await, cancelled, and replayed in another order |
| `RegisteredCall` | `Registry`, `ActionSpec`, `confirm`, `tool_call` of both runtimes | policies change their minds; schemas of every kind |
| `SchemaReferences` | `schema.py` | cyclic, dangling and escaped references |
| `MeasuredCall` | `_call`, `_acall` around the step function | any three things fail, in one call or several |
| `StreamedCall` | `_consume_step_result` and its twin | the stream, the callback or a cancellation ends it early; shared objects |
| `ProviderStreams` | `adapters/openai.py`, `anthropic.py`, `bedrock.py` | streams of four APIs that stop anywhere; text without a delta, an end without the response |
| `UsageAccounting` | `adapters/usage.py`, `meters/` | missing, invalid and partial usage; totals that contain their parts |
| `CodexProcess` | `adapters/codex.py` | pipes full or broken, in each of three threads; a descendant that holds them, a deadline, a limit |

`GovernedCall` has one call's transactions and its crashes; these modules leave the
arbiter to it, or take an exact one.

## 3. What is checked

| Run | Shows | States |
|---|---|---|
| `kv_arbiter` | three clients, two rows, a window, every order of calls: the ledger is exact, limits hold, tombstones and expiry are final, `SharedAllowance` is implemented | 330 000 |
| `governed_call` | two workers, lost acknowledgements, crashes and late renewals: refusals hold nothing, ended calls are accounted for, the tree is never ahead of the ledger, the heartbeat is right, stale baselines do no harm | 1 590 000 |
| `governed_call_liveness` | two calls of one worker: started calls end and capacity returns for good | 230 000 |
| `postgres_arbiter` | two sessions, two rows, a window, every interleaving of locks: the same limits and ledger, and only a reserve and a settlement can deadlock | 2 110 000 |
| `node_stores` | four drivers implement `SerialStore`; whoever has a store open has all of it | 1 660 000 |
| `node_stores_end` | calls to Neo4j and PostgreSQL end although locks are left behind; no payload refers to a string that was rolled back | 90 000 |
| `file_stores` | the SQLite arbiter keeps `SharedAllowance`; logs, files and transfers give back what was put in | 1 200 000 |
| `teams` | decisions are final, teams agree, authority narrows, reports and findings are true, merges lose nothing | 710 000 |
| `calls` | what is recorded is true, what is charged is what was sent, tools are guarded, answers are whole | 3 740 000 |
| `governed_call_exact` | violation, finding 1 | |
| `postgres_on_time` | violation, finding 2 | |
| `postgres_repeat` | violation, finding 3 | |

**Suites.** `node_stores`, `file_stores`, `teams` and `calls` check several modules in
one run. Its MC module instantiates them over shared variables; `part` is chosen in the
initial state and never changes, the variables of the other parts are `"idle"`, and each
step is a step of that part. A property is the conjunction of what the parts promise on
one subject, each behind `part = ...`.

| Run | Parts |
|---|---|
| `node_stores` | `redis`, `mongo`, `neo4j`, `postgres`, `mongo_open`, `neo4j_open`, `schema` |
| `node_stores_end` | `neo4j`, `postgres` |
| `file_stores` | `arbiter`, `sqlite`, `kafka`, `kafka_one`, `hashrope`, `transfer` |
| `teams` | `approvals`, `teams`, `teams_and_runs`, `delegation`, `cursors`, `tool_calls`, `reports`, `dependencies`, `merge`, `merge_many`, `merge_live` |
| `calls` | `recorded`, `races`, `revalidation`, `schemas`, `policies`, `coroutines`, `async_replay`, `measured`, `streamed`, `usage`, `events`, `references`, `process`, `pipes` |

**Bounds of the budgets.** Three reservations suffice for one to settle late, one to take
its capacity and one to be refused; two rows for requests that overlap in one row and
differ in another; amounts 0 to 2 with limits of 1 to 3 give overshoot, exact fit and
refusal. In `kv_arbiter` and in the `arbiter` part the clock runs to 3 with leases and
windows of 2, so both end during the run. In `governed_call` renewals stop at `MaxTime`,
after which the clock runs on as long as something is held; `Horizon` is never reached.
In `postgres_arbiter` the clock runs to 2 with leases of 1; its window (2) does not end,
which `kv_arbiter` covers, and every charge is 2 on an estimate of 1. Two sessions
are enough for every race between a pair of transactions; deadlocks of three are
not covered.

**Bounds of the stores.** Two clients make three calls in all (two in `node_stores_end`)
on a root and its children with two results and two keys: enough for a rival result, two
patches of one node, a child below a node that is dropped, and a call tried again
around another's. Three processes open a store, one of which may only open what is
there. The Kafka parts have a log of three with two writers, and of four with one writer
and an observer, so that a command can be undone, repeated and delivered twice; a hash
rope has a log of four, on a chain of three nodes. A SQLite
file is opened four times, by two processes, from an empty or an old version. A subtree
of three nodes is exported once, edited once and imported twice.

**Bounds of agreement.** Two reviewers with three decisions (two of them approving) and
two repeats; two workers. Two processes with two registries and two limits, each starting
again once. Delegation goes two levels deep with two tools. Merges are of two nodes among
two stores, twice, or three stores, once; `merge_live` has runs that record meanwhile.

**Bounds of calls.** One run with three calls and two starts, or two runs that race, with
four operations. Two coroutines on branches or on the run, with one interruption; three
calls with three faults and two meters that measure; three chunks of two letters; two
pieces and two tool calls of four APIs; usages of five fields of four values from six
providers; two workers with four tries at a branch of two nodes, and one failure of the
store; schemas of two properties over eight kinds of field, and all of two
alternatives; references through two definitions. Pipes and the queue hold one chunk, so
that each can be full while the others are. A Codex process whose pipes fail, are held
open or are too late (`process`) writes three lines, which a whole answer needs; a sound one
(`pipes`) writes four, more than its limit allows and than its answer has.

**Symmetry** permutes reservations, sessions, clients, processes, reviewers or workers only
where no property under check is temporal beyond `[]P` and `[][A]_v`; the liveness runs use none.

**Deadlock checking** is on in `kv_arbiter` and `postgres_arbiter`. Elsewhere behaviours
end: calls are over, files are written, or a bound on operations is reached.

**Fairness.** `governed_call_liveness`: time passes, and a call in progress of a process
that has not crashed takes its next step; the caller's function returns. Nothing is
assumed of connections, of heartbeats, or of renewals being sent. The retries in the code
are bounded, which is what makes calls end. `node_stores_end`: the server notices, in the
end, that a client is gone and rolls it back (keepalive, session timeout) and aborts one
of a circle of waiting transactions (its deadlock detector): weak fairness of
`ServerNotices` and `Abort`; a client that can take its next step again and again takes it,
and so a lock that becomes free is given to each of those who wait for it: strong
fairness of `Step`. That a Codex call cannot hang is stated without fairness, as `ENABLED`
of its next step (`CallGoesOn`, `NoneWaits`).

**Mutants.** Each property of a passing run has a changed definition in a module it is
about (`ReplyByCapacity`, `LiveWhileActive`, `ReserveSkipsBudgets`, `DeadlineOnReply`,
`ClashesReplaced`, ...), kept beside the original, under which TLC finds it violated.
`PROJECT.json` lists them.

## 4. What is proved

For any constants that satisfy the modules' assumptions: any finite number of
reservations, any rows, windows, limits and requests, an unbounded clock; any number of
connections and clients, nodes, results and operations; any processes that open a store;
any reviewers, workers and decisions; any stores, trees and metadata that are merged; any
finite number of runs over one tree; any meters, faults, streams and pipes of one call.

| Theorem | Says |
|---|---|
| **`KVArbiterProofs`** | |
| `TypeCorrect` | types |
| `NeverOverGranted`, `WindowNeverOverGranted` | `CapacityBound`, `WindowBound` |
| `NothingForgotten`, `NoEventForgotten` | `LedgerCoversCharges`, `NoRecentEventLost` |
| `EachChargeOnce` | `ChargedExactlyOnce` |
| `TombstonesStay`, `ExpiredStays` | `TombstonesPermanent`, `ExpiryIsFinal` |
| `Implements` | `KVArbiter` implements `SharedAllowance` |
| **`PostgresArbiterProofs`** | |
| `TypeCorrect` | types; a row is locked by one session at most |
| `NeverOverGranted`, `WindowNeverOverGranted` | `CapacityBound`, `WindowBound` |
| `NothingLost`, `EachChargeOnce` | `LedgerCoversCharges`, `ChargedExactlyOnce` |
| `TombstonesStay` | `TombstonesPermanent` |
| `OneKindNeverDeadlocks` | `DeadlocksMix`, for circles of any length |
| **`SQLiteArbiter`** | |
| `SQLiteTypes` | types |
| `LateSettlements` | `LateSettlementCharges` |
| `EventsStay` | no window event that counts is deleted |
| `SettledOnce` | each charge once, without tombstones |
| `WindowNeverOverGranted` | `WindowBound` |
| `SQLiteImplements` | `SQLiteArbiter` implements `SharedAllowance` |
| **`GovernedCallProofs`** | |
| `CallTypeCorrect` | types |
| `RefusalsHoldNothing` | `RefusedHoldsNothing` |
| `CallsAccounted` | `EndedCallsAccounted` |
| `TreeBehindLedger` | `SettledBeforeRecorded` |
| `HeartbeatTellsTruth` | `HeartbeatHonest` |
| `CallsUseArbiter` | every step of a call is a transaction of `KVArbiter`, or none |
| `WorkersShareLimit` | so the workers together stay within each limit |
| `BaselinesHarmless` | `StaleBaselinesHarmless` |
| `RecordStandsWhereChecked`, `RecordIsServed` | of `RecordedCalls`: `RecordedWhereChecked`, `ServedIsRecorded` |
| `RecordConfirmedOnce`, `RecordAvoidedIsReal` | `ConfirmedOnce`, `AvoidedIsReal` |
| `RecordIsForEver`, `RecordReplayReads` | `RecordingStays`, `ReplayReadsOnly` |
| **`NodeStoreProofs`** | |
| `NodeTypes` | types of `PostgresNodes`; no row outside a transaction |
| `PayloadsStayWhole`, `OnlyPutsCross` | the two halves of `PayloadsWhole` |
| `NodesSerial` | `PostgresNodes` implements `SerialStore` |
| `RedisSerial`, `RedisFailsClosed` | `RedisTransactions` implements `SerialStore`; `FailsClosed` |
| `Neo4jSerial`, `Neo4jOneWriter` | `Neo4jTransactions` implements `SerialStore`; one at a time |
| `MongoSerial` | `MongoTransactions` implements `SerialStore` |
| `OpenNamespacesComplete`, `RevisionsGrow`, `SnapshotsOpen` | of `NamespaceOpening`: `OpenIsComplete`; `RevisionGrows`; with a snapshot `OpeningSucceeds` |
| `OpenSchemasCurrent`, `SchemasNeverCollide`, `MigrationsDrained` | of `PostgresSchema`: `OpenIsCurrent`; `NobodyFails`; `ReservationsResolved` |
| **`CallProofs`** | |
| `ApprovalTypes` | types |
| `OneDecisionStands`, `DecisionStays` | one decision, the slot's, and for ever |
| `DispatchIsApproved` | `DispatchApproved` |
| `RecordsExhaust` | one dispatch per approval, after rollback too |
| `ImplementsRegister` | `Approvals` implements `WriteOnce` |
| `CallMeasurementsEnd`, `CallSentIsCharged`, `CallAccountsAgree`, `CallFirstErrorRaised` | of `MeasuredCall`: `MeasurementsEnd`, `SentIsCharged`, `AccountsAgree`, `FirstErrorRaised` |
| `StreamDeltasInOrder`, `StreamAnsweredIsRecorded`, `StreamReplayedInOrder` | of `StreamedCall`: `DeltasInOrder`, `AnsweredIsRecorded`, `ReplayedInOrder` |
| `CodexNoProcessLeft`, `CodexAnswerIsWhole` | of `CodexProcess`: `NoProcessLeft`, `AnswerIsWhole` |
| **`Merge`** | |
| `MergeTypes` | types; a spool is no longer than there are nodes |
| `ResultsReachDestination`, `FirstResultsStand` | `ResultsArrive`, `FirstResultStays`, also while runs write to the destination |
| `NothingLost`, `RerunChangesNothing`, `ReplaysAgree` | `MergeKeepsAll`, `RerunIsNoop`, `ReplayRejects`, where none does |
| `KnowledgeStays` | `NothingForgotten`, where none does |

`theorems` in `PROJECT.json` has the most important ones; types and a few others are only here.

**Assumptions.** Limits, estimates, charges and baselines are natural numbers, every row
has a meter and every window a positive span, leases are positive, and there are finitely
many reservations (a sum over them exists). Rows of PostgreSQL are numbers because their
names are sorted before they are locked; rows, windows and reservation ids differ. A
governed call asks for at least one row (`WorkersAssumption`): `_call` reserves nothing
otherwise. Every run evaluates them. The theorems of `NodeStoreProofs` have theirs as
hypotheses (`Allowed`, `RedisAllowed`, `Neo4jAllowed`, `MongoAllowed`): a parent is a
node, an operation is about nodes, results and keys that exist, `Absent` is not a record,
`Nobody` is not a client. `MCNodeStores` evaluates them for each of its parts
(`PostgresAllowed`, `DriversAllowed`). So have those about opening (`OpeningAllowed`,
`SchemaAllowed`: bounds are natural numbers, the revision may reach 1, `Nobody` is not a
process; `OpeningsAllowed` in `MCNodeStores`) and those of `Merge` (`Allowed`: finitely many nodes,
a parent is a node or `None`, `Absent` is not a record; `MergesAllowed` in `MCTeams`). Four
theorems of `Merge` also assume `~Live`: no run writes to the destination from the first
pass on, which `docs/api-reference.md` asks of its user. Those about calls assume what tells
values from their absence: `RecordAllowed` (finitely many runs; `None` is no result, `Absent`
no node), `CallAllowed` (what is measured and reported are natural numbers, `Unreported` is
none of them), `StreamAllowed` (a number of chunks), `CodexAllowed` (a text is not the mark of
a pipe's end). `MCCalls` evaluates them for its parts (`RecordsAllowed`,
`MeasurementsAllowed`, `PipesAllowed`).

*The limits.* `CapacityBound` is not inductive: a settlement removes what was held and
adds what was paid, and nothing says the first covers the second. The invariant splits
each payment into what its hold covered (`Within`) and the rest (`Excess`): covered
parts plus holds fit the limit (`KeysWithin`, `WindowsWithin`), because a settlement
moves at most the estimate from one side to the other, time only lowers holds, and a
grant is tested against the stored amount, which covers all payments
(`LedgerCoversCharges`). For windows the event must also still be there
(`EventsSettled`, `NoRecentEventLost`). Sums are cardinalities of sets of units
(`Totals`), so every fact about them comes from the library's theorems on finite sets.

*The promise.* Each step maps to a step of `SharedAllowance` under `Status`: a tick to
the lapse of the leases that expire with it, a refusal to `Learn`; in SQLite a sweep to a
stutter, since only lapsed reservations are swept.

*PostgreSQL: what the locks carry.* Statements of several transactions alternate, so the
argument is about what a session may rely on between two of its own. A row has one holder
(`OneHolder`), and a session that is past its first look holds its reservation's row, past
its row locks all rows of its request (`LockInv`); therefore what it read of them is still
true when it writes. From this follows, first, that of two transactions on one reservation
the later finds it ended (`TombstonesStay`), then the ledger (`LedgerInv`: the stored
amount is at least, without baselines exactly, what has been paid into it), and then the
limits (`CapacityInv`). There, what a reserve has decided must remain true until it
commits (`PendingFits`): time only frees capacity, and whoever would take some needs a
lock the reserve has. Two things are counted beyond the limit and named in the property,
because the code lets them happen: what a settlement charges above its estimate, and a
settlement whose lease ended while its transaction waited, when another may have been
granted the same capacity (the second finding). In a window the second cannot happen:
the settlement locks its windows before it reads the clock, so its hold stands until it
commits (`BeingSettled`).

*PostgreSQL: deadlocks.* Of the rows of its request a session locks the first it has not got, in
an order of its kind (`Earlier`: a reserve inserts missing rows, then takes budget rows,
then windows; a settlement takes windows, then budget rows), so it holds all that come
before one it holds (`LockOrder`). In a circle of reserves, or of settlements, consider who
waits for the row that is last in this order (`LastNeeded`): its holder waits as well, for
a row it has not got and so for a later one. The circle may have any length, and a row may
come to exist while it forms.

*SQLite.* `RowsGranted` (rows are there exactly for granted reservations) and
`NoneSweptAlive` replace the tombstones: whoever settles finds rows or has been told.
`WindowInv` is the window's part of the argument for the limits, by reservation.

*The governed call.* `CallInv` says, for each stage of a call, what the arbiter knows of
it: from the grant to the settlement the reservation is active and all its rows exist,
so the settlement is accepted; in the second try of a settlement it may already be
settled, with the very charge that is sent again; a node in the tree is settled or
marked. A step of one call leaves the reservation, the request and the charge of every
other alone (`OthersStill`), which needs only the effects of the arbiter's transactions
(`ReserveEffect`, `SettleEffect`, `ReleaseEffect`, `RenewEffect`).

*The arbiter below it.* `KVArbiter` lets its clients do anything, so that a governed call
is one of them has to be shown: each step is a transaction with a request and a charge
the arbiter knows, or changes none of its tables (`CallsUseArbiter`). The limit then
holds of all workers together by the arbiter's own theorem (`WorkersShareLimit`).

*Baselines.* The tree counts nothing the ledger has not settled (`TreeWithinLedger`, from
`TreeBehindLedger` and `NothingForgotten`), and amounts in the ledger never shrink; so a
baseline is covered when it is read and for as long as its request is under way, whatever
others record in the meantime.

*The heartbeat.* `LeaseInv`: while a reservation is active, leases only grow, and the
deadline a worker computes from the start of a confirmed renewal is never later than the
server's.

*Transactions on nodes.* The four stores have one theorem, that of `SerialStore`, and four
reasons for it. In each the invariant says why what a transaction has read is what is
stored when it takes effect.

- PostgreSQL (`Sound`): it holds the row it changes, or has found the node's parent, and
  nothing but garbage collection, which runs alone (`Alone`), removes that. The strings a
  put has been through are interned or its own to intern (`Walks`), so that its payload is
  whole when it commits. A put waits for a string another put is inserting; of two puts
  of one payload the one that is further on has been through every string the other
  holds, so only puts of different payloads can wait for one another (`OnlyPutsCross`).
- Redis (`RedisReads`): as long as nobody has touched the revision since it was watched,
  what was read is still so; whatever changes a record changes the revision and so
  reaches every watcher. A store whose revision was evicted is not written any more
  (`FailsClosed`).
- Neo4j (`Neo4jReads`): who has read holds the coordinator's lock, and whoever writes
  holds it too.
- MongoDB (`MongoSees`): a snapshot with the current revision is the store as it is, and
  who has changed the coordinator in a transaction that is still open has such a snapshot;
  a commit raises the revision and so makes every other snapshot an old one.

How often a call may take effect is the other half: `RedisPlaced`, `Neo4jPlaced` and
`MongoPlaced` count effects against connections and runs (one per connection in Redis and
MongoDB, one per run of a transaction in Neo4j, whose driver repeats the work after a lost
answer).

*Opening a store.* What MongoDB and Neo4j stores are made of is never removed, so what a
process has found of it is still there when it opens (`FoundStands`); version and revision
come together. With a snapshot, the index is there before the version
(`SnapshotInv`), so that nothing in between is seen. A PostgreSQL process that has read the
schema holds the advisory lock, and whoever else would change it needs the lock
(`SchemaInv`): what it read is so when it commits, and no table is created twice.

*Merge.* Two invariants. The first (`Inv`) holds whoever writes: a spool has each node
once, because the traversal reaches it from its parent only (`NodesOnce`, `ParentsFirst`),
so it ends; and what a pass has written of a spool stays, as a result or a rival
(`AppliedArrived`), because writes only add to them and the update between an `exists` and
its write patches with at least what was read (`ReadStands`). It says nothing of metadata: `update_meta`
replaces the lists it read. Without writers the node is at the write still what was read
(`ReadExact`), so that the write is the join of both records (`PatchIsMerge`), and a join absorbs
its second argument and what its first had absorbed (`MergeAbsorbs`, `AppliedAbsorbed`):
this is why nothing is lost and why a second run is idle. For a replay, the nodes that the
first pass has looked at have no other result until the second writes them
(`ReplayAgrees`); a spool has a node only once and no other source writes in between.

*Approvals.* `ReviewInv` says what each stage of a reviewer knows of slot and decision,
`CheckInv` what a worker that has passed its check may rely on; `StepEffect` reduces every
step to its effect on the shared nodes.

*One tree, many runs.* `RecordInv`. A node is stored only below stored nodes, with every
run's cursor among them (`RecordTree`), so what a call stores is where it was looked up, and
a call between its steps knows what it looked up (`RecordStage`): in `avoid` there is a
result, and it has read at most as many hits as were served, so that of two hits counted at
once one is lost and none is invented; in `record` the handler has returned what is about to
be stored. For a confirmed handler, calls made plus tokens still held plus calls under way
never exceed what was asked for (`RecordCounted`): a token is taken away by the step that
begins its call. `RecordEffect` reduces each operation of a run to its effect on the tree,
and what it does to a node is one of a new node, a rival, a note or a mark (`RecordGrown`);
from it follows that results stay.

*One call and its faults.* `MeasuredInv`. The measurements stopped so far are the last of
those that are to be stopped, in reverse (`CallReversed`), and those to be stopped are all
that were entered unless `measure()` raised (`CallMine`); so all have been when the call
goes on (`CallOrder`). Errors are collected in order and only before the settlement, of
which the first is raised. Until the store fails, the ledger is what the tree has, and
between the two writes of a call it is ahead by exactly that call's tokens (`CallAgreed`).

*Streams.* `StreamInv`: the chunks kept have the kinds and texts of those sent, merged objects
or not (`StreamSame`); a chunk that was received and not yet passed on is the last one sent
(`StreamAtChunk`), so that what was passed on is always a prefix.

*A Codex call.* `CodexInOrder`: what the process wrote is what was parsed, then the events in
the queue, then the one the reading thread carries, then the pipe. So nothing is lost,
doubled or overtaken, with any number of messages of the other threads in between and queues
of any size. `CodexClosing` says when that reader ends: the pipe is empty and nobody can write
to it any more, or its error is in the queue (the writer's error is one more message of
another thread, at which the call fails); its `closed` is its last message
(`CodexClosedLast`). A caller that has received it has received everything.

TLC has checked each of these invariants on the instances of the runs before it was proved.

**Only model-checked.** Liveness (`CapacityReturns`, `StartedCallsEnd`, `CallsEnd`),
`ENABLED` (`CallGoesOn`, `NoneWaits`) and recursion over data (schemas, trees, logs) are
out of the prover's reach; `AccountsTrue` depends on a recursive sum over the tree, and
`ResultIsWhatWasSent` on the concatenation of any number of texts. Within reach but not
proved: what `TeamsAgree` and `BindsOnce` say of `TeamStart` and `Delegation`; of the
properties of `MCCalls`, the sum of a run's charges (`SpentIsSettled`) and `NoRivals`, which
hold for single runs that refuse duplicates, and what they say of `Revalidation`,
`AsyncRuns`, `UsageAccounting`, `ProviderStreams`, `RegisteredCall` and `SchemaReferences`;
and what `LogsHold` and `PayloadsArrive` say of `SQLiteNodes`, `KafkaLog`, `HashRopeLog` and
`SubtreeTransfer`. In the suites, what is proved is a conjunct of the run's property, in the
module it is about: of `CallsAccounted` the conjuncts of `measured` and `AvoidedIsReal`, of
`AnswersWhole` those of `streamed` but one and of `process` but `CallGoesOn`, of
`RecordsTrue` those of `recorded` and `races` but two.

## 5. Findings

Three disagreements between a document and the code, each shown by a run:

1. `docs/scale-out.md:122` bounds settled spend by the budget plus overshoot. The
   heartbeat is stopped before the settlement is sent, so a slow settlement can arrive
   after the lease ran out and its capacity was granted again; it is charged, as it must
   be, and nobody reports a lost lease (`governed_call_exact`).
2. In PostgreSQL the same bound fails although every settlement is stamped before its
   expiry: the clock is read before the budget rows are locked
   (`postgres_on_time`, `postgres.py:758`).
3. `docs/postgres-operations.md:126` says that repeating a reserve returns the
   reservation. If the first try is still running in the server, its row is not there to
   be found or locked; the second try is refused because of the first's own grant, which
   then holds capacity until it expires (`postgres_repeat`, `postgres.py:471`).

Further disagreements met in the code while modelling it. The modules follow the code; no
run states the promise, or the run's constants keep out of its way
(`OpensOverlap <- FALSE`, `Unencodable <- {}`).

| Code (`pollard/`) | Document | Disagreement |
|---|---|---|
| `runtime.py:284` | `docs/api-reference.md:361` "A run root binds to one registry digest" | The digest is read and then written without a comparison; two processes with different registries can both start on a new root. `OneManifest` holds because a team's manifest is bound by a slot. |
| `merge.py:285` | `docs/api-reference.md:675` "replay mode rejects result conflicts" | Only the first pass checks; a result recorded between the passes becomes a conflict of a successful replay merge. `ReplayRejects` is checked without writers, which the document asks to quiesce. |
| `runtime.py:510` | `docs/api-reference.md:63`, on `dry_run` | `confirm` does not test `dry_run`: a confirmed call of a dry run is executed. |
| `replay.py:57` | `README.md:682`, on `hybrid` | A dry run's node has no result and `put` never gives it one, so each later hybrid run executes the call again. |
| `replay.py:101` | `docs/observability.md:363`, on avoided charges | Read, add and write: one of two concurrent hits may be lost. `AvoidedIsReal` says that no hit is invented. |
| `stores/sqlite.py:559` | `README.md:604`, on interning | Opening reads the version, scans and writes outside one transaction; a process that stores an interned payload in between has its reference taken for a literal. |
| `stores/kafka.py:441` | `docs/api-stability.md:59`, on `update_meta` | A command's id is its digest: a patch equal to an earlier one is taken for that one, although others came between, and is not applied. |
| `stores/neo4j.py:171` | `docs/distributed-stores.md:514`, on first construction | Schema and coordinator are read one after the other: a process that opens beside the creator may see half of it and fail. `OpeningSucceeds` is checked of MongoDB only. |
| `runtime.py:1621` | `docs/api-reference.md:117`, on `keep_chunks` | Nested objects are merged by reference, so later chunks change the kept ones. `ReplayedInOrder` is about the rest of a chunk. |
| `meters/tokenmaster.py:708` | `docs/api-reference.md:328`, exclusive categories | A Codex report names a cache-write count beside a total that contains it; it is counted twice. `EachTokenOnce` is about the other providers. |
| `runtime.py:1109` | `docs/api-reference.md:768`, on invalid usage | The estimate is settled only when a meter charges nothing; meters charge the valid counts of an invalid report. |
| `stores/hashrope.py:37` | `README.md:766`, on snapshots | Nodes change before the record is encoded; metadata with a lone surrogate cannot be encoded and is lost on reopening. |
| `registry.py:229` | `docs/api-reference.md:384`, on `anyOf` | Alternatives are redacted one after the other; one nested in another is matched against what was already redacted, and may then not match. |
| `runtime.py:1043` | `docs/limitations.md:21`, on denial | The first policy that asks ends the evaluation; a later one that denies is not heard once the call is confirmed, unless it is durable. |
| `aio.py:233` | `docs/api-reference.md:204`, on branches | A second `branch(attempt=0)` from one cursor starts at the first one's anchor and shares its charges and nodes. |
| `adapters/openai.py:277` | `docs/cloud-providers.md:90` "a successful partial result with its terminal usage" | A terminal event without a `response` gives the text heard so far: its tool calls and usage are lost, and the call still succeeds. `StreamedEqualsWhole` is about the text alone then. |
| `adapters/anthropic.py:270` | `docs/api-reference.md:117`, on `on_delta` | The text a block starts with goes into the result, its chunk has no `delta`: a caller that joins the deltas misses it. `DeltasAreTheText` leaves these pieces out. |
| `runtime.py:737` | `docs/revalidation.md:162`, on the failure note | The note is written only by `_finish_model_revalidation`: when the store fails in `_put` after the write, or in `_settle_scopes`, the observation stands without one and its id is used up. `ObservationsAreExplained` excepts it. |
| `schema.py:52` | `tests/test_registry.py:528` | Beside a `$ref`, annotations are resolved as if they were schemas. |

## 6. Not modelled, and the plan

Of the modelled parts, these details are left out: the state and advice of the
tokenmaster package, tokenizer estimates and the energy thread; depth meters and
`remaining_for_run`; the list of differing paths in a comparison's report; MongoDB's
rollback of commits that no majority saw; SQLite's schema version 2 and `:memory:` files;
registered actions without a handler; traversal orders and views; parse errors of stored
records. `components` in `PROJECT.json` has them part by part.

Two hazards have no property yet: a meter whose `measure()` raises leaves the
measurements started before it running (`runtime.py:1532`), and an answer with several
choices whose deltas are collected as one (`adapters/openai.py:340`).

Next, in order of importance:

1. `TeamsAgree` for `TeamStart` and `Delegation`, with any number of processes and levels.
2. `LogsHold` for `HashRopeLog` and `KafkaLog`: what a log gives back, for any length.
3. `ScopesHold` for `AsyncRuns`, and `SpentIsSettled` for `RecordedCalls` with the sum of
   `Totals`.
4. `AccountsTrue` for `TeamAccounts`, which needs its recursion over the tree stated
   without `RECURSIVE`.
5. The composition of `RecordedCalls` with `Merge`: replay from a merged tree.

Left out for good: conversions and I/O (telemetry, MCP, command lines, the pytest plugin),
and the Rust and npm ports, for which the Python package is the reference.
