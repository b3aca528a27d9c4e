# Verification of sql-orm

TLA+ models of [sql-orm](../src/README.md), a code-first ORM for SQL Server
written in Rust, with the TLC runs that check them on small instances and the
TLAPS proofs of what holds for every instance.  All paths below are relative to
`src/`; `context.rs`, `tracking.rs`, `lib.rs`, `dbset_query.rs` and
`active_record.rs` are those of `crates/sql-orm/src/`.

## The system

An application derives metadata and a *context* with one `DbSet` per entity
type.  All the contexts cloned or derived from one another share two objects: a
`SharedConnection` (one connection, or a pool) and a `TrackingRegistry`.

| Component | State it keeps | Operations | Talks to |
|---|---|---|---|
| `SharedConnection`, direct (`context.rs`) | the connection's mutex; atomics `transaction_depth`, `active_transaction_scope`, `next_transaction_scope`; the scope of each handle | `lock`, `run_transaction` | the session, through `MssqlConnection` |
| `SharedConnection`, pooled | the same atomics, and the slot `pinned_pool_connection` | `lock`, `run_pooled_transaction` and its cleanup plans | the bb8 pool, the session of the pinned connection |
| Change tracker (`tracking.rs`) | per handle: original, current, state, registration id; per registration: identity, snapshots, state, raw address of the handle | find, add, mutate, mark, detach, drop, clear, immediate save and delete | the registry from the handle, and the handle from the registry through the raw address |
| Navigation wrappers (`lib.rs`) | the related values, whether they are loaded, a log of changes | set, push, remove, clear, drain | the entities that hold them, relationship commands |
| `save_changes` (`sql-orm-macros/src/lib.rs`, `context.rs`, `tracking.rs`) | a plan of relationship operations, a work list per phase | relationships, Added, Modified, Deleted, in a transaction of its own or the caller's | tracker, wrappers, `DbSet`, `SharedConnection` |
| Save order (`tracking.rs`) | none | orders the entity types by their foreign keys | `save_changes` |
| `DbSet` writes, `ActiveRecord` | none | insert, update, delete, exists-then-write `save` | `SharedConnection`, policies |
| Policies (tenant, audit, soft delete) | request values and providers on the runtime | add values and predicates to each write and read | `DbSet`, queries |
| Query builder (`dbset_query.rs`, `sql-orm-query`) | the tree being built | filters, joins, order, pages, projections, groups, includes; `all`, `first`, `count`, `exists`, aggregates | policies, compiler, tracker (included collections) |
| SQL Server compiler (`sql-orm-sqlserver`) | none | trees and migration operations to text and parameters | queries, writes, migrations |
| Executor (`sql-orm-tiberius`) | the configuration, the client of the stream | runs statements, retries reads, times out, traces; transaction handles | the driver |
| Migrations (`sql-orm-migrate`, `sql-orm-cli`) | files under `migrations/`, the history table | diff, script generation, update and downgrade | files, the server |
| Derive macros (`sql-orm-macros`) | none | refuse declarations, generate metadata and persistence | everything above |

What is hard here:

* **Interleaving.** A context is `Clone + Send`; several tasks use one
  connection, several clients one table, several processes one history table.
* **Stale checks.** `lock()` checks the scope once and then waits for the
  mutex.  The work lists of `save_changes` copy raw addresses and use them after
  an await.  `ActiveRecord::save` asks whether a row exists and acts on the
  answer.  A script reads the history before its transaction begins.
* **Partial failure.** Any statement, `BEGIN`, `COMMIT` or checkout may fail,
  answers and streams may be lost, timeouts run out, and the future of a call may
  be dropped at any await.  A command line process may die between two files.
* **Two copies of the truth.** A handle and its registration both hold a
  current value and a state; a relationship is a foreign key, a wrapper on either
  end and a log of changes; a snapshot, a script and a database tell of one model.
* **Composition of policies.** Tenant, audit and soft delete each add to
  statements that the caller, another policy and an include also add to.

What makes each component correct, and what the hazards in `PROJECT.json` are
about: a transaction is all or nothing and leaves the shared handle as it was;
pooled connections are neither lost nor shared, and go back clean; the registry
follows only live handles, has one entry per persisted key, and neither forgets
an edit nor believes a value saved that is not; recorded relationship changes are
carried out or kept; a write stays in its tenant and overwrites no version it has
not seen; a query sees what its policies let it see; a statement is executed at
most once unless it is a read; migrations applied in order reach the model, once
each, whatever fails.

## Modules

| Module | What it models |
|---|---|
| `SqlSession` | one server session as the ORM uses it: the nesting counter, the open transaction's statements, the retry option of its connection, and whether all its transaction commands were answered. External, except `WithRetry` and `Unsure` |
| `TransactionContract` | the abstract promise of `db.transaction`: a call's statements take effect together, or not at all; and what is left of it when a command gets no answer |
| `DirectTransaction` | `lock` and `run_transaction` on one connection |
| `PooledTransaction` | `lock` and `run_pooled_transaction` on a pool |
| `ChangeTracker` | handles, registry, the three phases of `save_changes`, one table, transactions and other clients |
| `SaveOrder` | `topological_entity_order`, step by step |
| `NavigationWrappers` | `Navigation`, `LazyNavigation`, `Collection`, `LazyCollection` and their logs |
| `Relationships` | the relationship phase of `save_changes` composed with its other phases, over the wrappers, registrations and two tables |
| `EntityModel` | what `derive(Entity)` refuses, and the metadata, values, keys and tokens it generates |
| `EntityWrites` | `ActiveRecord` and `DbSet` writes by key with their policies, statement by statement, by several clients |
| `QueryAst` | the query tree of `sql-orm-query` and what the compiler refuses of it |
| `SelectServer` | the server reading such a tree: three-valued logic, joins, grouping, pages. External |
| `EntityQuery` | `DbSetQuery` and the builders it turns into, the policies of reads, includes, and the ways to run a query |
| `Executor` | `MssqlConnection`: statements, retries, timeouts, traces, health checks, transaction handles |
| `MigrationDiff` | the diff of two snapshots, the plan, its reversal, the destructive check and the compiler's refusals |
| `Ddl` | the server executing the planned statements. External |
| `MigrationPlan` | one migration planned, applied, reverted and planned again |
| `MigrationHistory` | the migrations directory, the history table and the scripts that run against it |
| `MC...` | small instances: symmetry sets, declarations, tables and snapshots |
| `TransactionLemmas` | facts about the mutex's queue and the server's sessions, for the next two |
| `DirectTransaction_proofs` | theorems about `DirectTransaction` |
| `PooledTransaction_proofs` | theorems about `PooledTransaction` |
| `ChangeTracker_proofs` | theorems about `ChangeTracker` |
| `SaveOrder_proofs` | theorems about `SaveOrder` |
| `Executor_proofs` | theorems about `Executor` |
| `MigrationHistory_proofs` | theorems about `MigrationHistory` |
| `EntityWrites_proofs` | theorems about `EntityWrites` |

`Relationships` extends `NavigationWrappers`; `EntityWrites` extends
`EntityModel`; `EntityQuery` extends `SelectServer` and that `QueryAst`;
`MigrationPlan` extends `Ddl` and that `MigrationDiff`; the transaction modules
and `Executor` share `SqlSession`.

### DirectTransaction and PooledTransaction

`pc` is where a task's future stands.  Each await and each atomic operation is a
step of its own, because another thread can run between any two of them; what
runs between two awaits without touching a shared atomic is folded into the step
before.  `gate` is the progress of the task's current `lock()`: `out`, `checked`
(the scope has been checked, the mutex not yet polled), `queued` (in tokio's FIFO
queue; the head holds the guard), and on a pool `pool` (the slot was empty, the
pool is being asked).  A statement runs in one step under the guard.

| Code | Actions |
|---|---|
| `lock`, `ensure_can_use_active_transaction_scope` | `CheckScope`, `Enqueue`, `Rejected`, and on a pool `OperationToPool`, `OperationAcquires` |
| `run_transaction` up to the closure | `StartTransaction`, `Begin`, `BeginFails`, `BeginUnanswered`, `BeginRejected` |
| `run_pooled_transaction` up to the closure | `AcquireOwned`, `Install`, `InstallRefused`, `Begin`, `BeginFails`, `BeginUnanswered`, `DisableRetry` |
| `enter_transaction_scope` | `StoreScope`, `BumpDepth` |
| the closure | `IssueStatement`, `ExecuteStatement`, `StatementFails`, `StatementAborts`, `ClosureReturns` |
| the match after it | `Commit`, `CommitFails`, `CommitUnanswered`, `Rollback`, `RollbackUnanswered`, `FinishRejected` |
| `exit_transaction_scope` | `ExitDepth`, `ClearScope` |
| cleanup plans | `RestoreRetry`, then the exit, then `Unpin`; after a failed `BEGIN` only `Unpin` |
| a dropped future | `Cancel`, with the batch in flight executed or not |
| another task's operation on an outer handle | `Operation...` |

`run_transaction_command` (`transaction.rs:216-241`) answers one `Err` for a batch
that the server refused and for one that ran into `query_timeout` or lost its
answer.  The model has an action for each.  `BeginFails` and `CommitFails` are a
refusal, after which the server has nothing open.  After `BeginUnanswered` the
transaction may be open; after `CommitUnanswered` it may be open, rolled back or
committed; after `RollbackUnanswered` it may be open still; and a statement that
fails may have been executed.  The code does the same in each case: `pool.rs`
takes the connection back and the direct connection stays where it is.  `sure` is
a history variable of the model: it becomes false at the first such command, or
when a call is dropped with its batch under way, and stays so.  `ran` are the
statements of a call that the server has executed.  A late effect is taken to
happen at the timeout, since a session runs one batch after the other.

On a pool the transaction's own handle is never refused and never finds the slot
empty: `TransactionHandleAdmitted` says so, and is why those error arms have no
action.  On a direct connection they do happen, with two drivers, and do have one.

### ChangeTracker

A handle lives at an address, a member of `Handles`; dropping it frees the
address and another handle may take it.  `entries` is the registry.
`SameHandle` asks whether a listed address still holds the handle that was
listed.  When it does not, the code goes through it all the same and `deadUse`
records it: a read finds the handle that has taken the address, or none
(`ReadDead`), and `sync_persisted` writes value and state of the saved entity to
whichever handle is there (`WriteThrough`), while the entry's own handle only gets
the state.  `save.item` holds the value copied before the statement that
`save_changes` awaits; the application may act only while there is one, or
during the final `COMMIT`, and only with the operations in `DuringSave`.  `tx`
tells the transaction that `save_changes` opened from the application's own,
and `backup` is the table to go back to.  Entities have an explicitly assigned
key that is never edited and one updatable column.

### SaveOrder

`keys[c, t]` is the foreign key from entity `c` to table `t`: none, simple or
composite.  `Visit` is one turn of the `while` loop.

### NavigationWrappers and Relationships

A wrapper is what it shows, whether it is loaded, and its log.  A value in it is
*tracked* when it carries the registration id of a handle.  Principals have a
`has_many`, in some contexts a `has_one`; dependents have the foreign key and a
`belongs_to`.

| Code | Definitions |
|---|---|
| the wrappers' setters | `SetTracked`, `SetUntracked`, `Push`, `PushUntracked`, `Take`, `ReplaceQuietly`, `ClearCollection`, `Drain`, `LoadCollection` |
| `add_tracked`, `remove_tracked`, `detach_tracked`, `DerefMut` | `AddTracked`, `RemoveTracked`, `DetachTracked`, `EditForeignKey` |
| `collect_has_many_relationship_commands`, `collect_dependent_relationship_commands`, `relationship_commands_from_batch` | `CollectionRefused`, `ListCommand`, `SetCommands`, `Commands` |
| `reconcile_relationship_commands`, `push_or_merge` | `Reconcile`, `Assign`, `PushOrMerge` |
| `save_reconciled_relationship_operations`, `merge_relationship_values` | `Execute`, `MergeRelationshipValues` |
| `clear_tracked_relationship_changes` | `Cleared` |
| the generated `save_changes` | `SaveChanges(left)`: one step, whose statements fail after the first `left` |

### EntityModel and EntityWrites

A declaration is a record of fields and policies; `DeriveErrors` are the reasons
for which the macro refuses it, and `Columns` is the metadata of an accepted
one.  A client holds one object and may be inside one call; each statement of a
call is a step, so another client writes between the `exists` and the `update` of
`ActiveRecord::save`, or between a missed `update` and the recheck
(`Continues`, `SaveGoesOn`, `Recheck`).

| Code | Definitions |
|---|---|
| `ActiveRecord::save`, `delete` | `Save`, `SaveGoesOn`, `DeleteObject` |
| `DbSet::find`, `insert`, `update`, `delete` | `Find`, `DbSetInsert`, `DbSetUpdate`, `DbSetDelete` |
| `update_entity_values_by_sql_value` | `Writes`, `Missed`, `Recheck` |
| `resolve_audit_values`, `apply_audit_values` | `ApplyAuditValues` |
| `apply_soft_delete_values` | `ApplySoftDeleteValues`, `DeleteStatement` |
| `tenant_insert_values`, `tenant_write_predicate` | `TenantInsertValues`, `WriteFilter` |
| the server's constraints | `InsertRefused`, `UpdateRefused` |

A scenario is a declaration with the rows of its table, what the application
writes, and the tenant, audit and soft-delete values of each client.
`ScenarioAssumption` says what a scenario must satisfy for the model to mean
anything, and no more than the compiler of Rust and the server ask for:

* the entity's own column names are distinct and no key is made of rowversions
  (`TableFits`), or there would be no such table; that the policies' names are
  distinct is not assumed but what `derive` has to guarantee;
* the rows have the table's columns, distinct keys and no forbidden `NULL`;
* objects have the entity's columns, fields of insertables and changesets resolve
  to one (`InputsFit`), values of a policy are present (`ContextFits`);
* a rowversion or identity in the initial rows, and a rowversion in an input, is
  one the server handed out before.

`ValuesAssumption` keeps the markers `None` and `Null` apart from the values that
the server makes up.

### QueryAst, SelectServer and EntityQuery

A builder is a `shape` (`plain`, `one`, `many`, `grouped`) and its tree.  The
builder's methods are actions that extend it; `Run` takes one of the `Operations`
of the shape, adds the policies (`Effective`, `EffectiveInclude`), lets the
compiler refuse the tree, and answers with one of the results the server may give: a page of rows whose order
has ties has several.  `Truth` is three-valued, so that `NULL` behaves as it does
in the generated SQL.

### Executor

`call` is the future being awaited: `sent` (the server has the statement),
`answered`, or `asleep` between two attempts.  The server executes a statement
at a moment of its own; `Interrupted`, `LinkBreaks`, `Timeout` and `Cancel` lose
the answer on either side of it.  `handle` is the `MssqlTransaction` being held.
`trusted` is false once the program lost a transaction it had begun; see *What
the models show* below.

### MigrationDiff, Ddl, MigrationPlan

Snapshots are functions from names to schemas, tables and columns.  Each pass of
`diff.rs` is an operator that returns a sequence of operations: `Diff` is their
concatenation, `Reversal` what the command line makes of it for `down.sql`.
`MigrationPlan` runs the statements one by one against `Ddl`, in which objects
depend on one another as they do in SQL Server: a column of an index or a key
cannot be dropped, retyped or made shorter (`Alterable`).  What the rows of a table
hold is not part of the model: a statement that some rows would stop
(`DependsOnRows`) succeeds or fails, and a script that fails ends `rows`.

### MigrationHistory

`migration add` writes one file per step, so that a crash leaves any prefix of
them.  A script is a sequence of blocks; a client is at the downgrade's `guard`,
before a `block`, past its checksum test (`checked`), or inside its transaction
(`open`).  Statements take locks until the transaction ends; two scripts that
wait for each other lose one of them (`DeadlockVictim`).

## Runs

| Run | Instance | What it shows |
|---|---|---|
| `DirectOneDriver` | 1 driver, 2 outer callers, 2 calls of 2 statements; every fault: refusals, unanswered commands, aborts, drops | `AllOrNothing`; `RuntimeTruthful`: no retries inside a transaction, and after a call the shared handle has no scope, its own retry options, and an open transaction only if a command went unanswered; `ImplementsContract`, the refinement of `TransactionContract` |
| `DirectManyDrivers` | 2 drivers, 1 caller, 1 call of 1 statement each, every refusal, abort and drop, fair | `DepthCoversEntered`, `ScopesDistinct`, `CallsReturn` |
| `PooledDrivers` | 2 drivers, 1 caller, 2 connections, 1 call of 2 statements under every fault for one driver, of 1 under refusals and drops for the other, fair | `PoolSound`: connections are accounted for and go back with their retries, and without a transaction unless a command went unanswered; `TransactionHandleAdmitted`, `SlotHasOneOwner`, `CallsReturn`, `ImplementsContract` |
| `TrackerRegistry` | 1 key, 2 values, 2 handles, 2 registrations, all operations also during `save_changes`, statements and `COMMIT` fail, others write | `RegistrySound`: pointers lead to live handles, one entry per identity; `StatesAgree`, until a reused address is followed |
| `TrackerIntent` | 2 keys, 2 values, 2 handles, 3 registrations, nothing fails | `TrackerFaithful`: what is `Unchanged` is what the row holds; `IntentSurvives`, `SaveSettles` |
| `SaveOrderPlan` | 3 entities, every sharing of up to 3 tables, every foreign key | `PlanIsLeast`, `CycleIffNoPlan` |
| `Relationships` | 2 principals, a dependent and one entity to add; 4 contexts (required or nullable key, eager or lazy wrappers, with a `has_one`, already wired); 4 steps, up to 3 statements before a failure | `TrackerFollows`, `RelationshipsSaved`, `RefusedKeepsChanges` |
| `EntityWrites` | 2 clients of 2 tenants, 10 declarations and what `derive` refuses beside them, 4 steps | `WritesSound`; `WritesConfined`: to the tenant, to the version read, to the row; `AnswersTrue`: `Ok` iff written, misses explained, marks kept, audit precedence |
| `EntityQuery` | accounts with a boss and items, tenants and both kinds of soft delete, 2 builder calls, 4 parameters | `PoliciesHold`: hiding the rows that the policies hide never changes an answer; `ResultsAgree`: `exists`, `all`, pages, and `count` without joins; `IncludesComplete`; `TreesSound` |
| `Executor` | 3 retries without a query timeout, or 1 retry with one; a write, a read, a raw statement; handles; every way to lose an answer; 3 numbered calls, fair | `WritesOnce`, `CallsBounded`, `AttemptsLogged`, `CallsEnd` |
| `MigrationPlan` | all pairs of models of two tables, of three tables with competing hints, of one table with two columns, and two tables that change schema | `PlanRuns`, `PlanLeads`, `DownRestores`, `LossesAreFlagged` |
| `MigrationHistory` | 2 clients, one of which also runs downgrades, 2 objects, 3 models, 2 ids, 2 changes of the developer, 3 scripts; crash, failing statement, edited and merged migrations, fair | `HistorySound`, `ScriptsInOrder`, `ScriptEnds` |

Properties whose names end a module are conjunctions of the named parts above
them; each part carries its own comment.

### Bounds

Two drivers are what a race on the atomics needs, and one caller is one more
observer; a call of two statements is the shortest that can be torn apart, and a
second call of the same driver is what finds leftovers of the first.  On a pool
only one closure is torn apart, and the other comes in between; so only one driver
meets every fault, and the other those that its part takes.  `DirectManyDrivers`
leaves unanswered commands out: its counters are moved the same way after a
command that is refused and after one that is not answered, and the run is about
the counters.  Two
connections let a second transaction be refused at the slot while it holds one.

For the tracker one key is enough for identities to collide and two handles for
an address to be reused while an entry is alive: `save_changes` awaits the second
entry, its handle is dropped, a new one takes the address, and the entry is
attached again elsewhere, inside the application's transaction.  The intent needs two keys, so
that the work on one could be taken for the other's, and three registrations, so
that a dropped entry, a reattached one and a new one meet.  Three entities are
the smallest context with a chain, a choice of ties and a cycle longer than two.
`TrackerIntent` has no faults because its properties are false with them (see
below).

Two principals are needed to move a dependent, and four steps to record two
changes about it, save, and save again.  Two clients of `EntityWrites` fit a
whole call of one into any gap of the other's; four steps are find, edit and save
of one with a write of the other.  Two builder calls reach every pair of builder
methods; the tables are chosen so that each policy hides a row that some answer
would show.  `MaxParams` is small so that the limit is met.

In `Executor`, `ShiftBits` is 2 where the code has 32, so that the multiplier
overflows at the third attempt; two ticks are longer than one delay and shorter
than all.  Three numbered calls are begin, write and commit.  `query_raw` and
`health_check` have the control of `execute` and `is_valid` and are not among the
run's operations.  In `MigrationHistory` the developer works while no script
runs: a script reads its files before its first statement, so that a change made
meanwhile is one made after.  Two ids and one merged are enough for a migration
to arrive behind one that is applied.

### Fairness

The runs that check liveness use `FairSpec`.  For transactions it asks weak
fairness of each task's own next step: the executor polls every future that is
ready, tokio's mutex is FIFO, and the server answers every batch.  A task that is
idle is not obliged to call, and no fault has to happen.  Nothing is
assumed about `Cancel`.  In `Executor` only the executor and the clock are fair,
the server never has to answer.  In `MigrationHistory` a script that was started
goes on: it is one batch on the server, and the server ends deadlocks.

### Mutants

Every property of a run has a mutant of the code that breaks it in that run.
They stand beside the definition they replace, after a comment `Mutant:`, and are
used by nothing else.

## What the models show

The modules are what the code does, also where its documentation says something
else.  The properties are stated so that they hold of the code; what follows is
what they had to leave room for.

*Transactions.*

* An outer operation that was checked before the scope was entered waits for the
  mutex and runs inside the transaction (`context.rs:377`, on a pool the slot is
  locked after the same check); `docs/transactions.md:40-42` says outer clones are
  rejected.
* Two calls that both found no active transaction nest their `BEGIN`s on one
  session (`context.rs:401`): the inner `COMMIT` only counts down and answers
  `Ok`, and the other call's `ROLLBACK` undoes it, against
  `docs/transactions.md:22`.
* A `BEGIN`, `COMMIT` or `ROLLBACK` that times out or loses its answer, or an
  `MssqlTransaction` that is dropped, may leave the server's transaction open on
  its connection (`context.rs:419`, `430`, `438`; on a pool `466-476`, `502`);
  `has_broken` is constantly false (`pool.rs:160`) and the health check does not
  see it.  The next call's `BEGIN` nests, its `COMMIT` only counts down and
  answers `Ok` without effect, and single operations join the transaction.  The
  `Err` of an unanswered `COMMIT` may stand for statements that are durable.
  `docs/transactions.md:24` and `:99` speak of a `ROLLBACK` that fails; of the
  later calls they say nothing.  `AllOrNothing`, `RuntimeTruthful`, `PoolSound`
  and the contract say what remains: never a part of a call, no effect under any
  other `Err`, and an `Ok` that can be believed while the connection is `sure`.
  `WritesOnce` of the executor keeps an `Ok` only while `trusted`.
* A retry after the stream broke runs on the same broken client.  A timed-out or
  cancelled query logs its start and nothing else.

*Tracker.*

* `Tracked::save` leaves the registry's snapshots behind (`tracking.rs:697`): load
  `a`, save `b` at once, edit back to `a`, and `save_changes` finds no change;
  `docs/tracking-unit-of-work.md:198-200` says the snapshots are synchronized.
* After a failed `save_changes` the entries it had already written stay
  `Unchanged` although the transaction is rolled back (`context.rs:1023`, against
  `docs/tracking-unit-of-work.md:867-868`).
* A handle dropped while `save_changes` awaits takes its `Unchanged` entry along;
  the work list still reads its address (`tracking.rs:1426`).  When another handle
  has taken the address and the entry is attached elsewhere, `sync_persisted` and
  `accept_current` overwrite that other handle (`tracking.rs:1445-1480`): it shows
  `Unchanged` and the saved entity, and its entry something else.
* The documentation that the derive generates for `save_changes` (`lib.rs:1994` of
  the macros) says that dropping a wrapper detaches it and that relationship
  changes are not persisted; the code, and the other documents, say otherwise.
* `save_tracked_added` marks an entry `Unchanged` before
  `update_persisted_identity` may refuse it (`context.rs:1023-1025`, against
  `docs/tracking-unit-of-work.md:899-902`).
* When two entity types map to one table, only the first is ordered before the
  children of that table (`tracking.rs:1302`).

*Relationships.*

* `set_related` with an untracked value, or the removal of a loaded one, leads to
  no command; the change is cleared and `save_changes` answers `Ok`
  (`docs/tracking-unit-of-work.md:170` says changes are not silently ignored).
  After a tracked value it is read as a removal.
* A wrapper changed without editing the foreign key field is refused as a
  conflict (`context.rs:1794`), where `docs/navigation.md:481-484` says the
  dependent is moved.  Loaded values carry no identity, so that removing them is
  refused and a loaded `belongs_to` cannot be moved.
* Any change of a `has_one` makes every save fail (`context.rs:1931`): the foreign
  key is looked for on the entity that holds the navigation.
* The relationship phase inserts before the Added phase, so that a dependent of
  an Added principal meets the server's foreign key.
* Changes are cleared after the relationship phase; a later phase that rolls back
  loses them, and so does `load_collection_tracked`, which replaces the wrapper.

*Writes.*

* An identity column that is no key is `updatable`, so that the server refuses
  every update; two fields may name one column; an entity with only key columns
  cannot be updated.
* `save` inserts a natural-key object whose row has been deleted meanwhile, and an
  object whose identity is 0.
* Soft-delete values that leave the first column `NULL` or false answer `true` and
  hide nothing (`docs/code-first.md:134`).  A deleted row can be updated and
  deleted again.  A soft delete gets no audit values.

*Queries.*

* `count()` carries the joins of its query, as `docs/aggregations.md:281` says;
  `docs/query-builder.md:221` says that it does not.  The two documents
  contradict each other, so `ResultsAgree` compares `count()` with `all()` only
  for queries without joins, and `exists()`, of which only the first speaks, for
  all queries.
* A literal in a `GROUP BY` key is numbered again and becomes another parameter
  in the projection; repeated aliases of projections, a page of size 0, and more
  parameters than the server takes reach the server.
* The policies of a root that was given an alias name the unaliased table.
* Rows whose nullable bit column is `NULL` are neither deleted nor live.

*Migrations.*

* `DROP TABLE` and `DROP COLUMN` are planned before the foreign keys and indexes
  that hold on to them are dropped; a column with a default cannot be dropped.
* The reversal of `CREATE SCHEMA dbo` is `DROP SCHEMA dbo`.
* A table created under a spent rename hint gets no indexes and foreign keys.  A
  column hint that names a kept column leads to two of them.
* A shorter length is not flagged when either side leaves it to the default
  (`main.rs:346`), and a smaller scale never is: `decimal(18, 4)` to
  `decimal(18, 2)` is run without `--allow-destructive` and rounds the values,
  where `docs/migrations.md:64` says that destructive plans are blocked.
  `LossesAreFlagged` leaves out these two and nothing else.
* A column of an index that becomes shorter, is retyped or changes its scale is
  planned as one `ALTER COLUMN`, which the server refuses while the index stands.
* After the rename of a computed column every further `migration add` on the same
  model fails: `columns_equal_for_diff` (`diff.rs:224`) forgets the rename hint of
  the current side only, so that the unchanged column is altered, and
  `migration.rs:325` refuses to alter a computed column.  For other columns the
  repeated plan has an `ALTER COLUMN` that changes nothing.
* A crash of `migration add` between its snapshot and `up.sql` loses the change:
  the next diff starts from the snapshot.
* The downgrade guard asks whether every applied id is known, not whether the
  history is a prefix (`docs/migrations.md:264`); two downgrades at once run
  `down.sql` twice when its statements allow it (`docs/migrations.md:258`).  An
  unapplied migration without a `down.sql` makes a downgrade fail
  (`docs/migrations.md:233`).

## Proofs

All theorems are about every value of the constants: any number of tasks,
connections, keys, handles, entities, statements or calls, and any set of faults,
unless a hypothesis is named.  They rest on the named assumptions of the modules
they are about (bounds are naturals, drivers and callers are disjoint, drivers
and clients finite, `None` is no value of the model, scenarios are made as told
above), which TLC evaluates in every run.

### DirectTransaction_proofs

* `TypeCorrect`: the invariant is `TypeOK /\ Guarded`.  `TypeOK` alone is not
  inductive, because a COMMIT counts a session down and `count \in Nat` needs to
  know that a transaction is open there.
* `DistinctScopes`: `ScopeInv` adds that every scope in use is at most
  `nextScope`, so that the next one is new.
* `DepthCounts`: the drivers inside their scope (`Inside`) grow only where the
  depth is raised, and a step moves one driver.
* `AtomicWithOneDriver`, `RuntimeIsTruthful` and `DirectImplementsContract` are
  about one driver, any number of outer operations and every fault, unanswered and
  dropped commands included.  `AtomicInv` says of the driver that its statements carry
  the numbers of its calls and that none was executed yet under the current number
  (`Numbered`), that the session is in a transaction while the driver is inside,
  of depth one while it is `sure`, and in none outside (`Counted`), and that until
  its end is decided the call's statements are pending in it (`Held`).  `Truthful`
  and `Told` add what scope, depth, retry option and verdict are at each place of
  the call, and that a transaction of depth one holds of the drivers' statements
  those of the call.  That there is one driver is necessary: two nest their
  `BEGIN`s (see *What the models show*).  Nothing is assumed of the faults; what
  an unanswered command leaves behind is in the statements, as `sure` and `doubt`.
  The retry option, the scope and that no part of a call becomes durable do not
  depend on `sure`.

### PooledTransaction_proofs

No hypotheses.  The invariant has six parts: `TypeOK`; `Possession`, a connection
is in the pool, in the slot or in one task's hands; `Ownership`, one driver at
most stands between install and clear, and the slot is its own; `Scoping`, a
stored scope is the owner's, or is left from a call that was dropped; `Servers`,
what is not in the slot is `Clean`, with its retries and, while it is `sure`, with
no transaction, and the owner's session is at each place of the call what the next
step expects; `Told`, the verdicts, and that a transaction opened by the owner's
own `BEGIN` holds of the drivers' statements exactly those that were executed for
its call.  The parts need each other: that connections go back clean
needs the owner to be alone on its session, which needs the slot's accounting.

* `PoolStaysSound`, `HandleAdmitted` and `OneSlotOwner` follow from it; the last
  also looks at every step that empties or abandons the slot.
* `PoolImplementsContract` is the refinement of `TransactionContract`.
  `StartTransaction` maps to the contract's `Call`, a statement that was executed
  to `Work`, `Commit` to `Commit`, or to `CommitInside` when it only ends an inner
  level, what ends in `Err` to `Abort`, `CommitUnanswered` to `Commit` or `Abort`,
  and `Cancel` to `Commit`, `Abort` or `LoseAnswer`, depending on how far the call
  was; all other steps stutter.  `OfDrivers` takes the outer operations out of the picture.

`SlotHasOneOwner` is stated with `Abandoned`: a slot left by a dropped future
stays occupied, which is no second owner and may last over the next calls.

### ChangeTracker_proofs

* `RegistryStaysSound`, `StatesStayAgreed`: no hypotheses; also with operations
  between the awaits of `save_changes`, failures and other clients.
  `RegistrySound` holds also after `save_changes` wrote through the address of a
  dropped handle; `StatesAgree` until then, because that write is what breaks it.
  `Sound` adds
  to the properties that registration numbers are handed out once
  (`IdsAllocated`), so that a handle that outlives its entry never finds another
  entry under its number.
* `SaveLeavesNothing` assumes that no operation runs while `save_changes` awaits
  (`DuringSave = {}`); `TrackerRegistry` shows what happens otherwise.  `SaveInv`
  says that the work list holds attached entries that are still registered with
  the handle they were listed with (`TodoSound`), and that the phases behind left
  no entry of their state (`PhasesDone`).
* `TrackerStaysFaithful`, `IntentAlwaysSurvives` assume `Undisturbed`: besides
  that, nothing fails, because a rolled back row leaves its entry `Unchanged`, and
  `mark_unchanged`, `save` and `delete` of a handle are not used, because they
  accept values or write rows past the registry's snapshots.  This is more than
  `TrackerIntent` runs: `detach` and `clear` are among the operations.
  `IntentInv` says that an entry keeps the key of its row and is the only one with
  it (`KeysKept`), what the row holds in each state (`RowsKnown`), and that the
  value taken before a statement is still the entry's after it (`ItemSound`).

### SaveOrder_proofs

* `PlanLeast`, `CycleMeansNoPlan`: for any number of entities and tables.  `Inv`
  says that `incoming` counts the parents not visited yet (`Counting`), that
  `ready` is the set of those that have none left (`ReadyIsNext`), that nothing is
  visited twice or before its parents, and that each visited entity was the
  smallest possible (`Smallest`).  `PlanLeast` then compares the order with
  another plan at the first place where they differ; `CycleMeansNoPlan` shows that
  the first entity of a plan that was never visited would have been ready.

### Executor_proofs

* `WritesAppliedOnce`: `Inv` has eight parts.  `Typed` and `InFlight` type the
  state and tie the awaited call to the connection: a second attempt is a read.
  `Effects` says that only the awaited write can have run without being recorded.
  `Open` says that, while the program lost no transaction, one is open only behind
  a handle or a BEGIN whose answer is on its way; `Handles` that a handle belongs
  to one BEGIN and ends once; `Held` that the writes answered through the open
  handle are all pending.  `Promised` is what an answer on its way must already
  have made true, and `Kept` the same of the answers given.  `Promised` is needed
  because the server executes in one step and the caller learns of it in a later
  one.
* `CallsStayBounded`: `Retrying` bounds the attempts by the retries a call was
  given, and says that a handle gave it none; `Delaying` ties the delays slept to
  the attempts and the age to the timeout.  That delays grow, saturated or not,
  rests on `DoubledGrows`, which is proved by induction over a set of naturals
  (`Induction`): `Doubled` is a recursive function, whose existence is proved
  first (`DoubledIs`).
* `AttemptsAreLogged`: `Logging` relates the events of the awaited call to its
  attempts, one start for each, one end for each but the last.

`ReadOnlyIsIdempotent` is the caller's obligation on `read_only()`.

### MigrationHistory_proofs

`Sound` is what every step keeps, with no hypothesis.  `Plans` is about the
directory: a `down.sql` that is not the template undoes its `up.sql`, and unless a
plan was lost each migration leads from the snapshot before it to its own
(`ChainSound`), also between the files that `migration add` writes one by one.
`ScriptsSound` is about the server: a script's blocks are the files', an open
transaction has touched what its statements so far name, and no object is touched
by two (`LocksApart`).

* `ScriptsRunInOrder`: for every number of clients that update or downgrade.
  `InOrder` says of a script that no other one met where it stands: the
  migrations that an update left behind are applied with the checksums of the
  files, those that a downgrade left behind are gone.
* `HistoryStaysSound` assumes `OneDowngrader`: the downgrades are all one
  client's; updates may be anybody's.  The hypothesis is necessary: with two
  clients that downgrade and two migrations that create and drop one object, TLC
  finds one `down.sql` run twice.  `DownChecked` says that a downgrade's row is
  still there when its transaction commits, with the checksum it looked at.
  `NothingTorn` follows from what a commit adds to the committed database
  (`RecordCommits`) and to the runs (`ReplayIs`); everything else leaves both
  alone (`OthersCommitNothing`).  For `SchemaIsSnapshot` neither is enough,
  because scripts commit in an order that the files do not tell: `Balanced`
  counts, whatever the order was, the rows of the history that create an object
  and those that drop it.  The files up to a migration add up to its snapshot in
  the same way, by induction along the chain (`PlansAddUp`), and two databases
  that the same rows add up to are the same (`BalancedOnce`).

### EntityWrites_proofs

No hypotheses: for every set of declarations, rows, inputs and contexts that
satisfies `ScenarioAssumption`, any number of clients and any interleaving of
their statements.

The proofs begin with the code of the macros.  `DeriveErrors(d) = {}` is turned
into `WellMade` metadata (`MetadataWellMade`): columns of distinct names, a key,
insertable columns that the server does not own, a tenant column that is plain
and never updated.  This is where the collision checks of `derive(Entity)` are
used, and all that later proofs know of a table.  Then come the lookups, the
values of a write and the statements: what is sent for a call (`Sent`, `Asks`)
assigns only fitting columns, and its `WHERE` has the key, the token and the
tenant.  Iterators (`find`, `filter`) are `FirstAt` and `Those`; their facts need
least elements of sets of naturals, which `WFMin` gives without an induction
scheme (`LeastIndex`).

* `TablesStaySound` is the inductive invariant, in six parts.  `TheTable`: the
  metadata never changes.  `HandsOut`: identities and rowversions only grow.
  `Rows` and `Objects`: rows and objects have their columns, and what they hold of
  rowversions and identities was handed out before; keys are distinct.  `Calls`:
  a save that looked its key up has an object with a natural key; behind a miss no
  row that the call can reach has its token (`Outdated`).  `Bounded`: `steps`
  exceeds `MaxSteps` by at most two for each client, which takes counting the
  calls in progress and those with a statement left (`Busy`, `Going`).
  `TypeOK` alone is not inductive: its bound on `steps` needs that count, and its
  rows the metadata that `TheTable` fixes.  `Rows`, `Objects` and `HandsOut` are
  there for `Calls`: a version written behind a miss is new because every token
  was handed out before.
* `WritesAreConfined`: a row that changes was matched by the statement of one
  client (`Rewrote`, `Erased`) or is what the server made of its `INSERT` (`Put`),
  and `Reached`, `TenantInserted` and `TenantUnchanged` say whose rows those are.
* `AnswersAreTrue`: `OkMeansWritten` and `SoftDeleteKeeps` follow step by step;
  `MissExplained` needs `Outdated` to survive the other clients: a row that
  changes behind a miss gets a version that no token holds.  `AuditPrecedence`
  goes through the two `append_missing` of `apply_audit_values` (`AuditSources`).
* `WritesStaySound` adds to the types that what was saved is the row and, for
  every refusal of the server, the part of the declaration or of the input that
  explains it (`InsertExplained`, `UpdateExplained`).

The attempt to prove these corrected the model and two properties.  The tenant's
field takes none of the attributes that would give it a default, or say when its
column is written (`TenantFieldFits`): without that a tenant could be updated.
`AuditPrecedence` had to tell rows of composite keys apart (`SameKey`).
`RefusalsExplained` had to name the `NULL` that a soft-delete provider adds for a
column outside its policy, which is not checked before it is sent (`StrayNull`).

### Only model-checked

* Liveness (`CallsReturn`, `CallsEnd`, `ScriptEnds`), which needs fairness.
* Queries (`PoliciesHold`, `ResultsAgree`, `IncludesComplete`, `TreesSound`): the
  trees are read by recursive operators, whose meaning the provers have no access
  to, and what holds of every tree takes an induction over trees.
* Migration plans (`PlanRuns`, `PlanLeads`, `DownRestores`, `LossesAreFlagged`): a
  plan is a concatenation over any number of tables, and that each of its
  statements finds what it needs is an induction along that data.
* `TrackerFollows`, `RelationshipsSaved` and `RefusedKeepsChanges` of
  `Relationships`: commands are reconciled by folds over the logs of the wrappers.

## Not modelled

* Transactions: the wrap of the scope counter after 2^64 of them
  (`allocate_transaction_scope` skips 0); a closure that goes on after an error
  that ended the server's transaction.
* Tracker: what a statement without an answer wrote, and a transaction that
  `save_changes` leaves open (the transaction modules have both); composite and
  edited keys, edits of a handle in the middle of
  `Tracked::save`, several entity types in one `save_changes` (their order is
  what `SaveOrder` is about).
* Migrations: precision, collation, the order and uniqueness of an index, and the
  rows of a table, but for whether they can be in a statement's way.
* Queries: which placeholder a value meets in the text of a statement.
* The statement splitter of downgrade scripts (`filesystem.rs:429`), which works
  on text.  Reading it, two things stand out: a `GO` on the line on which a
  multi-line literal or comment ends is taken for a separator, and comments that
  nest are not understood.
* Raw SQL: the scan of its text and its hints; only the count of its parameters
  and its execution class are in `Executor`.
* Text: of SQL and DDL, its quoting, error messages, logging and the slow-query
  log; connection strings; the conversion of values and rows, but for whether a
  row fits.
* The command line's arguments, the export of the model and the migration list.
* The derive macros' parsing of attributes and their generated `FromRow`, but
  for which fields take `NULL`.
* Functions marked unsafe, the escape character of `LIKE` given by the caller,
  overflow of page numbers.
* Soft-delete providers that do more than append values; two fields of an entity
  that name one column.
* The example application.
