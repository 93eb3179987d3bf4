# libc2sql in TLA+

A verification project for libc2sql, the C11 library that maps structs to rows
of SQLite or PostgreSQL tables. The modules model the parts of the library that
keep state, TLC checks them on small instances, and TLAPS proves the central
facts about transactions, handles, struct registration and the capacity guard
for every instance. Source paths below are relative to `src/`.

## The system

A client opens a handle (`SqlRDBInit`), registers structs, writes, reads and
deletes rows, groups calls in transactions and closes the handle. Everything a
handle owns hangs off `struct SqlRDBHandle` (`src/handle_internal.h`).

| part | state | operations | what makes it hard |
|---|---|---|---|
| handle lifecycle (`src/c2sql.c`) | global list of live handles and its lock, `magic` | `SqlRDBInit`, `SqlRDBClose`, the validity check of every call | Close takes no handle mutex; it looks up and removes in two critical sections; addresses are reused |
| mutex (`src/mutex.c`) | lock, `threadsafe` switch | lock, unlock; `SqlRDBSetConfig` flips the switch | the switch is read outside the lock it guards |
| transaction manager (`src/c2sql.c`, `src/txn_manager.h`) | `depth`, `sp_names` | `BeginTx`, `CommitTx`, `RollbackTx` | nesting through savepoints; two copies of the stack, one here and one in the engine; every statement can fail |
| write calls (`src/c2sql.c`) | the database | `Write`, `WriteMany`, `Delete`, `WriteBlobField` | implicit transaction of `WriteMany`; batches that stop halfway |
| statement cache (`src/stmt_cache.c`) | LRU list and hash table over the same entries, capacity | get, put, rebuild, destroy | pointer surgery, collisions, eviction, running out of memory |
| statement ownership (`src/c2sql.c`) | open statements | `get_or_prepare`, `release_cached_stmt`, `ReadMany`, `StmtFree` | cache, running call or iterator must finalize each statement, once |
| schema registry (`src/schema_registry.c`) | array of schemas | register, lookup, unregister | iterators keep pointers into the array |
| migration (`src/migration.c`) | the tables of the database | CREATE, read the layout, compare, ALTER, compare again | several statements, no transaction around them, other processes doing the same |
| capacity guard (`generated/sessions_schema.c`, `tools/c2sql_gen.py`) | none of its own | count, count, write | three calls that interleave with other clients |
| drivers (`src/sqlite_driver.c`, `src/postgres_driver.c`) | connection | the vtable of `src/db_driver.h` | what the engine does on failure: SQLite undoes a statement or the transaction, PostgreSQL refuses everything until a rollback |
| read calls and iterators (`src/c2sql.c`) | the client's buffers, the cursor | `Read`, `Count`, `ReadMany`, `StmtNext`, `StmtFree`, `ReadBlobField` | what may be written into the buffers, and when; a table that changes under a cursor |
| condition AST, query builder (`src/condition_ast.c`, `src/query_builder.c`) | heap nodes | constructors, build text | two walks over one tree, one writes placeholders and one binds values |
| type mapping (`src/type_mapping.c`) | none | bind and read a row | terminator, truncation, integer width, NULL bitmap |
| error context, logger | last code and message | set, `SqlRDBLastError` | not every error is recorded, not every access is locked |
| generator, linter, build scripts (`tools/`) | files | render text | sequential |

Calls on one handle exclude each other through the handle mutex, so inside a
handle a call is one step; handles meet in the database, threads meet in the
mutex, the live-handle list and the transaction stack of a shared handle. The
models are cut along these lines.

## Modules

| module | models | notes |
|---|---|---|
| `SqliteConn` | a connection as `sqlite_driver.c` drives it | driver calls as operators from a connection to its possible outcomes `[r, c]`; the constant `Faults` says which failures the engine may answer with |
| `PostgresConn` | a connection as `postgres_driver.c` drives it, and the choice of the driver | extends `SqliteConn`; adds the failed transaction |
| `Txn` | transaction manager and write calls of one handle, over either driver | one action per API call; `txn` is `h->txn`, `conn` the connection and the database, `error` is `h->error.code` |
| `NestedTx` | what transactions promise: a stack of saved contents | abstract; `Txn` implements it (`RefinesNestedTx`) |
| `TxnRecovery` | `Txn` with a client that may answer a failure by rolling back all the way | for the liveness property |
| `TxnProofs` | theorems about `Txn` | TLAPS |
| `HandleThreads` | threads calling on shared handles | program counter per thread: validity check, lock, wait, body, unlock; Close in five steps; memory of a freed handle may hold anything |
| `HandleThreadsProofs` | theorems about `HandleThreads` | TLAPS |
| `StmtCache` | `stmt_cache.c` at pointer level | operators on a cache record: nodes with `lru_prev`, `lru_next`, `bucket_next` |
| `Statements` | who owns a statement | `get_or_prepare` and `release_cached_stmt` are separate steps, so a statement in use is a state |
| `LruCache` | what a cache promises: texts by recency | abstract; `Statements` implements it unless a resize fails (`LruUnlessResizeFails`, `RefinesLru`) |
| `SchemaRegistry` | `schema_registry.c` | operators on a registry record; an entry is its position in the array |
| `Registration` | `SqlRDBRegisterStruct` and `migrate_table` on several handles | one action per SQL statement of the migration, both dialects: CREATE, the columns, then the keys and the UNIQUE constraints (PostgreSQL) or the list of indexes and each index (SQLite), the STRICT query with the comparison, each ALTER |
| `RegistrationSteps`, `RegistrationTypes`, `RegistrationRegistries`, `RegistrationProofs` | theorems about `Registration` | TLAPS: the invariants and what each step does; types; the registries; the tables and the theorems |
| `CapacityGuard` | the generated guarded write between `BeginTx` and `CommitTx` | with and without a primary key; every call may fail, and a failed `RollbackTx` leaves its level on the stack; clients on handles of their own or on one shared handle; SQLite's locks in both journal modes, PostgreSQL's READ COMMITTED |
| `CapacityGuardTypes`, `CapacityGuardProofs` | theorems about `CapacityGuard` | TLAPS: types and the depth of the stack; locks, counts and the theorems |
| `QueryBuilder` | conditions, the text made of them, the values bound to it | `append_cond` and `bind_cond_values` are separate recursive walks as in the code; `Parses` and `Holds` are the engine's reading of the text, `Means` the reference meaning of the tree |
| `TypeMapping` | `type_mapping.c` | members are integers or sequences of bytes, a bitmap a set of columns |
| `DataCalls` | the calls that move rows, over either driver | one action per API call, two for `WriteBlobField`; `said` is what the writers said, the reference for `table`; `ret` the answer with the buffers before and after |
| `MC...` | values for the constants | |

`SqliteConn` and `PostgresConn` are used by `Txn` through EXTENDS, as `StmtCache`
by `Statements`, `SchemaRegistry` by `Registration`, and `QueryBuilder` and
`TypeMapping` by `DataCalls`: the lower module has the operators, the upper one
the state. Operators whose names end in `_Something` next to the
operator they resemble are faulty variants: each is a plausible slip in the code
that one of the properties must catch.

### Abstractions

* In `Txn` a condition is the set of keys it selects, a batch the rows it leaves, a
  savepoint name `sp_<n>` the number n (the format is injective, and fits its
  buffer for every depth).
* A name is a model value with a length and its form in lower case (`Fold`), because
  only its validity, equality, length and case matter to registration. Two
  equalities of the engines are kept out by assumption (`Plain`): PostgreSQL cuts
  a name after 63 characters, and SQLite takes names that differ in case for one.
* The result codes of `RegisterStruct` are one failure: what it leaves behind is the
  same. In `SqliteConn` both failure codes of `map_error` are `ERR_DRIVER`
  (SQLITE_NOMEM is `ERR_NO_MEMORY` in the code): no caller of the transaction
  operations tells them apart.
* Unlocking a mutex that another thread locked is undefined: it is released or stays
  locked. The code does so when one thread switches the mutex off and another
  switches it on, or when switches overlap; a client without `"switch"` in
  `Freedoms` makes both switches in one thread.
* Hash values come from a constant function with collisions.
* SQL text is a statement kind with the lists the builder writes (columns,
  placeholders, the columns of ON CONFLICT, the tokens after WHERE); quotes,
  commas and fixed words are left out.
* An `INT32` member has 2 bits instead of 32 (`Int32Bits`), TEXT and BLOB members
  have two bytes. The driver's conversions to PostgreSQL's text format and back
  are taken to be exact.
* A failed call is abstracted to its result code and to what it has changed.
  Refusals before the database is reached (bad arguments, unknown struct, the
  query builder, prepare) are one alternative of each call.
* The engines are external and modelled from their use: autocommit and savepoint
  stack, SQLite's locks without busy timeout, STRICT tables and ADD COLUMN,
  PostgreSQL's catalog, failed transactions and READ COMMITTED, evaluation of a
  WHERE clause.

## Runs

All runs finish within three minutes on two cores.

| run | checks | bounds | shows |
|---|---|---|---|
| `txn_nominal` | `TypeOK`, `NoTxAtDepthZero`, `RefinesNestedTx` | both drivers, 2 keys, depth 3, writing statements may fail on SQLite | transactions nest: a rollback restores what its begin saw, only the outermost commit publishes; Close, crash and reopening included |
| `txn_faults` | `SavepointStack`, `FailureKeepsDatabase`, `CommitsOnlyAtDepthZero`, `UnwindEnds` | the same, writing statements and transaction statements may fail on both drivers | depth and the engine's stack agree, failures change nothing that is committed, a client that rolls back gets out |
| `handle_shared` | `TypeOK`, `OneCallInside`, `LockIsReleased`, `TornDownOnce`, `NoUseAfterFree`, `CallsReturn` | 2 threads, 2 addresses, 3 calls each, 2 handles | threads that close or reconfigure a handle only when nobody else uses it are safe, also when an address is reused and Close is called twice |
| `statements_nominal` | `TypeOK`, `ListAndTable`, `OwnedOnce`, `RightStatement`, `LruUnlessResizeFails` | 4 texts with collisions, 4 statements, capacities 0 to 3 | the two structures agree, no statement leaks or is finalized twice, the cache is LRU up to a resize that fails |
| `registration_race` | `TypeOK`, `RegisteredIsPrefix`, `AnswersAreKept`, `IteratorEntryStays`, `OwnTableMatches` | 2 handles with versions of one struct, with keys and UNIQUE columns added later, or with a name PostgreSQL folds, on several initial databases; one client with 12 structs, valid and not, with names of the greatest length; both dialects, 1 iterator, 1 restart each, statements and allocations may fail | what was answered with OK stays true whatever the others do; removal after a failed migration disturbs no iterator; a new table passes its own comparison except for three kinds of columns |
| `registration_retry` | `RetrySucceeds` | 2 handles, 2 missing columns, both dialects, 1 restart each | concurrent migrations end well if clients retry |
| `guard_own` | `TypeOK`, `CapacityBound`, `AcknowledgedStays` | 3 clients with a handle each, 4 keys, limit 1, 5 guarded writes in all, depth limit 2, with and without a primary key, any call may fail, SQLite in both journal modes and PostgreSQL | wrapped in a transaction the limit is strict on SQLite; on PostgreSQL each of the other clients can exceed it by one row and no more; no acknowledged row is lost |
| `data_calls` | `TypeOK`, `RowsAsAsked`, `TableAsSaid`, `OutputsKept`, `ReadsBack`, `SweepComplete`, `OneBlobWritten` | both drivers, 3 schemas of 2 columns over the five types, 2 rows, conditions of up to three leaves, fresh and used buffers, one iterator, another program writing, statements and allocations failing | the rows a call acts on are the ones its condition means, the table holds what was said, what is read is what was written, buffers change only when they may |
| `txn_stray` | `NoTxAtDepthZero` violated | COMMIT may answer BUSY | `WriteMany` drops the result of COMMIT |
| `txn_postgres` | `CommitKeeps` violated | PostgreSQL, writing statements may fail | COMMIT of a failed transaction rolls back and is answered with OK |
| `statements_resize` | `RefinesLru` violated | as `statements_nominal` | a resize that runs out of memory has already evicted |
| `data_null` | `NullMember` violated | as `data_calls` | `Read` zeroes the member of a NULL column |

### Why the bounds are enough

* Depth 3 has all the cases the code tells apart: depth 0, 1 (BEGIN), above 1
  (SAVEPOINT), below and at the limit; two savepoints so that one can be released
  while another stays. The theorems cover every depth.
* Two threads give every pair of calls, three calls each cover close, close again
  and use of a reused address. Two addresses let a handle be opened while another
  is alive or where an old one was.
* Capacity 3 with four texts fills the cache, evicts head, middle and tail
  positions, and shares buckets; `MinBuckets` is 2 instead of the code's value so
  that resizing changes the number of buckets.
* The registry's array starts with room for 1 instead of 8 so that it grows twice.
* A limit of 1 with four keys and three clients lets every client find the last
  place free, and leaves a key for a row beyond the bound; five writes let a client
  try again. With a depth limit of 2 instead of 16 a client whose `RollbackTx`
  failed twice is refused the next level.
* Two rows of two columns are enough for none, one and several matches, for a
  column before and one after the one that fails, and for rows that differ in the
  key only or in the other column only. Conditions of three leaves have every
  nesting of AND and OR that needs its parentheses; every operator and every type
  of leaf occurs. Sweeps run over the two schemas with a key; on the third only a
  text the engine refuses is opened (`MCIterConds`). While an iterator is open rows
  of both keys are written and any row is deleted, fewer buffers are tried, and the
  calls with a condition are tried on the BLOB schema only (`MCInputs`, `MCConds`,
  `MCBuffers`).
* Keys, and clients with their handles, are interchangeable in `CapacityGuard`, handles
  in `Registration`, statements in `Statements`: these are the symmetry sets. No run with symmetry checks a liveness property.
* Deadlock is checked except where clients make a bounded number of calls and then
  stop (`HandleThreads`, `CapacityGuard`).

### Fairness

* `HandleThreads`: weak fairness per thread for the steps inside a call. The
  operating system runs every thread, and a mutex that is free is granted; a
  thread makes at most `MaxCalls` calls, so nobody overtakes a waiter for ever.
  Starting a call is not fair.
* `TxnRecovery`: weak fairness for a `RollbackTx` that succeeds. The client keeps
  calling, and a ROLLBACK, ROLLBACK TO or RELEASE that can succeed does not fail
  for ever.
* `Registration`: `RetrySpec` has weak fairness for the registration steps of each
  handle: a call in progress goes on and a client that failed tries again. In that
  run statements fail only for reasons in the tables.

## Disagreements

Four runs show that the code does not do what a comment or document says
(`txn_stray`, `txn_postgres`, `statements_resize`, `data_null`); the quoted lines are
in `PROJECT.json`. The same models show more, by changing a constant or an
invariant of the run named:

* `handle_shared` with `Freedoms = {"close"}` refutes `TornDownOnce`: Close looks
  the handle up and removes it in two critical sections and does not look at what
  it removed (`src/c2sql.c:204`), so two overlapping calls tear the handle down
  twice. `include/c2sql.h:178` says "Double-close returns
  SQL_RDB_ERR_INVALID_HANDLE."
* `handle_shared` with `Freedoms = {"switch"}` refutes `LockIsReleased`: a thread that
  switches on a mutex that another thread has switched off unlocks a mutex it does
  not hold (`src/c2sql.c:252`), which may then stay locked.
* `handle_shared` with `Freedoms = {"config"}` refutes `CallsReturn`: `SetConfig`
  switches the mutex off while it holds it (`src/c2sql.c:252`), so it never
  unlocks it and a call that is already waiting stays there. `include/c2sql.h:374`
  says "Safe to call after SqlRDBInit()".
* `handle_shared` with `Freedoms = {"stale"}` refutes `NoUseAfterFree`: only Close
  asks the live-handle list, the other calls read `magic` in freed memory
  (`docs/api-guide.md:533` promises `SQL_RDB_ERR_INVALID_HANDLE`).
* `txn_faults` with `"abort"` in `Faults` refutes `SavepointStack`,
  `CommitsOnlyAtDepthZero` and `UnwindEnds`: when the engine rolls a transaction back
  by itself (SQLITE_FULL, SQLITE_IOERR) `depth` stays and `RollbackTx` can never
  succeed again (`docs/api-guide.md:396`).
* `txn_faults` with `"pg_commit"` in `Faults` refutes `SavepointStack`,
  `CommitsOnlyAtDepthZero` and `FailureKeepsDatabase`: a COMMIT that fails has ended
  PostgreSQL's transaction, `depth` stays at 1, and until the client calls
  `RollbackTx` every write is committed by itself. `UnwindEnds` still holds.
* `guard_own` with the invariant `Cardinality(rows) <= MaxRecords` fails on
  PostgreSQL: `pg_begin` sends a plain BEGIN, which is READ COMMITTED
  (`src/postgres_driver.c:105`), so clients that have counted before the last place
  is taken all write. `docs/api-guide.md:260` says to wrap the guarded write in
  `BeginTx` and `CommitTx` for a strict limit.
* `guard_own` with two clients on one handle, on SQLite, refutes `CapacityBound` and
  `AcknowledgedStays`: the threads share the handle's transaction, so both count
  before either writes, and a row whose `CommitTx` answered OK is undone by another
  thread's `RollbackTx` (`docs/api-guide.md:491`).
* `data_calls` with `"nullmap"` in `Faults` refutes `ReadsBack`: without memory for
  the copy of the bitmap `Read` answers OK and reports no NULL (`src/c2sql.c:663`).
* `data_calls` with `"nodes"` in `Faults` refutes `RowsAsAsked`: a client that does
  not test what a condition constructor returned passes NULL, and `Read`, `ReadMany`
  and `Count` take it for every row. `Delete` and the BLOB calls refuse it.
* `OneBlobWritten` of `data_calls` without its two conditions fails: another program
  that adds or deletes a matching row between the two statements of
  `WriteBlobField` makes it change two rows, or none, and answer OK
  (`include/c2sql.h:293`: "0-match -> NOT_FOUND, 2+-match -> MULTIPLE_ROWS").
* `OwnTableMatches` of `registration_race` names the columns (`Misread`) for which
  `RegisterStruct` refuses the table it has just created: a column name of 128
  characters and, on SQLite, a UNIQUE column of a table with a name of 77, which are
  allowed (`docs/api-guide.md:102`) but do not fit the buffers of
  `src/migration.c:87` and `:149`; and a nullable primary key that the engine makes
  NOT NULL, that is one that is not INTEGER in a STRICT table, and every one on
  PostgreSQL (`src/migration.c:385`).
* `RegisteredIsPrefix` and `OwnTableMatches` say nothing of the keys of a table whose
  name has upper-case letters on PostgreSQL: its columns are read by its name, its
  keys through `$1::regclass` (`src/migration.c:338`), which folds the name to lower
  case. The call fails if no table has the folded name, and takes the keys of that
  other table if one has; without the exception (`CatalogTable`) TLC refutes both.

And these are read off the source while modelling, without a run:

* An open iterator points into the array of schemas, which registering one more
  struct may reallocate (`src/schema_registry.c:126`); `src/schema_registry.h:72` says
  "valid until the registry is destroyed". The model has positions and no addresses.
* `Read` for a single row also zeroes members that are not registered
  (`src/c2sql.c:688`).
* A `WriteMany` that fails inside an explicit transaction leaves the rows before the
  failure in it (`FailBatch`): `docs/api-guide.md:148` says that one row's failure
  rolls all rows back, which is true of the implicit transaction only; `:416` says that
  the call joins an outer one.
* `StmtNext` after its end starts the query again on SQLite (`sqlite_step` of
  `DataCalls`) and stays at the end on PostgreSQL; `include/c2sql.h:257` says
  "Returns SQL_RDB_ERR_NOT_FOUND at end." The loop of `docs/api-guide.md:190` also
  ends at the first row that is answered with `SQL_RDB_WARN_TRUNCATED`.
* COND_ALL below AND or OR gives text the engine refuses, with `SQL_RDB_ERR_DRIVER`;
  so does an UPSERT of a struct whose only column is its key (`Accepted`).
* A REAL that is not a number is stored as NULL by SQLite (`bind_one`); `NaN` is not
  among the values of `data_calls`.
* A second Close of a handle whose address was given out again closes the new
  handle (`src/c2sql.c:127`); `HandleThreads` allows it.
* Registering a name again is refused, not validated (`src/schema_registry.c:201`;
  `include/c2sql.h:188`).
* Several errors do not reach the error context (`Refused`, `NoActiveTx`,
  `WriteMany` and `Delete` of `Txn` show which; `include/c2sql.h:7`), and
  `SqlRDBLastError` takes no lock (`Peek` of `HandleThreads`; `docs/design.md:181`).
* The NULL bitmap of `StmtNext` and `Read` is never cleared, so one that is used for
  several rows keeps old bits; `ReadsBack` allows them.
* ADD COLUMN of a UNIQUE column is always refused by SQLite; the list of failing
  cases in `docs/maintenance-guide.md` does not have it (`CanAdd`).

## Proofs

The theorems hold for every value of the constants that satisfies the named
assumptions, so for any number of threads, handles, clients, keys and requests.
A hypothesis in the tables is an `ASSUME` of the theorem itself.

### `TxnProofs`

| theorem | statement | hypothesis |
|---|---|---|
| `TypeCorrect` | `Spec => []TypeOK` | none |
| `StackCorrect` | `Spec => []SavepointStack` | no transaction ends unasked: SQLite does not roll back by itself, PostgreSQL's COMMIT does not fail (`"abort"` and `"pg_commit"` are not in `Faults`) |
| `DepthZeroCorrect` | `Spec => []NoTxAtDepthZero` | SQLite's transaction statements do not fail (`"commit"` and `"exec"` are not in `Faults`); no hypothesis about PostgreSQL |

All three are about both drivers. The hypotheses are needed: TLC refutes the
conclusions without them (`txn_stray`, and `"abort"` and `"pg_commit"` above).

`TypeOK` is inductive with the driver's outcomes typed first: for each driver
call a lemma says that its outcomes are connections, and one step per API call
puts them together.

`SavepointStack` is not inductive: it leaves open what `SqlRDBInit` finds after
Close or a crash. The inductive invariant `StackIInv` adds `TypeOK` and
`ClosedIsIdle` (a closed handle has left no transaction behind). Two facts carry
the proof. A call that fails leaves the connection as it was, or the same
transaction marked as failed (`Kept`), so the stack is what it was. And the
innermost savepoint is the newest one of its name, since the names on the stack
are pairwise different: RELEASE and ROLLBACK TO then touch the last mark and no
other.

`NoTxAtDepthZero` needs `ClosedIsIdle` for reopening a handle, and the facts that
BEGIN opens, COMMIT and ROLLBACK close, and a statement that fails with
"abort" closes a transaction, all of which are lemmas on the two connections.

### `HandleThreadsProofs`

| theorem | statement | hypothesis |
|---|---|---|
| `TypeCorrect` | `Spec => []TypeOK` | none |
| `HandlesTornDownOnce` | `Spec => []TornDownOnce` | Close does not overlap other calls on its handle (`"close"` is not in `Freedoms`); closing twice and using a closed handle are allowed |
| `HandlesUsedWhileAllocated` | `Spec => []NoUseAfterFree` | the client neither overlaps Close nor uses a closed handle (`Freedoms` has at most `"config"`) |
| `MutexIsReleased` | `Spec => []LockIsReleased` | `SetConfig` overlaps no other call on its handle, and the thread that switched the mutex off switches it on (`"config"` and `"switch"` are not in `Freedoms`) |
| `MutualExclusion` | `Spec => []OneCallInside` | `Freedoms = {}`: the client keeps all the rules |

Each hypothesis is a rule the client keeps; Disagreements has what TLC finds in
`handle_shared` when a rule is dropped.

`LiveInv` says what Close relies on between its steps: a handle that passed
`live_contains` stays in the list until this Close removes it, and its memory stays
allocated until this Close frees it. It is inductive together with `CloseAlone` (nobody
else is in a call on the handle), without which another Close could run in the
gap. `TornDownOnce` follows because a teardown takes the handle off the list and
only `SqlRDBInit`, which is counted, puts an address on it. `HeldInv` adds that
the pointers a client still holds are allocated. `MutexInv` is needed for mutual
exclusion because `threadsafe` is read twice, at lock and at unlock: calls share a handle
only while it is threadsafe, and then the one under the mutex is its owner.
`LockInv` adds to `LockIsReleased` that a SetConfig has its handle to itself, and that one
that switches the mutex on finds it free or its own, so that nobody unlocks another
thread's mutex.

### `CapacityGuardTypes` and `CapacityGuardProofs`

| theorem | statement | hypothesis |
|---|---|---|
| `GuardTypeCorrect` | `Spec => []TypeOK` | none: handles of their own or one shared handle |
| `CapacityHolds` | `Spec => []CapacityBound` | `OwnHandle`: every client has a handle of its own |
| `AcknowledgedWritesStay` | `Spec => []AcknowledgedStays` | `OwnHandle` |

`TypeOK` bounds the depth of a handle by `C2SQL_MAX_TX_DEPTH`, also when rollbacks
fail and levels pile up. `GuardInv` adds what the stack holds: at least a level for each
client of the handle that is inside its transaction, on PostgreSQL no other, and a
savepoint for each level but the first.

For `CapacityBound`, `SqliteInv` is about locks: there is one writer; a reader that may
still become the writer sees the committed rows, its snapshot is otherwise marked
stale and the upgrade is refused; and the counts a client holds are counts of what
it sees. So the row that is written fits. On PostgreSQL counts can be stale, and
the argument is by counting: `Adders` are the clients that found room or have
written a new key, and rows plus adders never exceed the limit plus the number of
the other clients (`PostgresInv`). A client becomes an adder only while there is a free place,
and a commit turns one adder into at most one row. Both parts use `OwnInv` (a transaction
that was not left open by a failure has no locks and rows until its client counts; what
an OK promised is in the database or below the innermost savepoint of a transaction
that was left open), where `OwnHandle` enters.

### `RegistrationSteps`, `RegistrationTypes`, `RegistrationRegistries`, `RegistrationProofs`

| theorem | statement | hypothesis |
|---|---|---|
| `RegistrationTypeCorrect` | `Spec => []TypeOK` | none |
| `RegistryMatchesAnswers` | `Spec => []AnswersAreKept` | none |
| `IteratorsKeepTheirEntry` | `Spec => []IteratorEntryStays` | none |
| `RegisteredStructsFit` | `Spec => []RegisteredIsPrefix` | none |

They hold for any number of handles, any requests, both dialects, with statements
that fail, memory that runs out, restarts, and every interleaving of the handles'
migrations. The assumptions are those of `SchemaRegistry` and `Registration`: limits are
positive, tables found in the database have columns with different names, and the
engine takes names as they are (`Plain`: at most 63 characters on PostgreSQL, lower case
on SQLite). `RegisteredIsPrefix` is about the keys of a struct only if PostgreSQL does not
fold the name of its table.

The invariant `RegInv` is a conjunction because the four properties need each
other's strengthenings:

* `PendingInv`: the entry of the struct that is being registered is the last one of the
  array, and the names in the array differ. Then `registry_unregister`, which looks
  the name up and moves the entries behind it, removes the last entry and moves none.
* `KeepInv`: the entries before the pending one are the structs that were answered
  with OK, and as many. `IterInv`: iterators point to such entries.
* `SnapshotInv`: what a handle has read of a table still describes the first columns of
  the table, after each of the statements that read it, whatever other handles have
  added since; tables only grow at their end (`TablesGrow`). Keys are known from the
  second statement on, and are those of the table if its name is not folded.
* `PrefixInv`: registered structs agree with the first columns of their table. The step from
  a snapshot that passed `compare_columns` to `PrefixInv` is where the comparison of
  the code is used.

### Only model-checked

* The refinements `RefinesNestedTx` and `LruUnlessResizeFails`, and the action properties
  `FailureKeepsDatabase` and `CommitsOnlyAtDepthZero`.
* Liveness (`UnwindEnds`, `CallsReturn`, `RetrySucceeds`): fairness is outside the
  prover's reach.
* `OwnTableMatches`, and `Statements` (`ListAndTable`, `OwnedOnce`, `RightStatement`).
* `DataCalls`: `QueryBuilder` has recursive operators, which the prover does not take.

## Not modelled, and the plan

* `RegisterStruct` inside an explicit transaction that is rolled back:
  `Registration` is modelled outside explicit transactions.
* A lost connection. The libpq connection is never reset, so every later call
  fails; what the client sees of a COMMIT whose answer was lost is not in the model.
* Memory: who frees condition nodes (`CondAnd` and `CondOr` do not free their
  operands when they fail), the parameters and results of a PostgreSQL statement,
  growth of the text buffer.
* Struct layout (offsets, padding, members that are not registered), number
  formatting, lengths beyond the range of int, and cache capacities beyond half
  the range of size_t, for which `next_pow2_at_least` does not end.
* Addresses of the schema array: an iterator's pointer is a position.
* The error message; the code of the last error is in `Txn`, and `HandleThreads` has
  the unlocked access to it.
* The logger calls a client function and has no state. The generator's text
  rendering, the linter and the build scripts transform files sequentially.

To be proved next: the action properties of `Txn` and that it implements
`NestedTx`; the invariants of `Statements`.
