# Jango, specified in TLA+

Jango (`src/`) is a Django-like web framework in Go on PostgreSQL. This
directory holds TLA+ models of the parts of it whose correctness depends on the
order in which things happen, TLC configurations that check the models on small
instances, and proofs that TLAPS checks for every size.

Each module says in its first comment which code it models; `PROJECT.json` maps
every definition to the lines it was translated from.

    tlc -workers 2 -config MCAtomicTx_safety.cfg MCAtomicTx.tla
    tlapm AtomicTx_proofs.tla

## 1. The system

| part | state it keeps | operations | talks to |
|---|---|---|---|
| migration executor, `migrations/executor.go` | the table `django_migrations`; in memory the project state | ApplyAll, ApplyMigration, Reverse, GetMigrationSQL | operations, schema editor, registry |
| operations and project state, `migrations/operations.go`, `state.go` | the models a sequence of migrations describes, in maps and slices | StateForwards, DatabaseForwards and -Backwards of ten kinds of operation | schema editor |
| schema editor, `migrations/schema_editor.go` | none of its own: tables, columns, indexes of PostgreSQL | Create, Delete, Alter, Rename of tables and fields, indexes, constraints | the connection pool, statement by statement |
| autodetector and writer, `migrations/autodetector.go`, `writer.go` | none | Detect, MakeMigrations | registry, declared models |
| migration registry and graph, `migrations/migrations.go`, `loader.go` | registered migrations | Register, TopologicalSort | |
| transactions, `orm/tx.go`, `db.go` | per alias a mutex (`txLayer`), the transaction of each context, the connection pool | AtomicUsing and the contexts it hands to callbacks | every ORM statement |
| querysets and SQL compiler, `orm/queryset.go`, `generic_queryset.go`, `builder.go`, `expr.go` | a QuerySet's clauses, in slices that clones share | chain, evaluate, GetOrCreate, BulkCreate, Update, Delete | transactions |
| sessions, `sessions/` | the table `django_session`, the session of a request, the cookie | the middleware; Create, Load, Save of three engines | cache, ORM |
| cache and throttles, `cache/cache.go`, `rest/throttles.go` | entries with a time to live; histories of request times | Get, Set; AllowRequest, Wait | REST dispatch |
| startup, `conf/`, `apps/`, `framework/setup.go` | the settings, frozen once; the registry and its stage | Setup, Init, Bootstrap, Register, RunReadyHooks, Ready, Freeze | everything |
| request path, `middleware/`, `security/`, `http/`, `server/`, `urls/` | the chain; the patterns and their index | ServeHTTP, Resolve, Reverse | views |
| REST, `rest/` | a serializer per view set, shared by its requests | Dispatch, the handlers of ModelViewSet, ListAPIView, DetailAPIView; Bind, Create, Update; four paginators | querysets, throttles |
| pages and templates, `views/`, `templates/` | the engine's set of templates, loaded by the first Render | nine generic views; Load, Render | registry |
| auth, `auth/` | users, sessions of users | CreateUser, CreateSuperUser, Login, guards | AtomicUsing, sessions |
| signals, static files, forms, admin, codegen, CLI | see `PROJECT.json`, "components" | | |

Nothing in the repository locks the database, and except for the functions built
on `AtomicUsing` no code opens a transaction. So a "method" is not atomic
anywhere: it is the sequence of its statements, each of which may be refused,
may take effect while its answer is lost, or may be the last thing the process
does. Within a process, requests are goroutines that share package variables.
What makes the parts hard follows from that:

* **migrations**: two deployments migrate one database; a run stops between two
  statements of an operation; a snapshot of the ledger is stale when it is used;
  operations hand the same Go slices to the state and to the registered
  migration; diffs are compared by number only.
* **transactions**: a mutex per alias that is not reentrant, a pool that the
  transaction and the statements inside it both draw from, contexts that outlive
  their transaction, panics.
* **sessions and throttles**: read-modify-write without a lock, in a table and
  in the arrays of shared slices; expiry that several clocks decide.
* **startup**: Setup leaves what it has done when it fails, and is called again.
* **querysets and statements**: clones share slices; an argument must meet its
  placeholder through joins of clauses, negations and subqueries; calls of more
  than one statement; rows that hold a connection.
* **requests**: a chain of middlewares and a dispatch, each of which may answer,
  refuse or panic, in an order that decides what is seen of it; views that read a
  row, think, and write it; a serializer and a set of templates that all requests
  share.

The properties that make a part correct are the ones of section 3; the hazards
behind them, each with its line, are "hazards" in `PROJECT.json`.

## 2. Modules

| module | models | state and actions |
|---|---|---|
| `MigrationLedger` | what the executor promises to anyone who reads `django_migrations` | a prefix of the migrations that grows by one |
| `MigrationExecutor` | `executor.go`: control of ApplyAll, ApplyMigration, Reverse in several processes | a label per process; one action per SQL statement and per branch, each with "answer came" and "answer lost"; refused statements; crash |
| `ProjectState` | `state.go` and the state half of `operations.go` | a heap of slices, so that what Go shares is shared; pure operators `StateForwards`, `StateBefore` |
| `PostgresSchema` | the statements of `schema_editor.go` and what PostgreSQL does with them | a catalogue of tables and indexes; `Execute` gives the catalogue or refuses; the statements each operation sends, in order |
| `SchemaMigration` | the executor with real operations: composes the three above | the executor's variables plus the database, each process's state, heap and queue of statements |
| `Autodetector` | `autodetector.go`, `writer.go` and the developer's workflow | edit, makemigrations, migrate; `Detect` is the set of results that Go's map order allows, `GenerateMigrationCode` what of it is in the file that the next command loads |
| `SqlMigrate` | `GetMigrationSQL` and the logging editor | one action per operation |
| `AtomicTx` | `AtomicUsing` with its mutexes, contexts, savepoints, panics and the pool | a stack of calls per goroutine, the lock of each alias, the open transactions |
| `Throttle` | a throttle's history in the memory cache | slices as (array, length) over a heap of arrays; reads and writes of single elements are steps; `passed`, a history variable, is when a throttle let pass |
| `Sessions` | session middleware, engines and table | rows, the cookie of each browser, one record per request; one action per statement |
| `OrmModels` | `model.go`, the parts of `field.go` that decide columns and keys, the registry | pure: ParseModel, RegisterModel, DBColumnForField |
| `QuerySets` | `queryset.go`: every call that makes a queryset of another | a heap of arrays, so that what clones could share is shared; the history is the chain of calls |
| `SqlCompiler` | `builder.go`, `expr.go`: Select, Count, Insert, Update, Delete | pure: a clause is a tree with numbered placeholders, beside it the arguments |
| `PgQuery` | what PostgreSQL makes of such a statement | pure: three-valued logic, the orders a result may come in |
| `OrmClients` | querysets in use: chains of `QuerySets`, calls, a table and a pool | a call per client; one action per statement, rows that are open hold a connection; what the database replies to a statement is a parameter |
| `OrmStatements` | the replies: puts `SqlCompiler` and `PgQuery` into those parameters | pure: SelectResults, CountReply, UpdateReply, ... and what a chain of calls means |
| `Startup` | `framework/setup.go`, `conf/`, `apps/` | settings by pointer, the registry, the stage of a call of Setup; one action per stage |
| `Urls` | `urls/`, the routes of `rest/router.go` | pure: Resolve, indexPatterns, Reverse |
| `Middleware` | `middleware/`, `auth/middleware.go`, `security/csrf.go` and the guards | pure: a layer maps a request on its way in and a response on its way out; `Chain` folds them |
| `Serializer` | `rest/serializer.go` | what Bind makes of a field, what Create and Update store |
| `RestView` | Dispatch, filters, search, ordering, paginators, the answers of a handler | pure: refusal in the order of the code, the rows of a page |
| `Pages` | `views/generic.go`, `views/view.go` | pure: what a view answers to a method |
| `Templates` | `templates/engine.go` | the set, and where each request is in Render; one action per file |
| `Site` | a program that starts and serves: composes the seven above | a stage per client; one action per statement of a handler, per bound field and per file of a template |
| `MC*` | instances for TLC | values of the constants only |
| `*_proofs` | TLAPS proofs | lemmas and theorems |

Go's memory is modelled where the code depends on it: `ProjectState` keeps
slices in a heap because `CreateModel.StateForwards` (operations.go:25-28)
stores the migration's own slices in the state, and `Throttle` keeps arrays
because `trimThrottleHistory` (throttles.go:191) compacts the array that the
cache still points to. A reset, trim or save at the end of a handler is in the
action of that handler.

Abstractions. Names, types and SQL texts are model values or short strings that
only stand for themselves; SnakeCase and WithId are constants that give the
conversions of the names an instance uses. In `Sessions` a time is the ticks
left until it, so the clock has no bound. Data in tables is left out of
`PostgresSchema`: a statement that depends on the rows may be refused
("Faults"). An action that models PostgreSQL, the clock or a browser is marked
external in the map.

In `OrmStatements` and `Site` a statement is compiled and executed in one step, as
it is in the code between two answers of the database. A response is its status,
what it shows of rows, and its kind; a page's content is the file its template
came from. Texts that are compared in SQL (`icontains`, dates) are constants or
left out. What an application configures (middlewares and their order, views,
patterns, permissions, fields) is a constant; the repository fixes no order of
middlewares, and the instance puts RecoveryMiddleware outermost, on which
`EveryRequestIsAnswered` depends.

## 3. Runs

Every passing run ends in less than about two and a half minutes, and between them the passing
runs take every action.

| run | question | instance |
|---|---|---|
| `executor_reverse` | The control alone, with ApplyMigration and Reverse too: `OneRowEach`, `RecordedRan` | 2 processes, 3 migrations of 1, 2 and 0 operations, crashes, lost answers, wrong snapshots |
| `schema_faults` | Do concurrent ApplyAll runs implement the ledger (`LedgerSpec`)? Is success completeness (`SuccessIsComplete`)? Whose is half-done work (`DamageAtFrontier`)? Is the database outside of it what the recorded migrations describe (`SchemaMatchesRecords`)? | 2 processes, any statement refused, lost or the last one; 4 migrations of 8 operations: a model, fields, an index, a data migration, renames; their rehearsal (section 4) |
| `schema_race` | Do two healthy deployments leave damage (`RaceLeavesNoDamage`), and does the database get there (`EventuallyMigrated`)? | 2 processes, same migrations, no faults |
| `autodetector_supported` | Does any sequence of edits, makemigrations and migrate end with the declared schema (`NothingBreaks`, `DatabaseIsDeclared`)? Do the files describe it, whatever they lose (`ChangesAreWritten`), and does a file that was not needed leave the database alone (`RepeatsSendNothing`)? | 7 declarations, up to 3 migrations: every pair of declarations is an edit, among them a column that is UNIQUE and no longer, and an index that becomes UNIQUE while nothing else changes |
| `atomic_safety` | Is the mutex held by the one call past it and released on all ways out (`MutexIsHeldByItsCall`), savepoints only in orphaned transactions (`SavepointIsOrphan`), and does a nested call never return (`NestedCallNeverReturns`)? | 2 goroutines, 2 aliases, 3 connections, depth 3, contexts that escape, panics |
| `atomic_live` | Does every call end (`EveryCallEnds`), does no transaction stay open (`OpenIsOwned`)? | 2 goroutines that nest in one order, 3 connections, no panics |
| `throttle` | Types, rate (`NeverOverRate`), refusals (`RefusesOnlyTheRecent`) and Retry-After (`RetryAfterIsHonest`) | a limit of 2 in a window of 2 ticks, 2 concurrent requests, clock up to 3 |
| `sessions_db` | Are sessions kept apart (`SessionsApart`), and kept (`SessionIsKept`, `PurgeSparesTheLive`)? | 2 browsers, 2 concurrent requests, 2 keys, cookie of 2 ticks, faults everywhere |
| `orm` | Does every statement mean its chain of calls (`StatementsMeanTheirChain`, `EndsOfTheOrder`)? Does a queryset ever change (`QuerySetsAreImmutable`)? What of two clients at once (`OneRowIsCreated`, `OnlyAggregateKeepsOne`), and does a GetOrCreate read and insert by the key it was given (`GetOrCreateGoesByTheKey`)? | all chains of 2 of 15 steps and each branch of them, subqueries of a queryset of the chain among them, three tables with NULLs, 2 clients, 2 connections |
| `site` | Do settings in force stay as Setup promised (`SetupHolds`)? Is each request answered (`EveryRequestIsAnswered`) by the view its path was built from (`ReversedPathsArrive`), with its own template (`PagesShowTheirTemplate`)? Does a refused request change nothing, does an allowed one store its own data and nothing else (`RefusedChangesNothing`, `NoChangeWithoutPermission`, `OwnDataIsStored`)? Do concurrent writers see each other (`DeletedOnce`), and readers see everything (`CursorWalkIsComplete`)? | 2 programs of several calls of Setup; 5 sites of 2 clients each, with over 100 different requests, on one table of at most 3 rows |

The other two runs each refute a sentence of the repository:

| run | what the repository says | what the code does |
|---|---|---|
| `autodetector_auth` | cli.go:73: migrate brings "the database schema up to date with the current models" | the models of `auth` name fields where the editor needs columns (schema_editor.go:239): their migration breaks |
| `sqlmigrate_print` | cli.go:89: "Prints the SQL statements that would be executed" | the state is advanced twice (executor.go:205), so an initial migration is an error |

`SessionIsKept` is refuted with `Engine = "cookie"` too: ROADMAP.md:50 lists
cookie sessions as "Done-ish", and the engine stores nothing (sessions.go:314).

### Bounds, and why they are enough

* Two processes, goroutines, browsers or requests: each property is about two
  actors getting in each other's way, and the proofs of section 4 cover the
  other numbers where there is one. Symmetry is used for safety runs only.
* Three migrations (of one, several and no operations) have a first, a middle
  and a last; the blog of four migrations creates, adds, alters, removes and
  renames, and the declarations of the autodetector bring in the drops of tables,
  indexes and constraints.
* `MaxRuns` = 2 (`PostgresSchema`): a data migration that ran twice or more
  counts as "ran twice".
* `MaxMigrations` = 3 (`Autodetector`): an empty database, two edits apart, and
  back.
* `MaxDepth` = 3 (`AtomicTx`): for two aliases every nesting beyond it repeats
  an alias, and a repeated alias never returns (a theorem). MaxConns = 3 is one
  more than the aliases.
* `MaxTime` = 3 and `MaxArrays` = 4 (`Throttle`): one and a half windows, enough
  to fill a history, refuse, wait out Retry-After and see the entry expire; four
  arrays are those the cache, two requests and the one being made can need (that
  they always suffice is a lemma, `NewArray`). Of requests that overlap `passed`
  keeps each time once, since no property counts them.
  Two throttles in a list were checked too (a burst of 1 a second under 2 in
  two seconds, 2.7 million states).
* `CookieAge` = 2, `Lives` = {0} (`Sessions`): a session that expires while a
  request is in progress, at once, or with its cookie. Rows no one has the key
  of are dropped (`Reachable`): keys are never guessed, so a row without a
  holder can no longer be seen. With a third key the run passes too (1.3
  million states).
* `MaxSets` = 4, `BusySets` = 2 (`OrmClients`): the manager's queryset and two
  steps, on it or one after the other, which is what it takes for two clones to
  share an array with room in it; a third step is the one that names a queryset of
  two steps as its subquery. Chains are looked at while no call is made
  (the table is then one of the three); calls are made on all chains of one
  step, so that a call is tried on every clause. Three tables: empty, with
  NULLs in each column, and with equal slugs of NULL. Two connections and two
  clients: one that leaks, and one that then waits. Symmetry is that of the
  clients, in a run of invariants and one action property.
* `MaxId` = 3, two rows to begin with (`Site`): one more row than there is at the
  start, so a row can come after the last page of a walk, and a key is never used
  again. Five sites split the requests by what can meet: refusals of every stage
  beside a delete, writers beside writers, every generic view with every method,
  two first renders, a walk beside a writer. Each pair of these actors meets in
  every interleaving; more actors would meet two at a time, since a request
  shares only the row, the serializer, the set of templates and the registry.

### Fairness

* `schema_race` asks that each process is started again after it failed and
  keeps working: deployments are retried, and a statement gets an answer.
* `atomic_live` asks for strong fairness of taking the mutex (a Go mutex in
  starvation mode hands itself to the first waiter), of getting a connection
  (pgxpool queues requests in order) and of the answers of statements,
  and that a callback ends. Nothing is asked of callbacks that panic or of
  contexts that escape.
* All other runs check safety only.

## 4. Proofs

| module | theorems | argument |
|---|---|---|
| `MigrationExecutor_proofs` | `TypeCorrect`, `OneRowEachAlways`, `RecordedRanAlways`, `LedgerRefinement`, `SuccessIsCompleteAlways`, `DamageAtFrontierAlways` | one invariant says what each label of a process implies: a process at "record" has run all operations of its migration, one in the loop of ApplyAll has everything before its position recorded. The unique index, once created, keeps rows single, and it is created before any row is inserted. |
| `SchemaMigration_proofs` | `ControlRefinement`, and the executor's results carried over (`RecordedRanWithData`, `OneRowEachWithData`, `DamageAtFrontierWithData`, `SuccessIsCompleteWithData`) | each step of the composed system is a step of `MigrationExecutor` or leaves its variables alone, so every theorem about the control holds with real operations and a real schema |
| `SchemaMigration_proofs` | `SchemaMatchesRecordsAlways`, `RaceLeavesNoDamageAlways` | the statements of all migrations are one script, of which n have taken effect and f is the first migration without a record (`Plan`). Each process is past some statement up to n, in a migration up to f, and has the rest of its operation to send (`At`); what it sends is one of the n once more or the next, so n and f only go up, and a migration is recorded when n is at its end. Without faults the next statement or the record of a touched migration is in the hands of some process, which nothing stops (`Front`, `LeaderGoesOn`). |
| `AtomicTx_proofs` | `TypeCorrect`, `OneCallPerAliasAlways`, `MutexIsHeldAlways`, `SavepointIsOrphanAlways`, `OpenIsOwnedAlways`, `NestedNeverReturns` | a call past the mutex holds it, in the one frame of the one goroutine that does; an open transaction belongs to such a frame or to one that panicked |
| `Sessions_proofs` | `TypeCorrect`, `SessionsApartAlways` | a key is held by one browser, in its cookie or in its requests; the row under it has items of that browser; under a key that no one holds nothing is left. Each step gives a key to a browser only if it has it already or it is fresh. |
| `Sessions_proofs` | `SessionIsKeptAlways`, `PurgeSparesTheLiveAlways` | a request that is alone with its browser is the only one with its key, since a key has one holder; row and cookie both last at least as long as what is expected, and both run down with it. A request is told that it is not alone when the second one arrives, and then nothing is expected of either. |
| `Startup_proofs` | `SetupHoldsAlways`, `FrozenStaysAlways` | what a call has achieved at each of its stages; no call is past Init once the settings are frozen. A later Setup still lays the environment over its settings: that this changes nothing the second time (`EnvIsAppliedOnce`) is why frozen settings keep their content. |
| `Site_proofs` | `SiteImplementsStartup`, `SetupHoldsWhileServing` | each step of a site is a step of `Startup` or leaves its variables alone, so what Setup promised holds during every request |
| `Site_proofs` | `EveryRequestIsAnsweredAlways`, `RefusedChangesNothingAlways`, `NoChangeWithoutPermissionAlways` | the chain that AsMiddleware folds is the list of layers, outermost first; a fold over it keeps what every layer keeps. A request's record says at each place what has been asked of it: a refusal before the handler leaves `wrote` false, and a handler that writes was let through by csrf and ModelPermissions. |
| `Site_proofs` | `SiteTypeOKAlways`, `DeletedOnceAlways` | no statement changes the key of a row, so keys stay different; a request that is told 204 took the row out of the table, and its key does not come back |
| `Site_proofs` | `OwnDataIsStoredAlways` | a request that is alone with the serializer since it began to bind has no other beside it in Bind, so what is validated is what the first fields of its own body gave (`Collects`), then all of them, and its statement makes the row of that. Whoever begins to bind, or writes, takes `alone` from all others. |
| `Site_proofs` | `PagesShowTheirTemplateAlways` | as long as no load was disturbed, either nobody has loaded, or one goroutine alone fills the set, or the set is there. After k files a name stands for the last of them with that path, or else for the first whose path ends in it (`MeantBy`), which parsing the next file keeps; and only Show answers with a page by a template, because no layer makes one. |
| `Site_proofs` | `CursorWalkIsCompleteAlways` | no statement changes the key of a row. What a walk has shown ascends, and the key of each row that was there when it began and was not deleted since has been shown or lies above the last one shown, as long as the walk is not done (`OnWalk`). A request for a page plans the least keys above that last one (`Asking`), whatever is written before its statement runs. |
| `Site_proofs` | `ReversedPathsArriveAlways` | a pattern takes a path if the path goes one of its ways, segment by segment, whatever include it is in (`ResolvedGoes`, `FoundBelow`). What buildReverse puts together goes the way of its pattern (`FilledFits`, `EntryFinds`), two ways that differ in a literal share no path (`DifferentWays`), so no entry before it finds anything, and inside of its include nothing before it either. |
| `OrmClients_proofs` | `QuerySetsAreImmutableForClients`, `ClientsImplementQuerySets` | a call of a chain only appends to the heap, or writes arrays that it made itself: what an older queryset sees stays |
| `OrmClients_proofs` | `OnlyAggregateKeepsOneAlways` | the connections in use are those of the clients' open rows and those that Aggregate left: a count that every step keeps, whatever the database replies |
| `OrmClients_proofs` | `OneRowIsCreatedAlways` | the row that a GetOrCreate has ended with stays in the table, as long as nothing is updated or deleted, with the value that was wanted, and the unique index lets in no second row with it: an insert succeeds only if no other call that wanted the same has a row yet (`Rivals`) |
| `Throttle_proofs` | `TypeCorrect`, `RefusesOnlyTheRecentAlways` | any number of requests at once: slices of two throttles never share an array, and all elements of a slice are times at which its throttle let pass, also in the middle of two trims of one array |
| `Throttle_proofs` | `NeverOverRateAlways` | one request at a time: the history in the cache covers the log of passes from the end, each of its times at least that of the pass it stands for, and what lies before has left the window; in a trim the same holds of the part that was kept, for the log up to where the scan is |
| `Throttle_proofs` | `RetryAfterIsHonestAlways` | as long as the clock did not move between a refusal and its Wait, the history is the end of the log exactly; when Retry-After is told, the oldest pass that counts leaves the window before |

The theorems hold for every value of the constants under the assumptions of
the modules: sizes are natural numbers, `None` is not a key, thread, alias or
transaction, durations are natural numbers or -1, `None` is neither settings
nor an app (`StartupAssumption`); clauses of a queryset are sequences
(`QuerySetsAssumption`) and clients and connections are finite (`OrmAssumption`);
layers are a sequence of names (`MiddlewareAssumption`), the table starts with
rows that its columns let in and the model has a primary key (`TableAssumption`);
a template file has a path and its last part, every app may have a directory of
them (`TemplatesAssumption`) and it is clients' requests that render (`ClientsAssumption`);
rates are positive, as ParseRate has it (throttles.go:39), buckets are not shared
(`KeysDiffer`), and there are more arrays than slices (`ThrottleAssumption`).

Conditions on what is called are hypotheses of
the theorem: `LedgerRefinement` and `SuccessIsComplete` need that no process
calls Reverse, `DamageAtFrontier` that only ApplyAll is called, `OpenIsOwned`
that nothing panics, `SessionIsKept` and `PurgeSparesTheLive` that the engine is
the database's. So are conditions on how an application puts a site together,
which no code enforces: that recovery is the outermost layer and the log line is
above all hooks (`LayersAreOrdered`, for `EveryRequestIsAnswered`: a nil response
panics in the log line, which only recovery catches), that the csrf layer is there
and what changes rows asks ModelPermissions (`ChangesAskPermission`, for
`NoChangeWithoutPermission`), and that no input of a serializer goes into the
primary key (`KeyIsReadOnly`, for `SiteTypeOK`, `DeletedOnce` and `OwnDataIsStored`:
such an input redirects the UPDATE, serializer.go:402), and that no two of its fields
are bound under one name (`NamesDiffer`, for `OwnDataIsStored`: columns like `a_b` and
`a__b` have one Go name), that the list a client walks through is paged by cursor, with
nothing else in its query and no other request of that client in between
(`WalksByCursor`, for `CursorWalkIsComplete`: the cursor is the primary key and looks at
no other order, pagination.go:113-118), and that a name stands for the last pattern that has it,
with no pattern before it that could take its paths, a converter that accepts each
param and literals without metacharacters (`PathsLeadBack`, for `ReversedPathsArrive`:
the resolver takes the first pattern that matches, the index the last of a name, and
Reverse asks no converter and returns the literals escaped, resolver.go:161, 184 and
185; includes are one level deep there, and no converter is `path`). `MCSite` assumes all six, so TLC evaluates them on the
instance that is checked.

What the schema is, is proved for migrations that have been rehearsed (`Rehearsed`,
for `SchemaMatchesRecords` and `RaceLeavesNoDamage`): their operations succeed one
after another and leave the arrays of the registered migrations as they are; a
statement that is sent again is refused or leaves a database that is as far as
before; and where a migration begins, the database is what the migrations before it
describe. A fresh process alone can find that out: the condition is about no
interleaving, no crash and no lost answer, and what the theorems add is all of
them, for any number of processes. It does not hold of migrations with the
faults of section 5. `RaceLeavesNoDamage` needs besides that the script can be played
to its end (`Plays`) and that there are no faults. `MCSchemaRehearsal` builds a
rehearsal of the blog from its migrations and assumes both of it.

`OneRowIsCreated` has a property for its hypothesis: `GetOrCreateGoesByTheKey` says
that what a GetOrCreate finds and what it inserts meet the lookup it was given, which the compiler and the database see to and the run `orm` checks.

The type invariants of `MigrationExecutor`, `AtomicTx` and `Sessions` and
`OneCallPerAlias` of `AtomicTx` are theorems and not in a run. None of the checked
invariants is inductive by itself, because none says where the processes are;
each proof module starts with the one that is.

What is defined step by step over a sequence (the chain of layers, the clauses of
a queryset, the files of the template directories) is reasoned about by a least counterexample: `LeastNumber` gives a
set of numbers its least, `UpTo` and `StepByStep` make induction and recursion
over an interval of it. What a RECURSIVE operator or a recursion over a tree
computes is out of reach.

Only model-checked:

* liveness (`EventuallyMigrated`, `EveryCallEnds`);
* what the autodetector writes (`NothingBreaks`, `DatabaseIsDeclared`,
  `RepeatsSendNothing`, `ChangesAreWritten`): they are about the declarations of
  one application, folded into a state by the operations of its migrations;
* what a statement means (`StatementsMeanTheirChain`, `EndsOfTheOrder`): conditions
  are trees, which RECURSIVE operators walk;
* that the blog's migrations are the ones the theorems on the schema ask for
  (`Rehearsed`, `Plays`): a matter of those migrations, in `MCSchemaRehearsal`;
* `GetOrCreateGoesByTheKey`: the replies of the database are a parameter of the proofs.

## 5. What does not hold

These were met while modelling. They limit how the properties are stated and are
worth a look by anyone who works on the code.

Migrations
* Migrators share no lock. A stale snapshot makes a process repeat statements;
  most are refused or harmless, but `DROP TABLE IF EXISTS` and data migrations
  take effect again.
* A crash or a refused statement in the middle of a migration leaves the first
  statements behind, and later runs fail on them for ever: `beginTx`
  (schema_editor.go:35) is never called. `EventuallyMigrated` is therefore
  about runs without faults.
* `Reverse` of a CreateModel always fails (executor.go:150: the state lacks the
  model), and it does not ask if the migration is applied. `migrate` cannot
  reverse although its help says so. `ApplyMigration` records nothing.
* `GetAppliedMigrations` swallows errors (executor.go:53-54).
* RenameField takes field names for columns (schema_editor.go:226); a change of
  a field's DB column alters a column that is not there; RemoveField forgets
  indexes that name the field; unnamed indexes are not compared; adding a many-to-many field has no
  type; a model that replaces another one in the same table is created first.
* Turning UNIQUE off leaves the constraint: PostgreSQL named it `..._key`, AlterColumn
  drops `..._uniq` and ignores the error (schema_editor.go:216-221). This is the one
  difference that `DatabaseIsDeclared` allows, of the columns concerned.
* The file of a migration is not what was detected (writer.go). An automatic key is
  written without its column (:295), which each registered field has (tags.go), so
  `makemigrations` finds an AlterField of every key every time and never comes to
  rest, although it promises files "for any changes that have been made" (cli.go:66);
  the constructor of a foreign key adds an OnDelete and an index, with the same
  effect. These operations send no statement (`RepeatsSendNothing`). A type without a
  constructor becomes TextField (:363), PrimaryKey of other types is dropped (:387),
  options and managers are not written (:254), so that changes of them reach no file.
  Declarations with a key that is not automatic, or with such a type, are therefore
  not in the instance: `ChangesAreWritten` is false of them.
* Models are compared by the number of their indexes and constraints
  (autodetector.go:127). A change that keeps the number is found only because a key
  differs every time; of a model whose fields all come back from the file as they
  were it is never found. Changes of options are not looked at.
* CreateModel puts its own slices in the state (operations.go:25-28): an AlterField
  or RemoveField that follows it rewrites the registered migration for the rest of
  the process. The theorems on the schema are about migrations that do not.
* The order of a migration's operations follows Go's map order
  (autodetector.go:96), where README.md:158 says "Deterministic diffs".
* `sqlmigrate` calls the functions of data migrations (executor.go:218).

Transactions
* A nested call for the same alias waits for itself for ever; so does one whose
  statement needs a connection when each alias's transaction holds one and the
  pool has no more. A panic in a callback unlocks the layer but leaves the
  transaction and its connection. A rollback does not undo what the callback
  wrote through the pool instead of its transaction.

Throttles
* Overlapping requests lose updates and exceed the rate: `NeverOverRate` is for
  requests one after the other. If the clock moves between a refusal and its
  Wait, Wait compacts the array of the stored history, whose length stays, and
  repeats its last times: a later refusal may come without cause. The promise of
  Retry-After is for a Wait in the same instant, as
  `rest/extra_actions_versioning_throttles_test.go:186` has it.
* Two throttles of a kind share one bucket whatever their scope, so different
  rates interfere (assumption `KeysDiffer`).

Sessions
* Of overlapping requests the last to save wins, and an item that was deleted
  can come back. A purge can delete the row that another request just saved. A
  failed query looks like an empty session, and if the view then sets something
  the stored session is replaced. An error of Save is ignored. SetExpiry lasts
  until the next modification, which sets the default again, and an unmodified
  session is not prolonged. The framework's cache driver stores nothing either
  (drivers.go:109-113).

Querysets
* Aggregate always returns an error: a row of QueryRow has no Columns (db.go:215),
  and since it is never scanned its connection stays out (queryset.go:336-341).
  `OnlyAggregateKeepsOne` counts these.
* A subquery numbers its placeholders from $1 (builder.go:445, 483, 486), so beside
  other arguments it takes theirs; OuterRef and the default of an unknown operand
  write "$NEXT" (builder.go:492). `StatementsMeanTheirChain` leaves those
  statements out (`Clashes`).
* IN with a queryset sends all the columns of that queryset (builder.go:45, 446), which
  PostgreSQL refuses unless it was narrowed to one column.
  `StatementsMeanTheirChain` has such a chain refused, and no other.
* Count, Update and Delete look at conditions only: not at a limit or an offset,
  and not at None(). First and Last append to the order that there is, First
  ignores DefaultOrdering, and Last of a model without one returns the least key
  too: see `EndsOfTheOrder`. The generic querysets close rows that None() never opened:
  a panic (generic_queryset.go:65, 83, 103).
* GetOrCreate is two statements: the loser of a race gets an error on a unique
  field, and both insert on others, or if the value is NULL, since NULLs do not meet
  in a unique index (`OneRowIsCreated` is about values). BulkCreate returns what it inserted before an
  error. Only, Select and Values keep the slice of their caller. isnull with
  anything but a bool panics. A model registered again is listed twice
  (model.go:78); a uint32 gets an INTEGER. README.md:96 gives `L("toppings__name")`,
  which no code resolves.

Startup
* A second Setup applies the environment to its settings before it panics
  (setup.go:18). A failed Bootstrap leaves the apps it registered, so that a retry
  fails on the first label; Ready keeps its first error for ever
  (app_config.go:18). RunReadyHooks and countModels read the registry unlocked;
  overlapping OverrideForTest restore in the wrong order (store.go:56). Settings
  without a database get an empty default one (env.go:82).

Requests
* SSLRedirect decides after the view has run (auth/middleware.go:140). A response that a panic or an early answer makes gets
  no headers of the layers inside; an http.Handler's response gets none and no
  cookie; a path that is not found bypasses the chain. A nil response panics in
  the log line of a layer (middleware.go:119).
* Reverse returns the literals of a pattern as its regular expression has them, with
  their escapes (resolver.go:184 with urls.go:166): for a route like "v1.0" the path
  does not lead back. `ReversedPathsArrive` is about literals without metacharacters.
  The parameter of DefaultRouter is always "id" (router.go:77).
* The session middleware's user shadows a token (SessionAuthentication comes
  after AuthMiddleware); Authenticate does not ask IsActive; permissions and
  is_superuser of a user are never loaded (auth/backend.go:60, auth.go:67-77).
  CreateSuperUser is two statements (users.go:88).

REST
* The serializer is one pointer for all requests (api_views.go:380, 412): what one
  binds, another stores, and two at once may be a fatal "concurrent map writes"
  (`MapWritesCollide` stops the program). `OwnDataIsStored` is about requests that
  were alone while they bound.
* PUT and PATCH do not look at the number of affected rows: one of a row just
  deleted answers 200. The permission for an object is asked for the row as it was
  read. PATCH applies the defaults of fields it was not given
  (serializer.go:302-304); a nil or pointer field is not shown again
  (serializer.go:695); a primary key in the body redirects the UPDATE
  (serializer.go:402-408); fields with a column of another name are not assigned.
* page_size is not a reserved parameter of a filtered list (views.go:425): 400.
  A cursor with another ordering skips rows (pagination.go:118). An error of the
  count is a 400. Answers to a bad body, version or format are not finalized.

Pages and templates
* Two first renders at once may break the set for ever: html/template takes no
  template after an execution, also a failed one; and a load that failed leaves a
  partial set, which is not loaded again (engine.go:38-51). Errors of the template
  are logged and the page is empty, with status 200 (server.go:36).
  `PagesShowTheirTemplate` is about undisturbed loads. A later directory's file
  takes the place of an earlier one's.
* HEAD answers 200 where GET answers 404 or 500; a RedirectView without a URL
  redirects HEAD to ""; DeleteView without a callback redirects as if it had
  deleted; AllowedMethods as a view returns nil; a FormView keeps one form for all
  requests. StreamResponse.Close may close twice (http/response.go:315).

## 6. Not modelled, and the plan

Not modelled for good: hashing and signing, forms (they check the texts of one
request), static files, signals (a list called in order), code generation, the
admin's index, SQL texts of `contrib/postgres`, parsing of settings and DSNs,
rendering, printing commands. They compute or format without keeping state.

In the modelled parts: views that call Save themselves, session cache drivers of
an application, which requests a throttle counts as one client's, OnCommit and
OnRollback (they do nothing), managers and descriptions of operations, column
types beyond their names, select_related and prefetch, lookups that compare texts
or take dates apart, nested serializers, PlainSerializer and the generated schema,
stream responses, patterns written as regular expressions, the path converter,
includes inside of includes, login and logout.

Order of the work:

1. Migrations: executor, schema, autodetector, sqlmigrate. Done.
2. Transactions, sessions, throttles. Done.
3. Querysets, the SQL compiler, clients on a table. Done; next: joins of
   select_related, prefetches and managers.
4. Startup and its composition with requests. Done.
5. Middlewares, URLs, generic views, templates, REST. Done; next: login and logout
   with sessions in the chain, nested serializers.
6. `MigrationGraph` (sort and cycles) as functions against a reference definition.
   Nothing that migrates calls it.
7. What is left to prove: which kinds of operations make a rehearsal succeed, and
   what the autodetector writes for any declarations.
