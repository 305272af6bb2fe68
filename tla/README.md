# edgedb-wasm in TLA+

edgedb-wasm runs WebAssembly programs (*guests*) next to an EdgeDB server: a
host process takes HTTP requests for `/db/<database>/wasm/<name>`, loads
`<directory of the database>/<name>.wasm`, instantiates it, and passes the
request to it; the guest queries the database through host functions. This
directory holds a model of it, the TLC configurations that check the model,
and proofs checked by TLAPS.

## 1. The system

| Component | Code | State | Operations | Talks to |
|---|---|---|---|---|
| Module cache | `server/src/tenant.rs` `_get_module`, `module.rs` | `modules`: path → shared once-cell of a weak reference to a compiled module | look up, load, share, check the file's age, evict | file system; called by `get_module` |
| Worker cache, directories | `tenant.rs` `get_worker`, `get_module`, `set_directory`, `get_client`; `worker.rs` | `directories`, `clients`, `workers` (at most one per database and name); each worker: its module, its store behind a mutex | find or build a worker, run a request in its store, change a directory and purge | module cache, pools, guest |
| Database client, host side | `server/src/abi/client_v1.rs` | a pool per database, a table of handles per store; each handle owns or shares a connection | connect, prepare, describe, execute, START TRANSACTION, COMMIT, ROLLBACK | pool, EdgeDB |
| Database client, SDK side | `sdk/src/client.rs`, `sdk/src/client/transaction.rs` | `Transaction`: iteration, handle of the open transaction | queries, the transaction loop with retries | host functions |
| Routing | `tenant.rs` `handle`, `is_valid_name`, `tenant/http.rs` | none | path → database and name, or 404 | worker cache |
| Unix socket front end | `unix_sock.rs`, `main.rs` | the listening socket (inherited, or a file), one task per connection | one pickled request per connection: HTTP or SetDirectory | routing, `set_directory` |
| HTTP test front end | `hyper.rs`, `main.rs` | hyper's connections; futures are dropped when clients hang up | HTTP requests for the database `edgedb` | routing |
| Guest start-up, handler | `worker.rs` `call_init`; `sdk/src/lib.rs`, `web/mod.rs`, `http_server.rs`, `macros/` | the registered handler | pre-init, init, post-init functions, main, `handle_request` | called by `Worker::new` and `handle_http` |
| Logging | `abi/log_v1.rs`, `sdk/src/log.rs` | the host's filter, the guest's logger and its copy of the filter | `max_level`, `log` | guest code, the host's logger |
| Bindings, options, errors, examples | `abi.rs`, `bindgen.rs`, `wit/`, `options.rs`, `bug.rs`, `examples/` | none of interest | | |

What is hard, and what makes each part correct:

* **Module cache.** Requests for one file arrive together; the file is
  replaced while it is opened, read or checked; loads fail; the only strong
  references are dropped at any moment; in test mode a task disappears while
  others wait for the cell it was initialising. A module must be as recent as
  the request by its modification time, a file compiled once at a time, a module that is in use not
  compiled again, and every call answered.
* **Worker cache.** The read lock is given up before the write lock is taken;
  the write lock is held while guest code runs; `set_directory` takes two locks
  one after the other; requests go on in workers that have been replaced. A
  request must be served by a worker of its own database, name and directory,
  running a build as recent as the request; workers (and what they have in
  memory) must not be replaced for nothing; a store runs one call at a time.
* **Front ends.** EdgeDB sets directories and sends requests on separate
  connections; peers send half a request, or leave; the test server drops what
  it does for them; the server is killed at any moment, and the file of its
  socket survives it. Once Success has been sent no page of an older directory
  may be, nobody may wait because of another peer, and a server that is started
  must serve.
* **Guest start-up.** The file decides the order of exports, what the functions
  do and which of them fail. Logging works only after pre-init, the handler is
  registered once, a guest that failed half way must leave nothing behind.
* **Database client.** Conflicts, lost connections at any round trip, errors
  the body ignores, panics, guests that try to control transactions on their
  own. A call must take effect at most once and as a
  whole, `Ok` must mean done, retries must end, connections must come back to
  the pool, and outside of any transaction.

`PROJECT.json` lists the hazards at their lines.

## 2. Modules

```
FrontEnds --extends--> TenantService      what a Tenant promises the front ends
                            ^ refined by
ModuleLookup <--extends-- WorkerCache     requests, workers, directories
     ^ refined by         (ModuleLookup: what _get_module promises)
ModuleCache               cells, weak references, loads, the freshness loop

Transactions              what the SDK promises a handler
     ^ refined by
ClientTx                  SDK loop + host functions + pool + EdgeDB

GuestInit                 Worker::new inside a guest, logging, the web handler
```

`MC*.tla` give the constants values for TLC. `ModuleCache_proofs`,
`WorkerCache_proofs`, `FrontEnds_proofs`, `ClientTx_proofs` and
`GuestInit_proofs` each extend the module they are named after.

### ModuleCache (`tenant.rs:164-249`)

One action is what a task does between two awaits. The mutex around the map is
never held across an await, so a look-up (`LookupMiss`, `LookupJoin`,
`LookupHit`) or a removal (`Evict`) is one step; opening and stat on one handle
(`LoadOpen`), reading and compiling (`LoadRead`), and the check of the file's
age (`Check`) are others, with anything in between.

| In the model | In the code |
|---|---|
| `modules[p]` | the entry of `TenantInner::modules` for path `p` |
| `c \in Cells` | the address of a cell (`Arc<Cell<Weak<Module>>>`) and of the module it was initialised with; reused when nothing refers to either (`Free`), so `ptr_eq` on a reused address is in the model |
| `c \in loaded` | the cell is initialised; `cell[c].loader` is the task that runs the initialiser |
| `Alive(c)` | `weak.upgrade()` succeeds: a worker (`keep`) or a task has a strong reference |
| `cell[c].src`, `.ver` | the build whose modification time the module records, and the one its code was read from: they differ when a file is overwritten in place between stat and read |
| `Mtime` | modification times of the builds; never decreasing, two builds may share one |
| `task[t]` | the local variables of one call; `since` is history: the build on disk when the call was made |
| `Cancel` | the future is dropped (test HTTP server); `Release`, `Keep`, `Drop` are the callers |

`ModifiedCanFail` says whether `Metadata::modified()` may fail on a module that
was loaded (at which time it succeeded).

### ModuleLookup and WorkerCache (`tenant.rs:77-162, 250-276`, `worker.rs`)

`ModuleLookup` is `_get_module` for its caller: a call (`Ask`) is answered with
a live module that is not older than the file at that instant
(`AnswerShared`), or with one loaded from the file during the call
(`AnswerLoaded`), and two live modules of a file never have one modification
time. `ModuleCache` implements it (`ImplementsLookup`, checked and proved), under
a mapping that shows a cell as a module while it is `Alive` (`Seen`) and a task
as a call until it is answered (`CallOf`).

`WorkerCache` extends `ModuleLookup` and uses the promise in place of the
cache. A request goes through `Handle`, `GetModule`, `ModuleFound`,
`ReadWorkers` (read lock), `LockWorkers` (write lock, second look), `GetClient`,
`BuildWorker` or `BuildFail` with the lock in hand (`writer`), `TakeStore`
(the mutex of the store), and `Respond` or `Trap`. `Current` is the test both
looks make: a worker of that name that runs the very module returned.
`SetDirectory` and `Purge` are the two halves of `set_directory`; a `Setter`
is the task of a SetDirectory request. `HangUp` is a dropped future: it gives
up locks and references wherever it was, and leaves guest code stopped in the
middle. `mode` says which of the two servers it is: directories are set by
`Setters` on the socket, and once at the start of the test server, whose clients
alone can hang up. `DropWorker` is the destructor of a worker nobody refers to any more:
it runs where the last reference is dropped, with other threads in between, and
is never put off for ever (weak fairness).

`TenantService` is what is left of a tenant for those who call it: a call of
`handle` is served (`Serve`) from a directory its database has had since the
call was made, answered (`Finish`) or refused (`Refuse`); `set_directory` has
put the directory in force (`Configure`) before it returns (`Configured`).
`WorkerCache` implements it (`ImplementsService`, checked and proved).

### FrontEnds (`main.rs`, `unix_sock.rs`, `hyper.rs`, `tenant.rs:37-115`)

`FrontEnds` extends `TenantService` and puts the ways into the server around
it: `mode` is the inherited descriptor, the socket file, or the test server.
A connection has a peer (`client[c]`) and a task (`server[c]`): `Accept` spawns
the task, `Complete` is the end of `read_to_end` or `to_bytes`, `Undecodable`
and `ReadError` are the error returns of `process_request`, `Misdirected` is an
early return of `Tenant::handle` (`Routed`, `IsValidName`), `Handle`,
`GetWorker`, `GetWorkerError` and `HandleHttp` the rest of it, `Change` and
`Changed` are before and after the await of `set_directory`, `Respond` is
`respond`. `HangUp` is hyper dropping the future. A path is the sequence of
parts `split('/')` makes, a wasm name the classes of its characters, which is
all `is_valid_name` looks at. `Crash` kills the process: the tenant's state and
accepted connections are gone; connections that wait on an inherited
descriptor stay, a socket file becomes stale. `Start`, `RemoveSocket`, `Bind`
and so on are `main`. `since`, `changes` and `acked` are history: the
directories a database has had, and which of them its peer has been told of.

### GuestInit (`worker.rs:61-183`, `abi/log_v1.rs`, `sdk/src/`)

One wasm file and the guests made of it one after another. `Init` chooses what
the file exports and in which order, and what each function does when called
(`deed`: nothing, log, register a web handler, or have the wrong type); a
function that traps is `StartFail`, which can happen at any call. `CallInit`
puts the exported functions in the order they are called in, with `None` for a
function that is not exported and for what `filter_map` leaves out; `Run` skips
it. `RunPreInit` is
the SDK's `log::init`, `Log` a record on its way through the guest's filter to
the host's logger, `Register` the `OnceCell` of the handler. Each of the four
matches between `log` and the interface is a table of its own, written arm by
arm: a filter goes through the host's `ConvertLevel` and the guest's
`ConvertFilter`, the level of a record through the guest's `WitLevel` and the
host's `HostLevel`. That the value crosses the border as it is, is wit-bindgen's
work: both sides are generated from one `.wit` file. `NoHandler`, `HandlerResponds` and `HandlerTraps` are requests to the
worker. `ran` and `record` are history.

### Transactions and ClientTx (`sdk/src/client*`, `abi/client_v1.rs`)

The database is a counter; a body runs `Queries` statements that each add one,
which is enough to tell a call that took effect twice, or half. `Transactions`
is the promise: a call takes effect in one step or not at all; `Ok` if it did;
`Err` says nothing. `ClientTx` is the loop of `transaction()` with its
`iteration` and its handle (`guest[g].tx`), each host function's round trip as
an action, the pool as the `user` of each connection, and a session in EdgeDB
per connection (`none`, `open`, `failed`; `seen` and `pending` for conflicts).
Pool, EdgeDB and the bodies are external: modelled from what the code relies
on. A connection is lost at any round trip (`Discard`), COMMIT can be lost
before and after it took effect (`CommitLost`), a statement can fail in EdgeDB
or in the SDK's encoding and decoding (`QueryFail`), errors have the tag
SHOULD_RETRY or not. A statement needs a capability; the host lets through
(`Allowed`) only modifications, whatever the guest asks for (`Flags`).
`Careless` says what bodies may do beyond the usual: go on after a failed query
(`ignore`), panic (`panic`; the host keeps the store and its table of handles,
`worker.rs:161-168`), ask for all capabilities and run statements that start or
end transactions (`control`). Bodies keep the documented rule of
`transaction.rs:19-21`: they use the transaction object, not the client.

`ImplementsTransactions` is about what callers are told and what the database
holds. A connection that a panic leaves checked out, or one that comes back
with a failed transaction after its body has ignored the failure, breaks no
promise of `Transactions`: `NoConnectionLeak` and `IdleConnectionsClean` are
about connections, and hold without panics and without such bodies.

## 3. Runs

| Run | Instance | Shows |
|---|---|---|
| `cache_safety` | 2 tasks, 1 file, 3 builds (two with one mtime), 4 addresses | types, `FreshModule`, `SingleLoad`, `NoDuplicateModule`, `ImplementsLookup` |
| `cache_liveness` | 2 tasks, 1 file, 2 builds, 3 addresses, no symmetry | `CallsAnswered` |
| `cache_nomtime` | the same with `ModifiedCanFail` | `CallsAnswered` fails: finding 1 |
| `workers_directories` | unix socket, 2 requests, 2 directories, 1 setter | `ServedFromConfiguredDirectory`, `ReplacedByOtherModule`, `ImplementsService` |
| `workers_redeploy` | 3 requests in test mode, 2 builds | `ServedFresh`, `OneCallPerStore` |
| `workers_liveness` | both modes, 2 requests, 1 directory, 1 setter, 2 builds, fairness | the type invariant, with the modules `ModuleLookup` keeps equal to the workers'; `EveryRequestAnswered` |
| `workers_downgrade` | test mode, 2 tasks, 2 builds | `RefreshNeverDowngrades` fails: finding 2 |
| `workers_panic` | unix socket, 2 requests, 1 setter | `PanicRestartsVM` fails: finding 3 |
| `tx_retries` | 2 guests, 2 connections, `MAX_ITERATIONS` 3 as in the code | types, `IdleConnectionsClean`, `NoConnectionLeak`, `ImplementsTransactions` |
| `tx_careless` | 2 guests, 1 connection, bodies with all of `Careless`, fairness, `MAX_ITERATIONS` 1 | `ImplementsTransactions`, `EveryCallReturns` |
| `front_ends` | 3 modes, 2 connections, 2 directories, 2 changes, 1 crash, fairness | types, `AcknowledgedDirectoryServed`, `EveryExchangeEnds`, `EveryStartServes` |
| `guest` | every file with 2 hooks, all 6 filters, all 5 levels | types, `StartedInOrder`, `NoRecordLost`, `AnsweredByTheHandler` |

**Bounds.** `MaxVersion` bounds how often a file is replaced: two replacements
give a module older than the one being loaded, one being loaded that is
already stale, and one with the modification time of another. `Cells` is large
enough that a look-up always finds a free address: one in the map, one per task
and one per worker that is kept. `Workers` has one for each name and one
for each request that still runs in a worker that has been replaced
(`workers_redeploy` has three, so that the third replacement of a worker has to
wait for the destructor of an earlier one). All runs of `WorkerCache` have one
database: databases share modules (two with one directory) and the lock of the
workers, but each key has its own entry in every map. Files at different paths share
nothing but the mutex, so one path suffices in `ModuleCache`; `WorkerCache` has
two (one per directory). `workers_liveness` has one directory, since with two
its behaviours are too many to check for liveness: there `Purge` waits for the lock
of the workers, which is what can keep it, and finds nothing to remove; what it
removes is in `workers_directories`. Two tasks give every race of a look-up, a load or a lock; the third
in `workers_redeploy` lets two of them wait for one store while a third
replaces the worker. `MaxCounter` bounds what calls may add to the counter: two
transactions can run at the same time, and one after another. When the bound is
reached no call can be made, so the runs of `ClientTx` do not look for
deadlock: `EveryCallReturns` does, in an instance with one connection, where
waiting is longest, and one retry, after which a count that is wrong never
ends. `MaxChanges` leaves one change of directory to a server that has been
killed (`MaxCrashes` is one less: the test server makes a change when it
starts). Two connections are one that waits and one that is in its way; two
hooks have an order, and can both register. Symmetry is used in safety runs only.

**Fairness.** tokio polls every task that is ready: weak fairness of a task's
own steps. Waiting for a lock or a connection is strong fairness: tokio's
`RwLock`, `Mutex` and the pool's semaphore are granted in the order they were
asked for; a task of `WorkerCache` and a guest of `ClientTx` have it for all
they do, since wherever they do not wait it is the same as weak. In
`FrontEnds` nothing waits but for a peer, which owes nothing (`EveryExchangeEnds`
is about peers that have sent their request or left), or for the tenant, which
answers by `EveryRequestAnswered`; a server that is killed is started again, as
EdgeDB does, and killed finitely often. `EveryRequestAnswered` assumes that guest code and `_get_module`
return (the latter is `CallsAnswered`); nothing in the code stops a guest that
does not, and then every request that needs the write lock waits.
`CallsAnswered` is conditional on callers resting (`CallsQuiesce`): the number
of builds is bounded, but other calls may otherwise evict and drop modules for
ever. `EveryCallReturns` is conditional on a connection that no panic has
leaked. Nobody is forced to call, to drop a module, to replace a file, to fail an
acquire or to hang up.

**Findings.**

1. `tenant.rs:243-246` logs "Skipping the check and do not refresh" and goes
   round the loop: the call spins if `modified()` keeps failing. It takes a
   file system where `modified()` fails after it succeeded at the load.
2. `get_worker` (`tenant.rs:266-274`) takes a worker with another module to be
   stale. A request that has waited replaces the worker of the new build by one
   of the old build; the next request builds a third. No request is served by a
   build older than itself (`ServedFresh` holds), but the state of the newer
   worker is lost.
3. `sdk/src/bug.rs:3-5` says that the VM is restarted after a panic;
   `handle_http` (`worker.rs:161-168`) keeps the worker. With it stays the
   store's table of handles: a panic in a transaction's body keeps its
   connection, and the open transaction, as long as the worker lives
   (`NoConnectionLeak` holds without `panic` in `Careless` only).

## 4. Proofs

**The module cache.** `ModuleCache_proofs` proves for every instance of the constants that satisfies
`CacheAssumption` (modification times never run backwards, `None` is no
element of the other sets):

| Theorem | States |
|---|---|
| `Invariant` | `Spec => []IInv` |
| `TypeCorrect` | `Spec => []TypeOK` |
| `FreshModuleHolds` | `Spec => []FreshModule` |
| `SingleLoadHolds` | `Spec => []SingleLoad` |
| `NoDuplicateModuleHolds` | `Spec => []NoDuplicateModule` |
| `KeepsThePromise` | `Spec => ImplementsLookup` |

The properties are not inductive; `IInv` (at the head of the
module, as in the others) adds what makes them so.

* `CellsInPlace`: who refers to what, and that the `loader` of a cell is the
  one task that says it is loading it.
* `PendingIsCurrent`: a cell that tasks still have to initialise is in the map.
  So two tasks that load one path load one cell, and a cell has one loader:
  `SingleLoad`. It is kept by `Evict` because of `Arc::ptr_eq`: the task that
  evicts holds a loaded cell, so the cell it removes is a loaded one.
* `BuildsOrdered`: start of the call ≤ stat ≤ recorded ≤ read ≤ disk. The
  freshness of loaded modules follows; that of shared ones from `Check`.
* `DisplacedIsOlder`: a live module that is no longer in the map is older than
  the file, and than what is being loaded. A module that has just been loaded
  therefore has no live twin: `NoDuplicateModule`. It is kept because `Evict`
  runs only after `new > module.modification_time`.

`GotoEffect`, `TakeCellEffect` and `ReturnEffect` say what the helpers do to
`task`; `QuietStep`, `MoveStep` and `ReturnStep` give the invariant for the
steps that leave the cells alone; there is one lemma per other action, with a
step per conjunct; `NextIInv` puts them together.

For the refinement, a step inside a call is a stutter (`InsideMaps`,
`LookupMissMaps`), unless a reference that only the call held goes with it
(`RestartMaps`: `Expire`, by `Forgotten`, which says that what stops being
`Alive` is neither kept nor returned). A loaded module answers its call
(`LoadReadMaps`); that nothing live at its path has its modification time is
`DisplacedIsOlder`. A shared one answers if `Check` does not find the file
newer (`CheckMaps`).

**Workers and directories.** `WorkerCache_proofs` proves for every instance of
the constants that satisfies `LookupAssumption` and `WorkerAssumption` (a path
is a directory and a name, `None` is nobody's name, setters are not requests):

| Theorem | States |
|---|---|
| `Invariant` | `Spec => []IInv` |
| `TypeCorrect` | `Spec => []TypeOK` |
| `ServedFromConfiguredDirectoryHolds` | `Spec => []ServedFromConfiguredDirectory` |
| `ServedFreshHolds` | `Spec => []ServedFresh` |
| `OneCallPerStoreHolds` | `Spec => []OneCallPerStore` |
| `ReplacedByOtherModuleHolds` | `Spec => ReplacedByOtherModule` |
| `KeepsThePromise` | `Spec => ImplementsService` |

The properties speak of requests in a worker only. `IInv`
follows them back to where the request came from:

* `LookupInv`: what `_get_module` promises of modules and
  calls, whatever the rest of the server does. It is proved for the actions of
  `ModuleLookup` once (`AskKeeps`, `AnswerSharedKeeps`, `AnswerLoadedKeeps`, ...).
* `WorkerInPlace`, `Cached`: a worker's module is of its name, and a worker in
  the map is there under its own key.
* `RequestInPlace`: the call a request makes is for its own name, in a directory
  in force since the request was made, and not older than the request. So is
  the module that answers it, and `Current`, the test of both looks, gives the
  request no worker but one that runs that very module (`TakeWorkerKeeps`).
* `LocksInPlace`: the one that holds the write lock is the request that is
  about to build, and what it is about to replace runs another module (the
  second look; `ReplacedByOtherModule`); who holds a store is who runs in it.
* `Served`: the properties, from the moment a request has its worker.

`TaskStep` says that a step of one request keeps what is said of the others, so
that the lemma of each action speaks of its own request; `SetDirectory`, `Purge`,
`DropWorker` and the environment touch all of them and have proofs of their
own. For the refinement, the step that gives a request its worker serves it
(`UseWorkerMaps`); the module of a worker does not change under it
(`WorkersStay`), so nothing else does.

**The front ends.** `FrontEnds_proofs` proves for every instance that satisfies
`FrontEndAssumption` and `PathAssumption` (finitely many connections; the bound
of changes leaves one to a process after each crash; a path that is routed names a
key of the tenant):

| Theorem | States |
|---|---|
| `Invariant` | `Spec => []IInv` |
| `TypeCorrect` | `Spec => []TypeOK` |
| `AcknowledgedDirectoryServedHolds` | `Spec => []AcknowledgedDirectoryServed` |

`AcknowledgedDirectoryServed` is about pages that are written. `IInv` has
in it what leads to one:

* `Exchange`: what the ends of a connection are doing fits together.
* `Sent`: what was acknowledged when a request was sent had been changed by then.
* `ForPeer`: the tenant works for what the peer has sent, and every directory it
  may serve the request from is recent enough for that peer. It holds when the
  call is made because of `InForce`: the directory in force is the last one set,
  and what is acknowledged is in force or older. It is kept since the tenant
  promises nothing but directories its database has had since (`ServiceInv`).
* `RoomKept`: the bound of the model has a place for every change that has been
  sent, so that no step is cut off by a type.

`ConnStep` is to connections what `TaskStep` is to requests. A change of
directory, from a setter or at the start of the test server, goes through
`ChangesEffect` and `RecentAfter`: what was recent is recent, and the new
directory is recent for everybody. `CrashKeeps` and `StartKeeps` are restarts:
the new process knows no directory, and serves nothing until it is told one.

**Guest start-up and logging.** `GuestInit_proofs` proves for every instance
that satisfies `GuestAssumption` (finitely many hooks, none with a reserved
name, `None` no name):

| Theorem | States |
|---|---|
| `Invariant` | `Spec => []IInv` |
| `TypeCorrect` | `Spec => []TypeOK` |
| `StartedInOrderHolds` | `Spec => []StartedInOrder` |
| `NoRecordLostHolds` | `Spec => []NoRecordLost` |
| `AnsweredByTheHandlerHolds` | `Spec => []AnsweredByTheHandler` |

`Plan` is all that a start comes to. `PlanShape` and `PlanFacts` say what is in
it: `PreInit` first, the hooks in the order they are exported, `PostInit`,
`Main`, each function once (`Comes` is then an order). `Started` ties it to the
state: `todo` is the rest of the plan, `ran` has what the part done has in it,
in its order. When `todo` is empty, that is `StartedInOrder`. `LoggerSet`: pre_init,
which is first, has set the filter before anything can log, and the
filter and the levels survive their two matches each: `Tables` evaluates the four,
arm by arm, `LevelsSurvive` puts the two of a pair together, and
`MaxLevelIsFilter` follows; hence `NoRecordLost`. `Registered`: the handler is the one
function that has run and registers, so with all of the plan done it is the one
in the file, or there is none.

**The transaction loop.** `ClientTx_proofs` proves for every instance of the
constants that satisfies `ClientAssumption` (finitely many guests, bodies of at
least one statement, `None` no guest or connection):

| Theorem | States |
|---|---|
| `Invariant` | `Spec => []IInv` |
| `TypeCorrect` | `Spec => []TypeOK` |
| `NoConnectionLeakHolds` | `Spec => []NoConnectionLeak` if `"panic" \notin Careless` |
| `IdleConnectionsCleanHolds` | `Spec => []IdleConnectionsClean` if `"ignore" \notin Careless` |
| `KeepsThePromise` | `Spec => ImplementsTransactions` |

`IInv` holds whatever bodies do, and has in it what each kind
of carelessness takes away:

* `RoomKept`: the bound of the model leaves room for every call that has yet to
  take effect, so that no step is cut off by the type of `counter`. `Room` alone
  is not inductive: it counts calls that have taken effect.
* `InLoop`: where a guest is in the loop says whether it has a transaction, an
  error and statements left. So a transaction that is committed ran all of its
  statements, and a statement that is executed is one the host lets through.
* `InSession`: the session of a transaction has at most what the body ran, and
  exactly that as long as no error was ignored. With `InLoop` this is all or
  nothing: COMMIT adds `Queries` to the counter.
* `Pooled`: `IdleConnectionsClean` and `NoConnectionLeak`, each under the
  carelessness it needs to be without.

A connection belongs to one guest at a time (`Handles`), so a step of one guest
disturbs nothing of another's: `OthersUndisturbed`, and with it `StepKeeps`,
which leaves to each action its own guest and connection. `MoveKeeps`,
`HoldKeeps` and `GiveBackKeeps` are its three uses: the connection stays as it
was, is changed or taken, or goes back. `RoomMoves`, `RoomApplies` and
`RoomBegins` are the bound, by cardinalities. There is one lemma per action,
and `NextIInv` puts them together. For the refinement every step of a guest is
one of three: it begins a call (`BeginMaps`), applies it (`ApplyMaps`) or ends
it (`Answers`), and all others are stutters (`Stutters`).

**Model-checked only.** Every safety property and every refinement that a run
checks is proved. Left to TLC are `CallsAnswered`, `EveryRequestAnswered`,
`EveryCallReturns`, `EveryExchangeEnds` and `EveryStartServes` (liveness under
fairness is outside of what the provers do), and the three properties that are
violated. A promise is used as it is proved: `WorkerCache` takes the actions of
`ModuleLookup`, and `FrontEnds` those of `TenantService`, where the code calls
the component that implements them; only `Crash` goes beyond the promise, by
starting the tenant over.

## 5. Not modelled

* HTTP itself (framing, keep-alive, pipelining), pickle and URL parsing: they
  are `hyper`'s, `serde_pickle`'s and `http`'s, and present as success or failure.
  So are the conversions of requests and answers; on the unix socket one of
  them collapses repeated headers (`unix_sock.rs:180`), which is listed as a
  hazard and not checked.
* Descriptors: `FrontEnds` accepts whenever a peer waits. A server that is out of
  descriptors, which peers that never finish a request can keep it, goes round
  its accept loop (`main.rs:63`).
* A test server without `--wasm-dir`, and options in general: the process ends
  before it serves.
* Values, type descriptors and cardinalities on the way between guest and EdgeDB
  (`client_v1.rs`, `client.rs`): total functions between types of the same
  shape, or failures, which `QueryFail` and `ClientQueryFail` have.
  `Transaction`'s and `Client`'s typed variants differ in decoding only, and are
  one operation.
* What becomes of a guest's database call when its request is dropped in test
  mode, and of connections in the handles of a worker that goes away. The second
  depends on whether the pool resets a session, which is not in this repository.
* Generated bindings and the allocator functions they need (`bindgen.rs`), error
  types, examples. The pool a database has is created once and modelled as such
  (`GetClient` runs under the lock of all workers).

## 6. Plan

The model covers what the repository's own code decides, and what is safety in
it is proved. What could be added:

1. Action properties that are not checked yet, with their proofs: what a step
   may never do to the map of modules (only a loaded cell is displaced), to a
   session (COMMIT of a failed transaction) and to an acknowledged directory.
2. The clients of a tenant (`get_client`) as state of `WorkerCache`, if the pool
   gets a life cycle in the code.
3. Hazards that are listed without a property: what is dropped with a request in
   test mode needs a model of the pool's resets, which are not in this
   repository.
