------------------------------- MODULE WorkerCache -------------------------------
(***************************************************************************)
(* Workers: Tenant::handle, get_module, get_worker and set_directory       *)
(* (server/src/tenant.rs) with Worker::new and handle_http                 *)
(* (server/src/worker.rs).                                                 *)
(*                                                                         *)
(* A worker is an instantiated module with a name, the pair of a database  *)
(* and a wasm name.  TenantInner::workers keeps at most one per name; a    *)
(* request goes to it if it runs the very module _get_module returned, and *)
(* otherwise builds another in its place.  _get_module itself is used      *)
(* through its promise, ModuleLookup: a task of this module is a task of   *)
(* that one, and the modules kept there are those of the workers here.     *)
(***************************************************************************)
EXTENDS ModuleLookup

CONSTANTS
  Dbs, Names, Dirs,  \* databases, wasm names, directories of wasm files
  Workers,           \* the addresses of workers; reused once free
  Setters,           \* tasks that serve SetDirectory requests
  Modes,             \* what the server may run as: on a unix socket, or as HTTP test server
  TestDb             \* "edgedb", the one database of the test server

Keys == Dbs \X Names

ASSUME WorkerAssumption ==
  /\ Paths = Dirs \X Names
  /\ None \notin Dbs \cup Names \cup Dirs \cup Workers \cup Setters
  /\ None \notin Keys \cup [key : Keys, dir : Dirs]
  /\ Tasks \cap Setters = {}
  /\ Modes \subseteq {"unix", "http"}
  /\ TestDb \in Dbs

VARIABLES
  mode,         \* how this server was started
  directories,  \* TenantInner::directories: the directory of each database, or None
  clients,      \* TenantInner::clients: the databases that have a connection pool
  workers,      \* TenantInner::workers: the worker of each name, or None
  worker,       \* worker[w]: its name and its module
  built,        \* the workers that are not deallocated
  halted,       \* those whose guest code was stopped in the middle of a call
  writer,       \* who holds the write lock of workers across an await, or None
  store,        \* store[w]: who holds the mutex of the worker's store, or None
  req,          \* req[t]: where task t is with its request
  setter        \* setter[s]: what set_directory still has to purge

dirVars == <<mode, directories, setter>>
poolVars == <<clients, workers, worker, built, halted, writer, store>>
workerVars == <<mode, directories, clients, workers, worker, built, halted, writer, store, req, setter>>
vars == <<lookupVars, workerVars>>

NoRequest == [pc |-> "idle", key |-> None, worker |-> None, dirs |-> {}, since |-> None]
NoSetter == [db |-> None, dir |-> None]

(* dirs and since are history: the directories the database was configured *)
(* with since the request was made, and the builds on disk at that time.   *)
Request == [pc : {"dir", "module", "write", "client", "build", "store", "run"},
            key : Keys, worker : Workers \cup {None}, dirs : SUBSET Dirs, since : [Paths -> Versions]]

(* get_worker holds the module in its hands.                               *)
Returned == {"write", "client", "build"}

(* _get_module is called, and its result held, exactly where get_worker    *)
(* does so.                                                                *)
InHand(t) ==
  /\ req[t].pc \in Returned => call[t].status = "returned"
  /\ call[t].status # "idle" => req[t].pc \in {"module"} \cup Returned
  /\ req[t].worker # None <=> req[t].pc \in {"store", "run"}

TypeOK ==
  /\ mode \in Modes
  /\ directories \in [Dbs -> Dirs \cup {None}]
  /\ clients \in SUBSET Dbs
  /\ workers \in [Keys -> Workers \cup {None}]
  /\ worker \in [Workers -> [key : Keys \cup {None}, module : Cells \cup {None}]]
  /\ built \in SUBSET Workers
  /\ halted \in SUBSET built
  /\ writer \in Tasks \cup {None}
  /\ store \in [Workers -> Tasks \cup {None}]
  /\ req \in [Tasks -> Request \cup {NoRequest}]
  /\ setter \in [Setters -> [db : Dbs, dir : Dirs] \cup {NoSetter}]
  /\ \A t \in Tasks : InHand(t)
  (* the modules ModuleLookup keeps are the workers' modules *)
  /\ keep = {worker[w].module : w \in built}

-----------------------------------------------------------------------------
InMap(w) == workers[worker[w].key] = w
Held(w) == \E t \in Tasks : req[t].worker = w

Goto(t, pc) == req' = [req EXCEPT ![t].pc = pc]
Answer(t) == req' = [req EXCEPT ![t] = NoRequest]
UseWorker(t, w) == req' = [req EXCEPT ![t] = [@ EXCEPT !.pc = "store", !.worker = w]]

(* Mutation of Current: any worker of that name will do.                   *)
CurrentByName(t) == workers[req[t].key] # None

(* Worker in the map under the request's name, if it runs the module that  *)
(* _get_module returned (Arc::ptr_eq).                                     *)
Current(t) ==
  LET w == workers[req[t].key]
  IN  w # None /\ (w # None => worker[w].module = call[t].module)

-----------------------------------------------------------------------------
(* Tenant::handle has routed a request to get_worker.                      *)
Handle(t, k) ==
  /\ req[t].pc = "idle"
  /\ req' = [req EXCEPT ![t] =
               [pc |-> "dir", key |-> k, worker |-> None,
                dirs |-> {directories[k[1]]} \ {None}, since |-> disk]]
  /\ UNCHANGED <<lookupVars, dirVars, poolVars>>

(* get_module: the directory of the database is read under its lock, which *)
(* nobody holds across an await.                                           *)
GetModule(t) ==
  LET k == req[t].key
      dir == directories[k[1]]
  IN  /\ req[t].pc = "dir"
      /\ dir # None
      /\ Ask(t, <<dir, k[2]>>)
      /\ Goto(t, "module")
      /\ UNCHANGED <<dirVars, poolVars>>

NoDirectory(t) ==
  /\ req[t].pc = "dir"
  /\ directories[req[t].key[1]] = None
  /\ Answer(t)
  /\ UNCHANGED <<lookupVars, dirVars, poolVars>>

(* _get_module answers, as it has promised.                                *)
ModuleFound(t) ==
  /\ AnswerShared(t) \/ AnswerLoaded(t)
  /\ UNCHANGED workerVars

ModuleError(t) ==
  /\ GiveUp(t)
  /\ Answer(t)
  /\ UNCHANGED <<dirVars, poolVars>>

(* Under the read lock, which waits for a writer but is not held: take the *)
(* worker, and drop the module, or go for the write lock.                  *)
ReadWorkers(t) ==
  /\ req[t].pc = "module"
  /\ call[t].status = "returned"
  /\ writer = None
  /\ \/ Current(t) /\ UseWorker(t, workers[req[t].key]) /\ Discard(t)
     \/ ~Current(t) /\ Goto(t, "write") /\ UNCHANGED lookupVars
  /\ UNCHANGED <<dirVars, poolVars>>

(* Mutation of LockWorkers: no second look.                                *)
LockWorkersAtOnce(t) ==
  /\ req[t].pc = "write"
  /\ writer = None
  /\ writer' = t
  /\ Goto(t, "client")
  /\ UNCHANGED <<lookupVars, dirVars, clients, workers, worker, built, halted, store>>

(* Under the write lock: look again, and keep the lock to build a worker.  *)
LockWorkers(t) ==
  /\ req[t].pc = "write"
  /\ writer = None
  /\ \/ Current(t) /\ UseWorker(t, workers[req[t].key]) /\ Discard(t) /\ UNCHANGED writer
     \/ ~Current(t) /\ writer' = t /\ Goto(t, "client") /\ UNCHANGED lookupVars
  /\ UNCHANGED <<dirVars, clients, workers, worker, built, halted, store>>

(* Worker::new begins with get_client: a database gets one pool, for good. *)
GetClient(t) ==
  /\ req[t].pc = "client"
  /\ clients' = clients \cup {req[t].key[1]}
  /\ Goto(t, "build")
  /\ UNCHANGED <<lookupVars, dirVars, workers, worker, built, halted, writer, store>>

(* Worker::new returns (the instance, its init functions and its main are  *)
(* done) and the worker replaces the one of its name.  Nothing compares    *)
(* the addresses of workers: it is the first free one.                     *)
BuildWorker(t) ==
  LET k == req[t].key
      w == CHOOSE v \in Workers : v \notin built
  IN  /\ req[t].pc = "build"
      /\ built # Workers
      /\ worker' = [worker EXCEPT ![w] = [key |-> k, module |-> call[t].module]]
      /\ built' = built \cup {w}
      /\ workers' = [workers EXCEPT ![k] = w]
      /\ UseWorker(t, w)
      /\ writer' = None
      /\ Adopt(t)
      /\ UNCHANGED <<dirVars, clients, halted, store>>

(* Mutations of BuildFail: the lock, or the module, is not let go.         *)
BuildFailLocked(t) ==
  /\ req[t].pc \in {"client", "build"}
  /\ Discard(t)
  /\ Answer(t)
  /\ UNCHANGED <<dirVars, clients, workers, worker, built, halted, writer, store>>

BuildFailKeeps(t) ==
  /\ req[t].pc \in {"client", "build"}
  /\ writer' = None
  /\ Adopt(t)
  /\ Answer(t)
  /\ UNCHANGED <<dirVars, clients, workers, worker, built, halted, store>>

(* Any step of Worker::new fails: nothing is cached, the lock is released. *)
BuildFail(t) ==
  /\ req[t].pc \in {"client", "build"}
  /\ writer' = None
  /\ Discard(t)
  /\ Answer(t)
  /\ UNCHANGED <<dirVars, clients, workers, worker, built, halted, store>>

(* Mutation of TakeStore: the store is not locked.                         *)
TakeStoreUnlocked(t) ==
  /\ req[t].pc = "store"
  /\ store' = [store EXCEPT ![req[t].worker] = t]
  /\ Goto(t, "run")
  /\ UNCHANGED <<lookupVars, dirVars, clients, workers, worker, built, halted, writer>>

(* handle_http: one request at a time runs in the store of a worker.       *)
TakeStore(t) ==
  LET w == req[t].worker
  IN  /\ req[t].pc = "store"
      /\ store[w] = None
      /\ store' = [store EXCEPT ![w] = t]
      /\ Goto(t, "run")
      /\ UNCHANGED <<lookupVars, dirVars, clients, workers, worker, built, halted, writer>>

Respond(t) ==
  /\ req[t].pc = "run"
  /\ store' = [store EXCEPT ![req[t].worker] = None]
  /\ Answer(t)
  /\ UNCHANGED <<lookupVars, dirVars, clients, workers, worker, built, halted, writer>>

(* The guest traps: the answer is an error, the worker stays where it is.  *)
Trap(t) ==
  /\ req[t].pc = "run"
  /\ halted' = halted \cup {req[t].worker}
  /\ store' = [store EXCEPT ![req[t].worker] = None]
  /\ Answer(t)
  /\ UNCHANGED <<lookupVars, dirVars, clients, workers, worker, built, writer>>

(* hyper drops the future of a client that hung up: whatever it holds goes *)
(* with it, locks and references, and a guest call is stopped where it is. *)
HangUp(t) ==
  /\ mode = "http"
  /\ req[t].pc # "idle"
  /\ CASE call[t].status = "waiting" -> GiveUp(t)
       [] call[t].status = "returned" -> Discard(t)
       [] OTHER -> UNCHANGED lookupVars
  /\ writer' = IF writer = t THEN None ELSE writer
  /\ store' = [w \in Workers |-> IF store[w] = t THEN None ELSE store[w]]
  /\ halted' = IF req[t].pc = "run" THEN halted \cup {req[t].worker} ELSE halted
  /\ Answer(t)
  /\ UNCHANGED <<dirVars, clients, workers, worker, built>>

(* The last reference to a worker is gone, with an answer, a replacement   *)
(* or a purge: the thread that dropped it runs the destructor, which drops *)
(* the module, while other threads go on.                                  *)
DropWorker(w) ==
  LET c == worker[w].module
  IN  /\ w \in built
      /\ ~InMap(w) /\ ~Held(w)
      /\ built' = built \ {w}
      /\ halted' = halted \ {w}
      /\ worker' = [worker EXCEPT ![w] = [key |-> None, module |-> None]]
      /\ IF \E v \in built' : worker[v].module = c
           THEN UNCHANGED lookupVars ELSE Abandon(c)
      /\ UNCHANGED <<dirVars, clients, workers, writer, store, req>>

-----------------------------------------------------------------------------
(* Mutation of SetDirectory: entry(..).or_insert(..) in place of insert.   *)
SetDirectoryOnce(s, db, dir) ==
  /\ mode = "unix"
  /\ setter[s] = NoSetter
  /\ directories' = [directories EXCEPT ![db] = IF @ = None THEN dir ELSE @]
  /\ setter' = [setter EXCEPT ![s] = [db |-> db, dir |-> dir]]
  /\ req' = [t \in Tasks |-> IF req[t].pc # "idle" /\ req[t].key[1] = db
                               THEN [req[t] EXCEPT !.dirs = @ \cup {dir}] ELSE req[t]]
  /\ UNCHANGED <<lookupVars, mode, poolVars>>

(* set_directory: the new directory is in force first, and only then, when *)
(* nobody holds the lock, are the database's workers of others forgotten.  *)
SetDirectory(s, db, dir) ==
  /\ mode = "unix"
  /\ setter[s] = NoSetter
  /\ directories' = [directories EXCEPT ![db] = dir]
  /\ setter' = [setter EXCEPT ![s] = [db |-> db, dir |-> dir]]
  /\ req' = [t \in Tasks |-> IF req[t].pc # "idle" /\ req[t].key[1] = db
                               THEN [req[t] EXCEPT !.dirs = @ \cup {dir}] ELSE req[t]]
  /\ UNCHANGED <<lookupVars, mode, poolVars>>

Purge(s) ==
  LET db == setter[s].db
      Stays(w) == worker[w].key[1] # db \/ mod[worker[w].module].path[1] = setter[s].dir
  IN  /\ setter[s] # NoSetter
      /\ writer = None
      /\ workers' = [k \in Keys |-> IF workers[k] # None /\ (workers[k] # None => Stays(workers[k]))
                                      THEN workers[k] ELSE None]
      /\ setter' = [setter EXCEPT ![s] = NoSetter]
      /\ UNCHANGED <<lookupVars, mode, directories, clients, worker, built, halted, writer, store, req>>

-----------------------------------------------------------------------------
Init ==
  /\ LookupInit
  /\ mode \in Modes
  /\ \E dir \in Dirs :
       directories = [db \in Dbs |-> IF mode = "http" /\ db = TestDb THEN dir ELSE None]
  /\ clients = {}
  /\ workers = [k \in Keys |-> None]
  /\ worker = [w \in Workers |-> [key |-> None, module |-> None]]
  /\ built = {} /\ halted = {}
  /\ writer = None
  /\ store = [w \in Workers |-> None]
  /\ req = [t \in Tasks |-> NoRequest]
  /\ setter = [s \in Setters |-> NoSetter]

(* A reference inside _get_module goes away; the files change.             *)
Environment ==
  /\ Expire \/ \E p \in Paths : Install(p)
  /\ UNCHANGED workerVars

(* A task at work, as opposed to a client that asks or hangs up.           *)
Progress(t) ==
  \/ GetModule(t) \/ NoDirectory(t) \/ ModuleFound(t) \/ ModuleError(t)
  \/ ReadWorkers(t) \/ LockWorkers(t)
  \/ GetClient(t) \/ BuildWorker(t) \/ BuildFail(t)
  \/ TakeStore(t) \/ Respond(t) \/ Trap(t)

Next ==
  \/ \E t \in Tasks :
       \/ \E k \in Keys : Handle(t, k)
       \/ Progress(t) \/ HangUp(t)
  \/ \E w \in Workers : DropWorker(w)
  \/ \E s \in Setters : Purge(s) \/ \E db \in Dbs, dir \in Dirs : SetDirectory(s, db, dir)
  \/ Environment

Spec == Init /\ [][Next]_vars

(* A task that can go on does; that takes guest code that returns, and a   *)
(* _get_module that does (CallsAnswered of ModuleCache).  It is strong     *)
(* fairness because the locks are tokio's: they are granted in the order   *)
(* in which they were asked for, so nobody is passed over for ever.        *)
FairSpec ==
  /\ Spec
  /\ \A t \in Tasks : SF_vars(Progress(t))
  /\ \A s \in Setters : SF_vars(Purge(s))
  /\ WF_vars(\E w \in Workers : DropWorker(w))

-----------------------------------------------------------------------------
(* A request is served by the worker of its own database and name, running *)
(* a module from a directory that was in force at some time since the      *)
(* request was made: once set_directory has put the new one in force, no   *)
(* later request sees the old one, even before and while it purges.        *)
ServedFrom(t) ==
  LET w == req[t].worker
      path == mod[worker[w].module].path
  IN  /\ worker[w].key = req[t].key
      /\ path[1] \in req[t].dirs
      /\ path[2] = req[t].key[2]
ServedFromConfiguredDirectory == \A t \in Tasks : req[t].worker # None => ServedFrom(t)

(* ... and that module is no older than its file was when the request was  *)
(* made, whoever built the worker and whatever has been replaced since.    *)
ServedSince(t) ==
  LET m == mod[worker[req[t].worker].module]
  IN  Mtime[req[t].since[m.path]] <= Mtime[m.src]
ServedFresh == \A t \in Tasks : req[t].worker # None => ServedSince(t)

(* One guest call at a time in a worker, and only while the worker exists. *)
OneCallPerStore ==
  \A t, u \in Tasks :
    req[t].pc = "run" /\ req[u].pc = "run" /\ req[t].worker = req[u].worker
      => t = u /\ req[t].worker \in built

(* A cached worker, and what it has in memory, is replaced only by one     *)
(* that runs another module: requests that find the same module missing at *)
(* the same time do not build one worker each.                             *)
ReplacedByOtherModule ==
  [][\A k \in Keys :
       /\ workers[k] # None /\ workers'[k] # None
       /\ workers'[k] # workers[k]
       => worker[workers[k]].module # worker'[workers'[k]].module]_vars

(* Every request is answered and every set_directory returns, whatever is  *)
(* built, replaced, purged, or fails meanwhile.                            *)
EveryRequestAnswered ==
  /\ \A t \in Tasks : req[t].pc # "idle" ~> req[t].pc = "idle"
  /\ \A s \in Setters : setter[s] # NoSetter ~> setter[s] = NoSetter

-----------------------------------------------------------------------------
(* Locks, modules and workers keep the promise the front ends rely on: a   *)
(* request is served once, from a directory in force since it was made,    *)
(* and one that is being served is not touched by what becomes of its      *)
(* directory, of the map or of the file.                                   *)
By(w) == [key |-> worker[w].key, dir |-> mod[worker[w].module].path[1]]
JobOf(t) ==
  IF req[t].pc = "idle" THEN [key |-> None, dirs |-> {}, by |-> None]
  ELSE [key |-> req[t].key, dirs |-> req[t].dirs,
        by |-> IF req[t].worker = None THEN None ELSE By(req[t].worker)]
jobs == [t \in Tasks |-> JobOf(t)]

Service == INSTANCE TenantService WITH job <- jobs
ImplementsService == Service!ServiceSpec

-----------------------------------------------------------------------------
(* "This presumably has to be refreshed, but some other thread could have  *)
(* already done that" (get_worker): a worker is replaced by a newer one.   *)
RefreshNeverDowngrades ==
  [][\A k \in Keys :
       LET old == mod[worker[workers[k]].module]
           new == mod'[worker'[workers'[k]].module]
       IN  /\ workers[k] # None /\ workers'[k] # None
           /\ old.path = new.path
           => Mtime[old.src] <= Mtime[new.src]]_vars

(* "we restart the VM after panic occurs" (sdk/src/bug.rs): no request is  *)
(* given a worker whose guest has panicked.                                *)
PanicRestartsVM ==
  [][\A t \in Tasks :
       req[t].worker = None /\ req'[t].worker # None => req'[t].worker \notin halted]_vars
=============================================================================
