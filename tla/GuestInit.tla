------------------------------- MODULE GuestInit -------------------------------
(***************************************************************************)
(* How a guest is started and answers: Worker::new, call_init and          *)
(* handle_http (server/src/worker.rs), the log functions of both sides     *)
(* (server/src/abi/log_v1.rs, sdk/src/log.rs), and the web handler of the  *)
(* SDK (sdk/src/web/mod.rs, http_server.rs, macros/src/lib.rs).            *)
(*                                                                         *)
(* One wasm file, and the guests that are made of it one after another:    *)
(* each starts with an empty memory, and the file decides what it exports  *)
(* and what its functions do.  Requests come one at a time (WorkerCache    *)
(* has the lock of the store).                                             *)
(***************************************************************************)
EXTENDS Sequences, FiniteSets, SequencesExt

CONSTANTS
  Hooks,        \* names of init hooks, the web handlers' among them
  None,
  HostFilters,  \* what log::max_level() of the host may be
  RecordLevels  \* the levels guest code logs at

PreInit == "_edgedb_sdk_pre_init"
PostInit == "_edgedb_sdk_post_init"
Main == "_start"
Functions == Hooks \cup {PreInit, PostInit, Main}

(* log::Level, from the least verbose to the most, log::LevelFilter, and    *)
(* the level of the interface, of which a filter is an option.             *)
Levels == <<"Error", "Warn", "Info", "Debug", "Trace">>
LevelNames == Range(Levels)
Filters == LevelNames \cup {"Off"}
WitLevels == {"error", "warn", "info", "debug", "trace"}

(* The guest's match for the level of a record, and the host's.            *)
WitLevel == [l \in LevelNames |->
  CASE l = "Error" -> "error" [] l = "Warn" -> "warn" [] l = "Debug" -> "debug"
    [] l = "Info" -> "info" [] l = "Trace" -> "trace"]
HostLevel == [w \in WitLevels |->
  CASE w = "error" -> "Error" [] w = "warn" -> "Warn" [] w = "debug" -> "Debug"
    [] w = "info" -> "Info" [] w = "trace" -> "Trace"]

(* The host's match for its filter, and the guest's for what it is told.   *)
ConvertLevel == [f \in Filters |->
  CASE f = "Off" -> None [] f = "Error" -> "error" [] f = "Warn" -> "warn"
    [] f = "Info" -> "info" [] f = "Debug" -> "debug" [] f = "Trace" -> "trace"]

(* Mutation of ConvertFilter: two arms are mixed up.                       *)
ConvertFilterSwapped == [w \in WitLevels \cup {None} |->
  CASE w = None -> "Off" [] w = "error" -> "Error" [] w = "warn" -> "Warn"
    [] w = "info" -> "Debug" [] w = "debug" -> "Info" [] w = "trace" -> "Trace"]

ConvertFilter == [w \in WitLevels \cup {None} |->
  CASE w = None -> "Off" [] w = "error" -> "Error" [] w = "warn" -> "Warn"
    [] w = "info" -> "Info" [] w = "debug" -> "Debug" [] w = "trace" -> "Trace"]

(* The order of the log crate: Off lets nothing pass.                      *)
Passes(l, f) ==
  f # "Off" /\ \E i, j \in DOMAIN Levels : Levels[i] = l /\ Levels[j] = f /\ i <= j

ASSUME GuestAssumption ==
  /\ HostFilters \subseteq Filters
  /\ RecordLevels \subseteq LevelNames
  /\ IsFiniteSet(Hooks) /\ Hooks \cap {PreInit, PostInit, Main} = {}
  /\ None \notin Functions \cup Filters \cup WitLevels

(* What the function of a guest does when it is called; pre_init is the    *)
(* SDK's.  "wrong_type" is an export with parameters or results.           *)
Deeds == {"nothing", "log", "register", "wrong_type"}

VARIABLES
  exports,  \* the functions the module exports that call_init looks for, in order
  deed,     \* deed[f]: what function f does
  filter,   \* log::max_level() of the host
  stage,    \* "none": no guest; "starting": in Worker::new; "ready": in a worker
  todo,     \* what Worker::new still has to call; None where there is nothing
  ran,      \* history: those that have returned
  logger,   \* LOGGER and log::max_level() of the guest; None before they are set
  handler,  \* WEB_HANDLER: the function that registered it, or None
  record,   \* history: the last record of this guest, and what the host got of it
  answer    \* how the last request was answered

fileVars == <<exports, deed, filter>>
memoryVars == <<logger, handler, record>>
vars == <<fileVars, stage, todo, ran, memoryVars, answer>>

NoRecord == [level |-> None, host |-> None]
Answer(status, by) == [status |-> status, by |-> by]
NoAnswer == Answer("none", None)
Error500 == Answer("500", None)

TypeOK ==
  /\ exports \in Seq(Functions \ {Main})
  /\ deed \in [Functions -> Deeds]
  /\ filter \in HostFilters
  /\ stage \in {"none", "starting", "ready"}
  /\ todo \in Seq(Functions \cup {None}) /\ ran \in Seq(Functions)
  /\ logger \in Filters \cup {None}
  /\ handler \in Functions \cup {None}
  /\ record \in [level : LevelNames \cup {None}, host : LevelNames \cup {None}]
  /\ answer \in [status : {"none", "404", "500", "page"}, by : Functions \cup {None}]
  /\ stage = "none" => ran = <<>> /\ logger = None /\ handler = None
  /\ todo # <<>> => stage = "starting"

-----------------------------------------------------------------------------
(* Mutation of CallInit: functions are called as they are exported.        *)
CallInitAsExported(es) == es

(* call_init: pre_init first, post_init last, whatever the exports' order. *)
(* The filter_map is the sequence in the middle, with None for what it     *)
(* leaves out.                                                             *)
CallInit(es) ==
  LET Exported(f) == IF f \in Range(es) THEN f ELSE None
  IN  <<Exported(PreInit)>> \o [i \in DOMAIN es |-> IF es[i] \in Hooks THEN es[i] ELSE None]
        \o <<Exported(PostInit)>>

(* Mutation of NoGuest: the store is kept for the next guest.              *)
NoGuestKeepsStore ==
  /\ stage' = "none"
  /\ todo' = <<>> /\ ran' = <<>>
  /\ UNCHANGED memoryVars

(* The store, and the guest's memory with it, is dropped.                  *)
NoGuest ==
  /\ stage' = "none"
  /\ todo' = <<>> /\ ran' = <<>>
  /\ logger' = None /\ handler' = None /\ record' = NoRecord

-----------------------------------------------------------------------------
(* A request finds no worker.                                              *)
New ==
  /\ stage = "none"
  /\ stage' = "starting"
  /\ todo' = Append(CallInit(exports), Main)
  /\ answer' = NoAnswer
  /\ UNCHANGED <<fileVars, ran, memoryVars>>

(* Anything on the way fails: the pool, the instance, its interface, a     *)
(* function that has another type than it should, or one that traps.       *)
StartFail ==
  /\ stage = "starting"
  /\ todo # <<>>
  /\ NoGuest
  /\ answer' = Error500
  /\ UNCHANGED fileVars

(* max_level, as the host tells it and the guest understands it.           *)
MaxLevel == ConvertFilter[ConvertLevel[filter]]

(* The macros of the log crate and HostLogger ask the same of a record.    *)
(* Before pre_init the guest's max_level is Off.                           *)
Enabled(l) == logger # None /\ Passes(l, logger)

(* HostLogger::log, and the log function of the host.                      *)
Log(l) == record' = [level |-> l, host |-> IF Enabled(l) THEN HostLevel[WitLevel[l]] ELSE None]

(* log::init: set_logger panics if it is called again.                     *)
RunPreInit ==
  /\ deed[PreInit] # "wrong_type"
  /\ logger = None
  /\ logger' = MaxLevel
  /\ UNCHANGED <<handler, record>>

(* Mutation of Register: the first one registered stays.                   *)
RegisterFirst(f) == handler' = IF handler = None THEN f ELSE handler

(* register_handler: OnceCell::set, and a panic if it has been set.        *)
Register(f) == handler = None /\ handler' = f

RunFunction(f) ==
  \/ deed[f] = "nothing" /\ UNCHANGED memoryVars
  \/ deed[f] = "log" /\ (\E l \in RecordLevels : Log(l)) /\ UNCHANGED <<logger, handler>>
  \/ deed[f] = "register" /\ Register(f) /\ UNCHANGED <<logger, record>>

Run(f) ==
  /\ IF f = PreInit THEN RunPreInit ELSE RunFunction(f)
  /\ ran' = Append(ran, f)

(* The next function, if it is there, is called, and returns.              *)
CallNext ==
  /\ stage = "starting"
  /\ todo # <<>>
  /\ IF Head(todo) = None THEN UNCHANGED <<ran, memoryVars>> ELSE Run(Head(todo))
  /\ todo' = Tail(todo)
  /\ UNCHANGED <<fileVars, stage, answer>>

(* Worker::new returns, and the worker is put in its map.                  *)
Built ==
  /\ stage = "starting"
  /\ todo = <<>>
  /\ stage' = "ready"
  /\ UNCHANGED <<fileVars, todo, ran, memoryVars, answer>>

-----------------------------------------------------------------------------
(* handle_request of the SDK: no handler, no page.                         *)
NoHandler ==
  /\ stage = "ready"
  /\ handler = None
  /\ answer' = Answer("404", None)
  /\ UNCHANGED <<fileVars, stage, todo, ran, memoryVars>>

HandlerResponds ==
  /\ stage = "ready"
  /\ handler # None
  /\ answer' = Answer("page", handler)
  /\ \/ UNCHANGED record
     \/ \E l \in RecordLevels : Log(l)
  /\ UNCHANGED <<fileVars, stage, todo, ran, logger, handler>>

(* The request cannot be built (its method or its URI are none), or the    *)
(* handler panics, for one because it registers a handler: the guest is    *)
(* stopped and kept.                                                       *)
HandlerTraps ==
  /\ stage = "ready"
  /\ handler # None
  /\ answer' = Error500
  /\ UNCHANGED <<fileVars, stage, todo, ran, memoryVars>>

(* The worker is replaced or purged.                                       *)
Drop ==
  /\ stage = "ready"
  /\ NoGuest
  /\ answer' = NoAnswer
  /\ UNCHANGED fileVars

-----------------------------------------------------------------------------
Init ==
  /\ exports \in UNION {SetToSeqs(S) : S \in SUBSET (Functions \ {Main})}
  /\ deed \in {d \in [Functions -> Deeds] :
                 /\ d[PreInit] \in {"nothing", "wrong_type"}
                 /\ \A f \in (Functions \ {Main}) \ Range(exports) : d[f] = "nothing"}
  /\ filter \in HostFilters
  /\ stage = "none"
  /\ todo = <<>> /\ ran = <<>>
  /\ logger = None /\ handler = None /\ record = NoRecord
  /\ answer = NoAnswer

Next ==
  \/ New \/ StartFail \/ CallNext \/ Built
  \/ NoHandler \/ HandlerResponds \/ HandlerTraps \/ Drop

Spec == Init /\ [][Next]_vars

-----------------------------------------------------------------------------
(* A worker is cached only after all of its functions have returned, each  *)
(* once: pre_init before any hook, post_init after every one, main last,   *)
(* and hooks in the order they are exported.                               *)
StartedInOrder ==
  stage = "ready" =>
    LET At(f) == CHOOSE i \in DOMAIN ran : ran[i] = f
    IN  /\ Range(ran) = Range(exports) \cup {Main} /\ IsInjective(ran)
        /\ ran[Len(ran)] = Main
        /\ \A f, g \in Range(exports) :
             \/ f = PreInit /\ g # PreInit
             \/ g = PostInit /\ f # PostInit
             \/ f \in Hooks /\ g \in Hooks
                  /\ \E i, j \in DOMAIN exports : i < j /\ exports[i] = f /\ exports[j] = g
             => At(f) < At(g)

(* In a module made with the SDK no record is lost or changes its level:   *)
(* whatever function logs, its records reach the host's logger exactly if  *)
(* the host's filter lets them pass, though levels and filters go through  *)
(* two matches each on their way.                                          *)
NoRecordLost ==
  PreInit \in Range(exports) /\ record # NoRecord =>
    record.host = IF Passes(record.level, filter) THEN record.level ELSE None

(* What a page comes from is settled by the file: from the one function    *)
(* that registers a handler; there is none to answer "not found" for want  *)
(* of a handler, and with two of them there is no worker to answer at all. *)
AnsweredByTheHandler ==
  LET Registering == {f \in Range(exports) \cup {Main} : deed[f] = "register"}
  IN  /\ answer.status = "page" => Registering = {answer.by}
      /\ answer.status = "404" => Registering = {}
=============================================================================
