------------------------------- MODULE FrontEnds -------------------------------
(***************************************************************************)
(* The ways into the server: main.rs, unix_sock.rs, hyper.rs and           *)
(* Tenant::handle up to get_worker.                                        *)
(*                                                                         *)
(* A server listens on an inherited descriptor ("fd"), on a socket it      *)
(* creates ("unix"), or is the HTTP test server ("http").  On the sockets  *)
(* a connection carries one pickled request and one answer; for the test   *)
(* server a connection stands for one exchange.  Each has a task of its    *)
(* own, and what the tasks share is the tenant, used through its promise   *)
(* (TenantService).  The process may be killed and is started again: the   *)
(* tenant starts empty, and the file of the socket is left behind.         *)
(***************************************************************************)
EXTENDS TenantService, Naturals, Sequences, FiniteSets

CONSTANTS
  Main,        \* the task that starts the server
  Modes,       \* the ways it may have been started
  Paths,       \* paths of URLs, split at `/'
  TestDb,      \* "edgedb", the database of the test server
  TestDir,     \* --wasm-dir
  MaxChanges,  \* bound: how often the directory of a database is set
  MaxCrashes   \* bound: how often the process is killed

ASSUME FrontEndAssumption ==
  /\ Setters = Tasks \cup {Main} /\ Main \notin Tasks
  /\ Modes \subseteq {"fd", "unix", "http"}
  /\ None \notin Dbs \cup Dirs \cup ServiceKeys \cup [key : ServiceKeys, dir : Dirs]
  /\ IsFiniteSet(Tasks)
  /\ TestDb \in Dbs /\ TestDir \in Dirs
  /\ MaxChanges \in Nat /\ MaxCrashes \in 0 .. MaxChanges - 1

VARIABLES
  mode,     \* how the server was started
  process,  \* where main is
  socket,   \* the file at the path of the socket
  crashes,
  client,   \* client[c]: what the peer of connection c is doing
  server,   \* server[c]: what the server is doing with it
  msg,      \* msg[c]: what the peer has sent
  answer,   \* answer[c]: what the server has to say, or has said
  since,    \* history: see AcknowledgedDirectoryServed
  changes,  \* history: changes[db], the directories it has had
  acked     \* history: acked[db], the last of them that was acknowledged

processVars == <<mode, process, socket, crashes>>
peerVars == <<client, server, msg, answer, since>>
historyVars == <<changes, acked>>
vars == <<serviceVars, processVars, peerVars, historyVars>>

(* A request cut short does not unpickle: it is as good as garbage.        *)
Garbage == [request |-> "garbage"]
BadUrl == [request |-> "bad_url"]
Http(path) == [request |-> "http", path |-> path]
SetDirectory(db, dir) == [request |-> "set_directory", database |-> db, directory |-> dir]
Messages ==
  {Http(path) : path \in Paths} \cup
  IF mode = "http" THEN {}
  ELSE {Garbage, BadUrl} \cup {SetDirectory(db, dir) : db \in Dbs, dir \in Dirs}

NoAnswer == [status |-> "none", dir |-> None]
Failure == [status |-> "failure", dir |-> None]
Success == [status |-> "success", dir |-> None]
NotFound == [status |-> "404", dir |-> None]
InternalServerError == [status |-> "500", dir |-> None]
Page(dir) == [status |-> "page", dir |-> dir]

Answers == {NoAnswer, Failure, Success, NotFound, InternalServerError} \cup {Page(dir) : dir \in Dirs}

PeersOK ==
  /\ client \in [Tasks -> {"none", "sending", "sent", "gone"}]
  /\ server \in [Tasks -> {"none", "backlog", "reading", "working", "writing"}]
  /\ msg \in [Tasks -> Messages \cup {Garbage}]
  /\ answer \in [Tasks -> Answers]
  /\ since \in [Tasks -> 0 .. MaxChanges]

(* The tenant works for connections that wait for it, and for no other.    *)
WorksFor(c) == server[c] = "working" <=> job[c] # NoJob \/ setter[c] # NotSetting

TypeOK ==
  /\ mode \in Modes
  /\ process \in {"down", "starting", "bind", "serving"}
  /\ socket \in {"none", "bound", "stale"}
  /\ crashes \in 0 .. MaxCrashes
  /\ PeersOK
  /\ \A db \in Dbs :
       changes[db] \in Seq(Dirs) /\ Len(changes[db]) <= MaxChanges /\ acked[db] \in 0 .. MaxChanges
  /\ \A c \in Tasks : WorksFor(c)
  /\ process = "down" => directories = [db \in Dbs |-> None]

-----------------------------------------------------------------------------
(* A name as a sequence of the classes of its characters.  The first may   *)
(* be missing.                                                             *)
IsValidName(name) ==
  /\ name # <<>> => name[1] = "alphabetic"
  /\ \A i \in 2 .. Len(name) : name[i] \in {"alphabetic", "digit", "_-"}

Routed(path) ==
  /\ Len(path) >= 5
  /\ path[1] = "" /\ path[2] = "db" /\ path[4] = "wasm"
  /\ IsValidName(path[5])

Key(path) == <<path[3], path[5]>>

ASSUME PathAssumption == \A path \in Paths : Routed(path) => Key(path) \in ServiceKeys

-----------------------------------------------------------------------------
(* Peers: EdgeDB on the sockets, anybody on the test server.               *)
Reachable == process = "serving" \/ mode = "fd"

Connect(c) ==
  /\ Reachable
  /\ server[c] = "none"
  /\ client' = [client EXCEPT ![c] = "sending"]
  /\ server' = [server EXCEPT ![c] = "backlog"]
  /\ UNCHANGED <<serviceVars, processVars, historyVars, msg, answer, since>>

(* The peer has sent all of its request, and shut that side down.          *)
Send(c, m) ==
  /\ client[c] = "sending"
  /\ client' = [client EXCEPT ![c] = "sent"]
  /\ msg' = [msg EXCEPT ![c] = m]
  /\ since' = [since EXCEPT ![c] =
       CASE m.request = "http" /\ Routed(m.path) -> acked[m.path[3]]
         [] m.request = "set_directory" -> Len(changes[m.database]) + 1
         [] OTHER -> 0]
  /\ UNCHANGED <<serviceVars, processVars, historyVars, server, answer>>

Leave(c) ==
  /\ client[c] \in {"sending", "sent"}
  /\ client' = [client EXCEPT ![c] = "gone"]
  /\ UNCHANGED <<serviceVars, processVars, historyVars, server, msg, answer, since>>

-----------------------------------------------------------------------------
(* The connection is closed: the exchange is over, another may come.       *)
Close(c) ==
  /\ client' = [client EXCEPT ![c] = "none"]
  /\ server' = [server EXCEPT ![c] = "none"]
  /\ msg' = [msg EXCEPT ![c] = Garbage]
  /\ answer' = [answer EXCEPT ![c] = NoAnswer]
  /\ since' = [since EXCEPT ![c] = 0]

Goto(c, s) == server' = [server EXCEPT ![c] = s]
Reply(c, a) == Goto(c, "writing") /\ answer' = [answer EXCEPT ![c] = a]

(* Mutation of Accept: the request is processed before the next accept.    *)
AcceptInline(c) ==
  /\ process = "serving"
  /\ server[c] = "backlog"
  /\ \A d \in Tasks : server[d] \in {"none", "backlog"}
  /\ Goto(c, "reading")
  /\ UNCHANGED <<serviceVars, processVars, historyVars, client, msg, answer, since>>

(* A task is spawned for the connection.                                   *)
Accept(c) ==
  /\ process = "serving"
  /\ server[c] = "backlog"
  /\ Goto(c, "reading")
  /\ UNCHANGED <<serviceVars, processVars, historyVars, client, msg, answer, since>>

(* All of the request is there: read_to_end has seen the end of the stream *)
(* (a peer that is gone has closed it), to_bytes that of the body.         *)
Complete(c) ==
  /\ server[c] = "reading"
  /\ client[c] = "sent" \/ (client[c] = "gone" /\ mode # "http")

(* process_request returns an error, and the socket is closed.             *)
Undecodable(c) ==
  /\ Complete(c)
  /\ msg[c] = Garbage
  /\ Close(c)
  /\ UNCHANGED <<serviceVars, processVars, historyVars>>

(* The peer has reset the connection: reading fails.                       *)
ReadError(c) ==
  /\ server[c] = "reading"
  /\ client[c] = "gone"
  /\ Close(c)
  /\ UNCHANGED <<serviceVars, processVars, historyVars>>

(* Tenant::handle: read_full fails, or no path leads to get_worker.        *)
Misdirected(c) ==
  /\ Complete(c)
  /\ \/ msg[c] = BadUrl /\ Reply(c, Failure)
     \/ msg[c].request = "http" /\ ~Routed(msg[c].path) /\ Reply(c, NotFound)
  /\ UNCHANGED <<serviceVars, processVars, historyVars, client, msg, since>>

Handle(c) ==
  /\ Complete(c)
  /\ msg[c].request = "http" /\ Routed(msg[c].path)
  /\ Call(c, Key(msg[c].path))
  /\ Goto(c, "working")
  /\ UNCHANGED <<processVars, historyVars, client, msg, answer, since>>

GetWorker(c) ==
  /\ Serve(c)
  /\ UNCHANGED <<processVars, historyVars, peerVars>>

(* The guest answers; or it traps, or its answer is no response to hyper.  *)
HandleHttp(c) ==
  /\ job[c].by # None
  /\ Reply(c, Page(job[c].by.dir)) \/ Reply(c, InternalServerError)
  /\ Finish(c)
  /\ UNCHANGED <<processVars, historyVars, client, msg, since>>

GetWorkerError(c) ==
  /\ Refuse(c)
  /\ Reply(c, InternalServerError)
  /\ UNCHANGED <<processVars, historyVars, client, msg, since>>

(* Mutation of Change: Success is written before set_directory is called.  *)
ChangeReplyFirst(c) ==
  LET db == msg[c].database
      dir == msg[c].directory
  IN  /\ Complete(c)
      /\ msg[c].request = "set_directory"
      /\ IF answer[c] = NoAnswer
           THEN /\ answer' = [answer EXCEPT ![c] = Success]
                /\ acked' = [acked EXCEPT ![db] = since[c]]
                /\ UNCHANGED <<serviceVars, changes, server, since>>
           ELSE /\ Configure(c, db, dir)
                /\ Goto(c, "working")
                /\ changes' = [changes EXCEPT ![db] = Append(@, dir)]
                /\ since' = [since EXCEPT ![c] = Len(changes[db]) + 1]
                /\ UNCHANGED <<acked, answer>>
      /\ UNCHANGED <<processVars, client, msg>>

(* tenant.set_directory, awaited ...                                       *)
Change(c) ==
  LET db == msg[c].database
      dir == msg[c].directory
  IN  /\ Complete(c)
      /\ msg[c].request = "set_directory"
      /\ Configure(c, db, dir)
      /\ Goto(c, "working")
      /\ changes' = [changes EXCEPT ![db] = Append(@, dir)]
      /\ since' = [since EXCEPT ![c] = Len(changes[db]) + 1]
      /\ UNCHANGED <<processVars, acked, client, msg, answer>>

(* ... and only then answered.                                             *)
Changed(c) ==
  /\ Configured(c)
  /\ Reply(c, Success)
  /\ UNCHANGED <<processVars, historyVars, client, msg, since>>

(* The answer is written and the socket dropped.  A peer that is gone does *)
(* not get it.                                                             *)
Respond(c) ==
  /\ server[c] = "writing"
  /\ Close(c)
  /\ acked' = IF answer[c] = Success /\ client[c] # "gone" /\ since[c] > acked[msg[c].database]
                THEN [acked EXCEPT ![msg[c].database] = since[c]] ELSE acked
  /\ UNCHANGED <<serviceVars, processVars, changes>>

(* Mutation of HangUp: what the request had under way goes on.             *)
HangUpDetached(c) ==
  /\ mode = "http"
  /\ client[c] = "gone"
  /\ server[c] \in {"backlog", "reading", "working", "writing"}
  /\ Close(c)
  /\ UNCHANGED <<serviceVars, processVars, historyVars>>

(* hyper drops the service's future when its peer hangs up.                *)
HangUp(c) ==
  /\ mode = "http"
  /\ client[c] = "gone"
  /\ server[c] \in {"backlog", "reading", "working", "writing"}
  /\ Close(c)
  /\ IF server[c] = "working" THEN Finish(c) \/ Refuse(c) ELSE UNCHANGED serviceVars
  /\ UNCHANGED <<processVars, historyVars>>

-----------------------------------------------------------------------------
(* main: a new process.                                                    *)
Start ==
  /\ process = "down"
  /\ process' = "starting"
  /\ UNCHANGED <<serviceVars, peerVars, historyVars, mode, socket, crashes>>

ListenFd ==
  /\ mode = "fd" /\ process = "starting"
  /\ process' = "serving"
  /\ UNCHANGED <<serviceVars, peerVars, historyVars, mode, socket, crashes>>

(* Mutation of RemoveSocket: the file is left alone, and bind fails.       *)
KeepSocket ==
  /\ mode = "unix" /\ process = "starting"
  /\ process' = IF socket = "none" THEN "bind" ELSE "down"
  /\ UNCHANGED <<serviceVars, peerVars, historyVars, mode, socket, crashes>>

RemoveSocket ==
  /\ mode = "unix" /\ process = "starting"
  /\ socket' = "none"
  /\ process' = "bind"
  /\ UNCHANGED <<serviceVars, peerVars, historyVars, mode, crashes>>

(* A file at the path is an error.                                         *)
Bind ==
  /\ mode = "unix" /\ process = "bind"
  /\ socket = "none"
  /\ socket' = "bound"
  /\ process' = "serving"
  /\ UNCHANGED <<serviceVars, peerVars, historyVars, mode, crashes>>

(* The test server has its directory before it has a port.                 *)
SetTestDirectory ==
  /\ mode = "http" /\ process = "starting"
  /\ Configure(Main, TestDb, TestDir)
  /\ changes' = [changes EXCEPT ![TestDb] = Append(@, TestDir)]
  /\ process' = "bind"
  /\ UNCHANGED <<peerVars, acked, mode, socket, crashes>>

ServeHttp ==
  /\ mode = "http" /\ process = "bind"
  /\ Configured(Main)
  /\ acked' = [acked EXCEPT ![TestDb] = Len(changes[TestDb])]
  /\ process' = "serving"
  /\ UNCHANGED <<peerVars, changes, mode, socket, crashes>>

(* The process is killed.  Connections it has accepted are closed, and the *)
(* ones that wait in the queue of its own socket; the inherited descriptor *)
(* keeps its queue.                                                        *)
Crash ==
  /\ process # "down"
  /\ crashes < MaxCrashes
  /\ crashes' = crashes + 1
  /\ process' = "down"
  /\ socket' = IF socket = "bound" THEN "stale" ELSE socket
  /\ directories' = [db \in Dbs |-> None]
  /\ job' = [c \in Tasks |-> NoJob]
  /\ setter' = [s \in Setters |-> NotSetting]
  /\ LET Stays(c) == server[c] = "backlog" /\ mode = "fd"
     IN  /\ client' = [c \in Tasks |-> IF Stays(c) THEN client[c] ELSE "none"]
         /\ server' = [c \in Tasks |-> IF Stays(c) THEN server[c] ELSE "none"]
         /\ msg' = [c \in Tasks |-> IF Stays(c) THEN msg[c] ELSE Garbage]
         /\ since' = [c \in Tasks |-> IF Stays(c) THEN since[c] ELSE 0]
  /\ answer' = [c \in Tasks |-> NoAnswer]
  /\ UNCHANGED <<mode, historyVars>>

-----------------------------------------------------------------------------
Init ==
  /\ directories = [db \in Dbs |-> None]
  /\ job = [c \in Tasks |-> NoJob]
  /\ setter = [s \in Setters |-> NotSetting]
  /\ mode \in Modes
  /\ process = "down"
  /\ socket \in IF mode = "unix" THEN {"none", "stale"} ELSE {"none"}
  /\ crashes = 0
  /\ client = [c \in Tasks |-> "none"]
  /\ server = [c \in Tasks |-> "none"]
  /\ msg = [c \in Tasks |-> Garbage]
  /\ answer = [c \in Tasks |-> NoAnswer]
  /\ since = [c \in Tasks |-> 0]
  /\ changes = [db \in Dbs |-> <<>>]
  /\ acked = [db \in Dbs |-> 0]

Progress(c) ==
  \/ Accept(c)
  \/ Undecodable(c) \/ ReadError(c) \/ Misdirected(c)
  \/ Handle(c) \/ GetWorker(c) \/ HandleHttp(c) \/ GetWorkerError(c)
  \/ Change(c) \/ Changed(c) \/ Respond(c) \/ HangUp(c)

Startup == Start \/ ListenFd \/ RemoveSocket \/ Bind \/ SetTestDirectory \/ ServeHttp

(* The bound of the model, which counts what is to be applied when it is   *)
(* sent.                                                                   *)
Pending(db) ==
  {c \in Tasks : /\ msg[c].request = "set_directory" /\ msg[c].database = db
                 /\ server[c] \in {"backlog", "reading"}}
Room(m) ==
  m.request = "set_directory" =>
    Len(changes[m.database]) + Cardinality(Pending(m.database)) < MaxChanges

Next ==
  \/ \E c \in Tasks :
       \/ Connect(c) \/ Leave(c)
       \/ \E m \in Messages : Room(m) /\ Send(c, m)
       \/ Progress(c)
  \/ Startup \/ Crash

Spec == Init /\ [][Next]_vars

(* The server goes on with what it can go on with (the tenant answers:     *)
(* EveryRequestAnswered of WorkerCache), and a server that was killed is   *)
(* started again.  Peers need do nothing.                                  *)
FairSpec == Spec /\ WF_vars(Startup) /\ \A c \in Tasks : WF_vars(Progress(c))

-----------------------------------------------------------------------------
(* A page comes from the directory that was last acknowledged to have been *)
(* set when the request was sent, or from one set after that: the peer     *)
(* that has been told Success is never shown an older directory again, by  *)
(* whichever connection, whatever else is being set, and after a restart.  *)
Recent(c, dir) ==
  LET seq == changes[msg[c].path[3]]
  IN  \E i \in 1 .. Len(seq) : i >= since[c] /\ seq[i] = dir
AcknowledgedDirectoryServed ==
  \A c \in Tasks : answer[c].status = "page" => Recent(c, answer[c].dir)

(* Whoever has sent a request is answered or sees its connection closed:   *)
(* other peers that never finish theirs, or leave, do not keep it waiting. *)
EveryExchangeEnds ==
  \A c \in Tasks : server[c] # "none" /\ client[c] # "sending" ~> server[c] = "none"

(* A server that is started serves in the end, whatever file its           *)
(* predecessor has left at the path of its socket.                         *)
EveryStartServes == <>[](process = "serving")
=============================================================================
