--------------------------- MODULE FrontEnds_proofs ---------------------------
(***************************************************************************)
(* Proofs about FrontEnds: for any number of connections, databases, names *)
(* and directories, in every mode, through any number of restarts.         *)
(*                                                                         *)
(* IInv is inductive: the part about the tenant's calls (ServiceInv) by    *)
(* what TenantService promises, the part about connections by ConnStep for *)
(* what only one connection does and by ChangesEffect for the changes of   *)
(* directories, which concern every request that is on.                    *)
(***************************************************************************)
EXTENDS FrontEnds, FiniteSetTheorems, TLAPS

-----------------------------------------------------------------------------
(* What holds of calls whoever makes them: a call is served by a worker of *)
(* its own key, from a directory it may be served from.                    *)
Jobs == [key : ServiceKeys, dirs : SUBSET Dirs,
         by : [key : ServiceKeys, dir : Dirs] \cup {None}]

ServiceInv ==
  /\ directories \in [Dbs -> Dirs \cup {None}]
  /\ job \in [Tasks -> Jobs \cup {NoJob}]
  /\ setter \in [Setters -> [db : Dbs, dir : Dirs] \cup {NotSetting}]
  /\ \A t \in Tasks : job[t].by # None =>
       job[t].by.key = job[t].key /\ job[t].by.dir \in job[t].dirs

(* The inductive invariant.  What is read, worked on or answered has been  *)
(* sent; nothing of a connection is left when it is closed.                *)
Exchange(c) ==
  /\ client[c] = "none" <=> server[c] = "none"
  /\ client[c] = "sending" => server[c] \in {"backlog", "reading"}
  /\ client[c] \in {"none", "sending"} => msg[c] = Garbage
  /\ answer[c] # NoAnswer => server[c] = "writing"
  /\ server[c] \in {"reading", "working", "writing"} => process = "serving"

(* What has been acknowledged when a request is sent has been changed by   *)
(* then, and so has what a connection is about to acknowledge.             *)
Sent(c) ==
  /\ msg[c].request = "http" /\ Routed(msg[c].path) =>
       since[c] <= Len(changes[msg[c].path[3]])
  /\ msg[c].request = "set_directory" /\ server[c] \in {"working", "writing"} =>
       since[c] <= Len(changes[msg[c].database])

(* A connection has the tenant work for what its peer has sent, and        *)
(* answers that, with nothing but recent directories.                      *)
ForPeer(c) ==
  /\ job[c] # NoJob =>
       /\ msg[c].request = "http" /\ Routed(msg[c].path)
       /\ job[c].key = Key(msg[c].path)
       /\ \A dir \in job[c].dirs : Recent(c, dir)
       /\ setter[c] = NotSetting
  /\ setter[c] # NotSetting => msg[c].request = "set_directory"
  /\ answer[c] = Success => msg[c].request = "set_directory"
  /\ answer[c].status = "page" =>
       /\ msg[c].request = "http" /\ Routed(msg[c].path)
       /\ Recent(c, answer[c].dir)

(* The directory in force is the last one set in this life of the process. *)
InForce(db) ==
  /\ directories[db] # None =>
       changes[db] # <<>> /\ directories[db] = changes[db][Len(changes[db])]
  /\ acked[db] <= Len(changes[db])

(* The bound is kept: what is to be changed has its place.                 *)
RoomKept(db) ==
  /\ mode # "http" => Len(changes[db]) + Cardinality(Pending(db)) <= MaxChanges
  /\ mode = "http" =>
       Len(changes[db]) <= crashes + (IF process \in {"bind", "serving"} THEN 1 ELSE 0)

IInv ==
  /\ TypeOK /\ ServiceInv
  /\ changes \in [Dbs -> Seq(Dirs)] /\ acked \in [Dbs -> Nat]
  /\ \A c \in Tasks : Exchange(c) /\ Sent(c) /\ ForPeer(c)
  /\ \A db \in Dbs : InForce(db) /\ RoomKept(db)

-----------------------------------------------------------------------------
(* Calls of the tenant, as TenantService lets them change.                 *)
LEMMA JobTypes ==
  /\ None \notin Dbs /\ None \notin Dirs /\ None \notin ServiceKeys
  /\ None \notin [key : ServiceKeys, dir : Dirs]
  /\ NoJob \notin Jobs
  /\ NotSetting \notin [db : Dbs, dir : Dirs]
  /\ Tasks \subseteq Setters /\ Main \in Setters /\ Main \notin Tasks
BY FrontEndAssumption DEF FrontEndAssumption, NoJob, Jobs, NotSetting

LEMMA CallEffect ==
  ASSUME ServiceInv, NEW c \in Tasks, NEW k \in ServiceKeys, Call(c, k)
  PROVE  /\ ServiceInv' /\ UNCHANGED <<directories, setter>>
         /\ job'[c] # NoJob /\ job'[c].key = k
         /\ job'[c].dirs = {directories[k[1]]} \ {None}
         /\ \A d \in Tasks : d # c => job'[d] = job[d]
<1> DEFINE j == [key |-> k, dirs |-> {directories[k[1]]} \ {None}, by |-> None]
<1>1. job' = [job EXCEPT ![c] = j] /\ UNCHANGED <<directories, setter>>
  BY DEF Call
<1>2. j \in Jobs
  BY DEF ServiceInv, Jobs, ServiceKeys
<1>3. j.key = k /\ j.dirs = {directories[k[1]]} \ {None} /\ j.by = None
  OBVIOUS
<1> HIDE DEF j
<1>4. /\ job' \in [Tasks -> Jobs \cup {NoJob}] /\ job'[c] = j
      /\ \A d \in Tasks : d # c => job'[d] = job[d]
  BY <1>1, <1>2 DEF ServiceInv
<1>5. ServiceInv'
  BY <1>1, <1>3, <1>4 DEF ServiceInv
<1> QED
  BY <1>1, <1>2, <1>3, <1>4, <1>5, JobTypes

LEMMA ServeEffect ==
  ASSUME ServiceInv, NEW c \in Tasks, Serve(c)
  PROVE  /\ ServiceInv' /\ UNCHANGED <<directories, setter>>
         /\ job[c] # NoJob /\ job'[c] # NoJob
         /\ job'[c].key = job[c].key /\ job'[c].dirs = job[c].dirs
         /\ \A d \in Tasks : d # c => job'[d] = job[d]
<1>1. PICK dir \in job[c].dirs : job' = [job EXCEPT ![c].by = [key |-> job[c].key, dir |-> dir]]
  BY DEF Serve
<1> DEFINE b == [key |-> job[c].key, dir |-> dir]
           j == [job[c] EXCEPT !.by = b]
<1>2. job[c] \in Jobs /\ job[c] # NoJob /\ UNCHANGED <<directories, setter>>
  BY DEF Serve, ServiceInv
<1>3. job' = [job EXCEPT ![c] = j]
  BY <1>1
<1>4. b \in [key : ServiceKeys, dir : Dirs] /\ b.key = job[c].key /\ b.dir = dir
  BY <1>2 DEF Jobs
<1> HIDE DEF b
<1>5. j \in Jobs /\ j.key = job[c].key /\ j.dirs = job[c].dirs /\ j.by = b
  BY <1>2, <1>4 DEF Jobs
<1> HIDE DEF j
<1>6. /\ job' \in [Tasks -> Jobs \cup {NoJob}] /\ job'[c] = j
      /\ \A d \in Tasks : d # c => job'[d] = job[d]
  BY <1>3, <1>5 DEF ServiceInv
<1>7. ServiceInv'
  BY <1>1, <1>2, <1>4, <1>5, <1>6 DEF ServiceInv
<1> QED
  BY <1>2, <1>5, <1>6, <1>7, JobTypes

LEMMA EndEffect ==
  ASSUME ServiceInv, NEW c \in Tasks, Finish(c) \/ Refuse(c)
  PROVE  /\ ServiceInv' /\ UNCHANGED <<directories, setter>>
         /\ job[c] # NoJob /\ job'[c] = NoJob
         /\ \A d \in Tasks : d # c => job'[d] = job[d]
<1>1. job' = [job EXCEPT ![c] = NoJob] /\ UNCHANGED <<directories, setter>> /\ job[c] # NoJob
  BY DEF Finish, Refuse, NoJob
<1>2. /\ job' \in [Tasks -> Jobs \cup {NoJob}] /\ job'[c] = NoJob
      /\ \A d \in Tasks : d # c => job'[d] = job[d]
  BY <1>1 DEF ServiceInv
<1>3. NoJob.by = None
  BY DEF NoJob
<1> QED
  BY <1>1, <1>2, <1>3 DEF ServiceInv

LEMMA ConfigureEffect ==
  ASSUME ServiceInv, NEW s \in Setters, NEW db \in Dbs, NEW dir \in Dirs, Configure(s, db, dir)
  PROVE  /\ ServiceInv'
         /\ directories' = [directories EXCEPT ![db] = dir]
         /\ setter[s] = NotSetting /\ setter'[s] # NotSetting
         /\ \A r \in Setters : r # s => setter'[r] = setter[r]
         /\ \A c \in Tasks :
              /\ job'[c] = NoJob <=> job[c] = NoJob
              /\ job[c] # NoJob =>
                   /\ job'[c].key = job[c].key
                   /\ job'[c].dirs \subseteq job[c].dirs \cup {dir}
                   /\ job[c].key[1] # db => job'[c].dirs = job[c].dirs
<1>1. /\ setter[s] = NotSetting
      /\ setter' = [setter EXCEPT ![s] = [db |-> db, dir |-> dir]]
      /\ directories' = [directories EXCEPT ![db] = dir]
      /\ job' = [t \in Tasks |-> IF job[t] # NoJob /\ job[t].key[1] = db
                                   THEN [job[t] EXCEPT !.dirs = @ \cup {dir}] ELSE job[t]]
  BY DEF Configure
<1>2. ASSUME NEW c \in Tasks
      PROVE  /\ job'[c] \in Jobs \cup {NoJob}
             /\ job'[c] = NoJob <=> job[c] = NoJob
             /\ job[c] # NoJob =>
                  /\ job'[c].key = job[c].key
                  /\ job[c].dirs \subseteq job'[c].dirs
                  /\ job'[c].dirs \subseteq job[c].dirs \cup {dir}
                  /\ job[c].key[1] # db => job'[c].dirs = job[c].dirs
                  /\ job'[c].by = job[c].by
  <2>1. CASE job[c] # NoJob /\ job[c].key[1] = db
    <3>1. job[c] \in Jobs
      BY <2>1 DEF ServiceInv
    <3>2. job'[c] = [job[c] EXCEPT !.dirs = job[c].dirs \cup {dir}]
      BY <1>1, <2>1
    <3>3. job'[c] \in Jobs
      BY <3>1, <3>2 DEF Jobs
    <3> QED
      BY <2>1, <3>1, <3>2, <3>3, JobTypes DEF Jobs
  <2>2. CASE ~(job[c] # NoJob /\ job[c].key[1] = db)
    <3>1. job'[c] = job[c]
      BY <1>1, <2>2
    <3> QED
      BY <3>1 DEF ServiceInv
  <2> QED
    BY <2>1, <2>2
<1>3. job' \in [Tasks -> Jobs \cup {NoJob}]
  BY <1>1, <1>2
<1>4. setter' \in [Setters -> [db : Dbs, dir : Dirs] \cup {NotSetting}]
      /\ setter'[s] \in [db : Dbs, dir : Dirs]
      /\ \A r \in Setters : r # s => setter'[r] = setter[r]
  BY <1>1 DEF ServiceInv
<1>5. directories' \in [Dbs -> Dirs \cup {None}]
  BY <1>1 DEF ServiceInv
<1>6. \A c \in Tasks : job'[c].by # None =>
        job'[c].by.key = job'[c].key /\ job'[c].by.dir \in job'[c].dirs
  BY <1>2 DEF ServiceInv, NoJob
<1>7. ServiceInv'
  BY <1>3, <1>4, <1>5, <1>6 DEF ServiceInv
<1> QED
  BY <1>1, <1>2, <1>4, <1>7, JobTypes

LEMMA ConfiguredEffect ==
  ASSUME ServiceInv, NEW s \in Setters, Configured(s)
  PROVE  /\ ServiceInv' /\ UNCHANGED <<directories, job>>
         /\ setter[s] # NotSetting /\ setter'[s] = NotSetting
         /\ \A r \in Setters : r # s => setter'[r] = setter[r]
BY DEF Configured, ServiceInv

-----------------------------------------------------------------------------
(* What a message is, by the kind of its request.                          *)
LEMMA MessageKinds ==
  ASSUME NEW m \in Messages \cup {Garbage}
  PROVE  /\ m.request = "http" => m.path \in Paths
         /\ m.request = "set_directory" =>
              m.database \in Dbs /\ m.directory \in Dirs /\ mode # "http"
         /\ Garbage.request \notin {"http", "set_directory"}
<1>1. CASE m \in {Http(path) : path \in Paths}
  BY <1>1 DEF Http, Garbage
<1>2. CASE m \in {Garbage, BadUrl}
  BY <1>2 DEF Garbage, BadUrl
<1>3. CASE mode # "http" /\ m \in {SetDirectory(db, dir) : db \in Dbs, dir \in Dirs}
  <2>1. PICK db \in Dbs, dir \in Dirs : m = SetDirectory(db, dir)
    BY <1>3
  <2> QED
    BY <1>3, <2>1 DEF SetDirectory, Garbage
<1> QED
  BY <1>1, <1>2, <1>3 DEF Messages

LEMMA RoutedKey ==
  ASSUME NEW path \in Paths, Routed(path)
  PROVE  /\ Key(path) \in ServiceKeys
         /\ Key(path)[1] = path[3] /\ path[3] \in Dbs
BY PathAssumption DEF Key, ServiceKeys

(* Answers can be told apart.                                              *)
LEMMA AnswerKinds ==
  /\ NoAnswer \in Answers /\ Failure \in Answers /\ Success \in Answers
  /\ NotFound \in Answers /\ InternalServerError \in Answers
  /\ \A dir \in Dirs : Page(dir) \in Answers /\ Page(dir).status = "page" /\ Page(dir).dir = dir
                       /\ Page(dir) # Success /\ Page(dir) # NoAnswer
  /\ \A a \in {NoAnswer, Failure, NotFound, InternalServerError} : a.status # "page" /\ a # Success
  /\ Success.status # "page" /\ Success # NoAnswer
<1>1. /\ NoAnswer.status = "none" /\ Failure.status = "failure" /\ Success.status = "success"
      /\ NotFound.status = "404" /\ InternalServerError.status = "500"
  BY DEF NoAnswer, Failure, Success, NotFound, InternalServerError
<1>2. \A dir \in Dirs : Page(dir).status = "page" /\ Page(dir).dir = dir
  BY DEF Page
<1>3. \A dir \in Dirs : Page(dir) \in Answers
  BY DEF Answers
<1>4. /\ NoAnswer \in Answers /\ Failure \in Answers /\ Success \in Answers
      /\ NotFound \in Answers /\ InternalServerError \in Answers
  BY DEF Answers
<1> QED
  BY <1>1, <1>2, <1>3, <1>4

-----------------------------------------------------------------------------
(* The bound.                                                              *)
LEMMA PendingSize ==
  ASSUME NEW S \in SUBSET Tasks
  PROVE  IsFiniteSet(S) /\ Cardinality(S) \in Nat
BY FrontEndAssumption, FS_Subset, FS_CardinalityType DEF FrontEndAssumption

LEMMA RoomStays ==
  ASSUME NEW db, RoomKept(db), UNCHANGED <<mode, changes>>, Len(changes[db]) \in Nat,
         Pending(db)' \subseteq Pending(db)
  PROVE  mode # "http" => Len(changes[db]) + Cardinality(Pending(db)') <= MaxChanges
<1>1. Pending(db) \in SUBSET Tasks /\ Pending(db)' \in SUBSET Tasks
  BY DEF Pending
<1>2. /\ Cardinality(Pending(db)') <= Cardinality(Pending(db))
      /\ Cardinality(Pending(db)') \in Nat /\ Cardinality(Pending(db)) \in Nat
  BY <1>1, PendingSize, FS_Subset
<1> QED
  BY <1>2, FrontEndAssumption DEF RoomKept, FrontEndAssumption

-----------------------------------------------------------------------------
(* What one connection does keeps what is said of the others.              *)
Parts(c) == Exchange(c) /\ Sent(c) /\ ForPeer(c) /\ WorksFor(c)

LEMMA ConnStep ==
  ASSUME IInv, NEW c \in Tasks,
         ServiceInv', PeersOK', UNCHANGED <<processVars, changes, directories>>,
         acked' \in [Dbs -> Nat], \A db \in Dbs : acked'[db] <= Len(changes[db]),
         \A d \in Tasks : d # c =>
           /\ client'[d] = client[d] /\ server'[d] = server[d] /\ msg'[d] = msg[d]
           /\ answer'[d] = answer[d] /\ since'[d] = since[d]
           /\ job'[d] = job[d] /\ setter'[d] = setter[d],
         \A db \in Dbs : mode # "http" => Len(changes[db]) + Cardinality(Pending(db)') <= MaxChanges,
         Parts(c)'
  PROVE  IInv'
<1>1. \A d \in Tasks : Parts(d)'
  <2> SUFFICES ASSUME NEW d \in Tasks, d # c  PROVE Parts(d)'
    OBVIOUS
  <2>1. Parts(d) /\ UNCHANGED process
    BY DEF IInv, TypeOK, Parts, processVars
  <2>2. Exchange(d)' /\ WorksFor(d)'
    BY <2>1 DEF Parts, Exchange, WorksFor
  <2>3. Sent(d)'
    BY <2>1 DEF Parts, Sent
  <2>4. \A dir : Recent(d, dir)' <=> Recent(d, dir)
    BY DEF Recent
  <2>5. ForPeer(d)'
    BY <2>1, <2>4 DEF Parts, ForPeer
  <2> QED
    BY <2>2, <2>3, <2>5 DEF Parts
<1>2. \A db \in Dbs : acked'[db] \in 0 .. MaxChanges
  BY FrontEndAssumption DEF IInv, TypeOK, FrontEndAssumption
<1>3. TypeOK'
  BY <1>1, <1>2 DEF IInv, TypeOK, processVars, Parts
<1>4. \A db \in Dbs : InForce(db)' /\ RoomKept(db)'
  <2> TAKE db \in Dbs
  <2>1. InForce(db)'
    BY DEF IInv, InForce
  <2>2. RoomKept(db)'
    BY DEF IInv, RoomKept, processVars
  <2> QED
    BY <2>1, <2>2
<1> QED
  BY <1>1, <1>3, <1>4 DEF IInv, Parts

LEMMA Facts ==
  ASSUME IInv
  PROVE  /\ TypeOK /\ ServiceInv /\ PeersOK
         /\ changes \in [Dbs -> Seq(Dirs)] /\ acked \in [Dbs -> Nat]
         /\ \A db \in Dbs : /\ acked[db] <= Len(changes[db])
                            /\ Len(changes[db]) \in Nat /\ Len(changes[db]) <= MaxChanges
         /\ \A c \in Tasks :
              /\ Parts(c)
              /\ msg[c].request = "http" => msg[c].path \in Paths
              /\ msg[c].request = "http" /\ Routed(msg[c].path) =>
                   /\ msg[c].path[3] \in Dbs /\ Key(msg[c].path) \in ServiceKeys
                   /\ Key(msg[c].path)[1] = msg[c].path[3]
              /\ msg[c].request = "set_directory" =>
                   msg[c].database \in Dbs /\ msg[c].directory \in Dirs /\ mode # "http"
<1>1. TypeOK /\ ServiceInv /\ PeersOK /\ \A c \in Tasks : Parts(c)
  BY DEF IInv, TypeOK, Parts
<1>2. ASSUME NEW c \in Tasks
      PROVE  /\ msg[c].request = "http" => msg[c].path \in Paths
             /\ msg[c].request = "http" /\ Routed(msg[c].path) =>
                   /\ msg[c].path[3] \in Dbs /\ Key(msg[c].path) \in ServiceKeys
                   /\ Key(msg[c].path)[1] = msg[c].path[3]
             /\ msg[c].request = "set_directory" =>
                   msg[c].database \in Dbs /\ msg[c].directory \in Dirs /\ mode # "http"
  <2>1. msg[c] \in Messages \cup {Garbage}
    BY <1>1 DEF PeersOK
  <2> QED
    BY <2>1, MessageKinds, RoutedKey
<1>3. ASSUME NEW db \in Dbs
      PROVE  /\ acked[db] <= Len(changes[db])
             /\ Len(changes[db]) \in Nat /\ Len(changes[db]) <= MaxChanges
  BY DEF IInv, InForce, TypeOK
<1> QED
  BY <1>1, <1>2, <1>3 DEF IInv

(* A step that leaves what the peer has sent alone leaves room.            *)
LEMMA RoomLeft ==
  ASSUME IInv, UNCHANGED <<mode, changes>>,
         \A d \in Tasks :
           \/ msg'[d] = msg[d] /\ (server'[d] \in {"backlog", "reading"} => server[d] \in {"backlog", "reading"})
           \/ msg'[d] = Garbage
  PROVE  \A db \in Dbs : mode # "http" => Len(changes[db]) + Cardinality(Pending(db)') <= MaxChanges
<1> TAKE db \in Dbs
<1>1. Garbage.request # "set_directory"
  BY DEF Garbage
<1>2. Pending(db)' \subseteq Pending(db)
  BY <1>1 DEF Pending
<1>3. RoomKept(db) /\ Len(changes[db]) \in Nat
  BY Facts DEF IInv
<1> QED
  BY <1>2, <1>3, RoomStays

-----------------------------------------------------------------------------
(* What the helpers of the actions do to a connection.                     *)
LEMMA CloseEffect ==
  ASSUME PeersOK, NEW c \in Tasks, Close(c), UNCHANGED mode
  PROVE  /\ PeersOK'
         /\ client'[c] = "none" /\ server'[c] = "none" /\ msg'[c] = Garbage
         /\ answer'[c] = NoAnswer /\ since'[c] = 0
         /\ \A d \in Tasks : d # c =>
              /\ client'[d] = client[d] /\ server'[d] = server[d] /\ msg'[d] = msg[d]
              /\ answer'[d] = answer[d] /\ since'[d] = since[d]
BY FrontEndAssumption DEF PeersOK, Close, Messages, Answers, FrontEndAssumption

LEMMA ReplyEffect ==
  ASSUME PeersOK, NEW c \in Tasks, NEW a \in Answers, Reply(c, a), UNCHANGED <<mode, client, msg, since>>
  PROVE  /\ PeersOK'
         /\ server'[c] = "writing" /\ answer'[c] = a
         /\ \A d \in Tasks : d # c => server'[d] = server[d] /\ answer'[d] = answer[d]
BY DEF PeersOK, Reply, Goto, Messages

LEMMA GotoEffect ==
  ASSUME PeersOK, NEW c \in Tasks, NEW s \in {"reading", "working"}, Goto(c, s),
         UNCHANGED <<mode, client, msg, answer, since>>
  PROVE  /\ PeersOK' /\ server'[c] = s
         /\ \A d \in Tasks : d # c => server'[d] = server[d]
BY DEF PeersOK, Goto, Messages

(* A connection is closed, with nothing under way for it.                  *)
LEMMA CloseStep ==
  ASSUME IInv, NEW c \in Tasks, Close(c),
         ServiceInv', UNCHANGED <<processVars, changes, directories>>,
         acked' \in [Dbs -> Nat], \A db \in Dbs : acked'[db] <= Len(changes[db]),
         job'[c] = NoJob, setter'[c] = NotSetting,
         \A d \in Tasks : d # c => job'[d] = job[d] /\ setter'[d] = setter[d]
  PROVE  IInv'
<1>1. mode' = mode /\ PeersOK
  BY Facts DEF processVars
<1>2. /\ PeersOK'
      /\ client'[c] = "none" /\ server'[c] = "none" /\ msg'[c] = Garbage
      /\ answer'[c] = NoAnswer /\ since'[c] = 0
      /\ \A d \in Tasks : d # c =>
           /\ client'[d] = client[d] /\ server'[d] = server[d] /\ msg'[d] = msg[d]
           /\ answer'[d] = answer[d] /\ since'[d] = since[d]
  BY <1>1, CloseEffect
<1>3. Garbage.request \notin {"http", "set_directory"}
  BY DEF Garbage
<1>4. Parts(c)'
  BY <1>2, <1>3, AnswerKinds DEF Parts, Exchange, Sent, ForPeer, WorksFor
<1>5. \A db \in Dbs : mode # "http" => Len(changes[db]) + Cardinality(Pending(db)') <= MaxChanges
  BY <1>1, <1>2, RoomLeft
<1> QED
  BY <1>2, <1>4, <1>5, ConnStep

(* A request is worked on or answered.                                     *)
LEMMA WorkStep ==
  ASSUME IInv, NEW c \in Tasks, server[c] \in {"reading", "working"}, client[c] \in {"sent", "gone"},
         ServiceInv', PeersOK',
         UNCHANGED <<processVars, historyVars, directories, client, msg, since>>,
         server'[c] \in {"working", "writing"},
         \A d \in Tasks : d # c =>
           /\ server'[d] = server[d] /\ answer'[d] = answer[d]
           /\ job'[d] = job[d] /\ setter'[d] = setter[d],
         answer'[c] # NoAnswer => server'[c] = "writing",
         msg[c].request = "set_directory" => server[c] = "working",
         WorksFor(c)', ForPeer(c)'
  PROVE  IInv'
<1>1. UNCHANGED <<mode, process, changes, acked>> /\ Parts(c)
  BY Facts DEF processVars, historyVars
<1>2. Exchange(c)'
  BY <1>1 DEF Parts, Exchange
<1>3. Sent(c)'
  BY <1>1 DEF Parts, Sent
<1>4. \A d \in Tasks : server'[d] \in {"backlog", "reading"} => server[d] \in {"backlog", "reading"}
  OBVIOUS
<1>5. \A db \in Dbs : mode # "http" => Len(changes[db]) + Cardinality(Pending(db)') <= MaxChanges
  BY <1>1, <1>4, RoomLeft
<1>6. acked' \in [Dbs -> Nat] /\ \A db \in Dbs : acked'[db] <= Len(changes[db])
  BY <1>1, Facts
<1> QED
  BY <1>1, <1>2, <1>3, <1>5, <1>6, ConnStep DEF Parts

(* Recent directories stay recent.                                         *)
LEMMA RecentStays ==
  ASSUME NEW c, UNCHANGED <<changes, since, msg>>
  PROVE  \A dir : Recent(c, dir)' <=> Recent(c, dir)
BY DEF Recent

-----------------------------------------------------------------------------
(* One lemma per action.                                                   *)
LEMMA NothingServed ==
  ASSUME IInv, UNCHANGED <<serviceVars, acked, changes>>
  PROVE  /\ ServiceInv' /\ UNCHANGED <<directories, job, setter>>
         /\ acked' \in [Dbs -> Nat] /\ \A db \in Dbs : acked'[db] <= Len(changes[db])
BY Facts DEF serviceVars, ServiceInv

LEMMA ConnectKeeps ==
  ASSUME IInv, NEW c \in Tasks, Connect(c)
  PROVE  IInv'
<1>1. /\ server[c] = "none"
      /\ client' = [client EXCEPT ![c] = "sending"]
      /\ server' = [server EXCEPT ![c] = "backlog"]
      /\ UNCHANGED <<serviceVars, processVars, historyVars, msg, answer, since>>
  BY DEF Connect
<1>2. PeersOK /\ Parts(c) /\ UNCHANGED <<mode, process, changes, acked>>
  BY <1>1, Facts DEF processVars, historyVars
<1>3. PeersOK' /\ client'[c] = "sending" /\ server'[c] = "backlog"
      /\ \A d \in Tasks : d # c => client'[d] = client[d] /\ server'[d] = server[d]
  BY <1>1, <1>2 DEF PeersOK, Messages
<1>4. ServiceInv' /\ UNCHANGED <<directories, job, setter>>
      /\ acked' \in [Dbs -> Nat] /\ \A db \in Dbs : acked'[db] <= Len(changes[db])
  BY <1>1, <1>2, NothingServed
<1>5. msg[c] = Garbage /\ answer[c] = NoAnswer
  BY <1>1, <1>2 DEF Parts, Exchange
<1>6. Parts(c)'
  <2>1. Exchange(c)' /\ WorksFor(c)'
    BY <1>1, <1>2, <1>3, <1>4, <1>5 DEF Parts, Exchange, WorksFor
  <2>2. Sent(c)'
    BY <1>1, <1>3, <1>5 DEF Sent, Garbage
  <2>3. ForPeer(c)'
    BY <1>1, <1>2, <1>3, <1>4, <1>5, AnswerKinds DEF Parts, WorksFor, ForPeer
  <2> QED
    BY <2>1, <2>2, <2>3 DEF Parts
<1>7. \A d \in Tasks :
           \/ msg'[d] = msg[d] /\ (server'[d] \in {"backlog", "reading"} => server[d] \in {"backlog", "reading"})
           \/ msg'[d] = Garbage
  BY <1>1, <1>3, <1>5
<1>8. \A db \in Dbs : mode # "http" => Len(changes[db]) + Cardinality(Pending(db)') <= MaxChanges
  BY <1>2, <1>7, RoomLeft
<1> QED
  BY <1>1, <1>2, <1>3, <1>4, <1>6, <1>8, ConnStep

LEMMA LeaveKeeps ==
  ASSUME IInv, NEW c \in Tasks, Leave(c)
  PROVE  IInv'
<1>1. /\ client[c] \in {"sending", "sent"}
      /\ client' = [client EXCEPT ![c] = "gone"]
      /\ UNCHANGED <<serviceVars, processVars, historyVars, server, msg, answer, since>>
  BY DEF Leave
<1>2. PeersOK /\ Parts(c) /\ UNCHANGED <<mode, process, changes, acked>>
  BY <1>1, Facts DEF processVars, historyVars
<1>3. PeersOK' /\ client'[c] = "gone" /\ \A d \in Tasks : d # c => client'[d] = client[d]
  BY <1>1, <1>2 DEF PeersOK, Messages
<1>4. ServiceInv' /\ UNCHANGED <<directories, job, setter>>
      /\ acked' \in [Dbs -> Nat] /\ \A db \in Dbs : acked'[db] <= Len(changes[db])
  BY <1>1, <1>2, NothingServed
<1>5. Parts(c)'
  <2>1. Exchange(c)' /\ WorksFor(c)'
    BY <1>1, <1>2, <1>3, <1>4 DEF Parts, Exchange, WorksFor
  <2>2. Sent(c)'
    BY <1>1, <1>2 DEF Parts, Sent
  <2>3. \A dir : Recent(c, dir)' <=> Recent(c, dir)
    BY <1>1, <1>2, RecentStays
  <2>4. ForPeer(c)'
    BY <1>1, <1>2, <1>4, <2>3 DEF Parts, ForPeer
  <2> QED
    BY <2>1, <2>2, <2>4 DEF Parts
<1>6. \A db \in Dbs : mode # "http" => Len(changes[db]) + Cardinality(Pending(db)') <= MaxChanges
  BY <1>1, <1>2, RoomLeft
<1> QED
  BY <1>1, <1>2, <1>3, <1>4, <1>5, <1>6, ConnStep

LEMMA AcceptKeeps ==
  ASSUME IInv, NEW c \in Tasks, Accept(c)
  PROVE  IInv'
<1>1. /\ process = "serving" /\ server[c] = "backlog" /\ Goto(c, "reading")
      /\ UNCHANGED <<serviceVars, processVars, historyVars, client, msg, answer, since>>
  BY DEF Accept
<1>2. PeersOK /\ Parts(c) /\ UNCHANGED <<mode, process, changes, acked>>
  BY <1>1, Facts DEF processVars, historyVars
<1>3. PeersOK' /\ server'[c] = "reading" /\ \A d \in Tasks : d # c => server'[d] = server[d]
  BY <1>1, <1>2, GotoEffect
<1>4. ServiceInv' /\ UNCHANGED <<directories, job, setter>>
      /\ acked' \in [Dbs -> Nat] /\ \A db \in Dbs : acked'[db] <= Len(changes[db])
  BY <1>1, <1>2, NothingServed
<1>5. Parts(c)'
  <2>1. Exchange(c)' /\ WorksFor(c)'
    BY <1>1, <1>2, <1>3, <1>4 DEF Parts, Exchange, WorksFor
  <2>2. Sent(c)'
    BY <1>1, <1>2, <1>3 DEF Parts, Sent
  <2>3. \A dir : Recent(c, dir)' <=> Recent(c, dir)
    BY <1>1, <1>2, RecentStays
  <2>4. ForPeer(c)'
    BY <1>1, <1>2, <1>4, <2>3 DEF Parts, ForPeer
  <2> QED
    BY <2>1, <2>2, <2>4 DEF Parts
<1>6. \A db \in Dbs : mode # "http" => Len(changes[db]) + Cardinality(Pending(db)') <= MaxChanges
  BY <1>1, <1>2, <1>3, RoomLeft
<1> QED
  BY <1>1, <1>2, <1>3, <1>4, <1>5, <1>6, ConnStep

(* Requests that are not understood, or are given up, leave nothing.       *)
LEMMA UnreadKeeps ==
  ASSUME IInv, NEW c \in Tasks, Undecodable(c) \/ ReadError(c)
  PROVE  IInv'
<1>1. /\ server[c] = "reading" /\ Close(c)
      /\ UNCHANGED <<serviceVars, processVars, historyVars>>
  BY DEF Undecodable, ReadError, Complete
<1>2. Parts(c) /\ UNCHANGED <<changes, acked>>
  BY <1>1, Facts DEF historyVars
<1>3. ServiceInv' /\ UNCHANGED <<directories, job, setter>>
      /\ acked' \in [Dbs -> Nat] /\ \A db \in Dbs : acked'[db] <= Len(changes[db])
  BY <1>1, <1>2, NothingServed
<1>4. job[c] = NoJob /\ setter[c] = NotSetting
  BY <1>1, <1>2 DEF Parts, WorksFor
<1> QED
  BY <1>1, <1>2, <1>3, <1>4, CloseStep

LEMMA MisdirectedKeeps ==
  ASSUME IInv, NEW c \in Tasks, Misdirected(c)
  PROVE  IInv'
<1>1. /\ server[c] = "reading" /\ client[c] \in {"sent", "gone"}
      /\ UNCHANGED <<serviceVars, processVars, historyVars, client, msg, since>>
      /\ msg[c].request # "set_directory"
  BY DEF Misdirected, Complete, BadUrl
<1>2. PICK a \in {Failure, NotFound} : Reply(c, a)
  BY DEF Misdirected
<1>3. PeersOK /\ Parts(c) /\ UNCHANGED <<mode, process, changes, acked>>
  BY <1>1, Facts DEF processVars, historyVars
<1>4. a \in Answers /\ a.status # "page" /\ a # Success
  BY <1>2, AnswerKinds
<1>5. /\ PeersOK' /\ server'[c] = "writing" /\ answer'[c] = a
      /\ \A d \in Tasks : d # c => server'[d] = server[d] /\ answer'[d] = answer[d]
  BY <1>1, <1>2, <1>3, <1>4, ReplyEffect
<1>6. ServiceInv' /\ UNCHANGED <<directories, job, setter>>
  BY <1>1, <1>3, NothingServed
<1>7. job[c] = NoJob /\ setter[c] = NotSetting
  BY <1>1, <1>3 DEF Parts, WorksFor
<1>8. WorksFor(c)' /\ ForPeer(c)'
  BY <1>4, <1>5, <1>6, <1>7 DEF WorksFor, ForPeer
<1> QED
  BY <1>1, <1>5, <1>6, <1>8, WorkStep

(* Requests for pages.                                                     *)
LEMMA HandleKeeps ==
  ASSUME IInv, NEW c \in Tasks, Handle(c)
  PROVE  IInv'
<1> DEFINE k == Key(msg[c].path)
<1>1. /\ server[c] = "reading" /\ client[c] \in {"sent", "gone"}
      /\ msg[c].request = "http" /\ Routed(msg[c].path)
      /\ Call(c, k) /\ Goto(c, "working")
      /\ UNCHANGED <<processVars, historyVars, client, msg, answer, since>>
  BY DEF Handle, Complete
<1>2. /\ PeersOK /\ ServiceInv /\ Parts(c) /\ UNCHANGED <<mode, process, changes, acked>>
      /\ k \in ServiceKeys /\ k[1] = msg[c].path[3] /\ msg[c].path[3] \in Dbs
  BY <1>1, Facts DEF processVars, historyVars
<1>3. PeersOK' /\ server'[c] = "working" /\ \A d \in Tasks : d # c => server'[d] = server[d]
  BY <1>1, <1>2, GotoEffect
<1>4. /\ ServiceInv' /\ UNCHANGED <<directories, setter>>
      /\ job'[c] # NoJob /\ job'[c].key = k
      /\ job'[c].dirs = {directories[k[1]]} \ {None}
      /\ \A d \in Tasks : d # c => job'[d] = job[d]
  BY <1>1, <1>2, CallEffect
<1> HIDE DEF k
<1>5. answer[c] = NoAnswer /\ setter[c] = NotSetting
  BY <1>1, <1>2 DEF Parts, Exchange, WorksFor
<1>6. \A dir \in job'[c].dirs : Recent(c, dir)'
  <2> TAKE dir \in job'[c].dirs
  <2> DEFINE db == msg[c].path[3]
  <2>1. directories[db] # None /\ dir = directories[db]
    BY <1>2, <1>4
  <2>2. changes[db] # <<>> /\ dir = changes[db][Len(changes[db])] /\ changes[db] \in Seq(Dirs)
    BY <1>2, <2>1, Facts DEF IInv, InForce
  <2>3. since[c] <= Len(changes[db]) /\ Len(changes[db]) \in 1 .. Len(changes[db])
    BY <1>1, <1>2, <2>2 DEF Parts, Sent
  <2>4. Recent(c, dir)
    BY <2>2, <2>3 DEF Recent
  <2> QED
    BY <1>1, <1>2, <2>4, RecentStays
<1>7. WorksFor(c)' /\ ForPeer(c)'
  BY <1>1, <1>3, <1>4, <1>5, <1>6, AnswerKinds DEF WorksFor, ForPeer, k
<1> QED
  BY <1>1, <1>3, <1>4, <1>5, <1>7, WorkStep

LEMMA GetWorkerKeeps ==
  ASSUME IInv, NEW c \in Tasks, GetWorker(c)
  PROVE  IInv'
<1>1. Serve(c) /\ UNCHANGED <<processVars, historyVars, peerVars>>
  BY DEF GetWorker
<1>2. /\ PeersOK /\ ServiceInv /\ Parts(c)
      /\ UNCHANGED <<mode, process, changes, acked, client, server, msg, answer, since>>
  BY <1>1, Facts DEF processVars, historyVars, peerVars
<1>3. /\ ServiceInv' /\ UNCHANGED <<directories, setter>>
      /\ job[c] # NoJob /\ job'[c] # NoJob
      /\ job'[c].key = job[c].key /\ job'[c].dirs = job[c].dirs
      /\ \A d \in Tasks : d # c => job'[d] = job[d]
  BY <1>1, <1>2, ServeEffect
<1>4. server[c] = "working" /\ client[c] \in {"sent", "gone"} /\ answer[c] = NoAnswer
  BY <1>2, <1>3 DEF Parts, WorksFor, Exchange, PeersOK
<1>5. PeersOK'
  BY <1>2 DEF PeersOK, Messages
<1>6. \A dir : Recent(c, dir)' <=> Recent(c, dir)
  BY <1>2, RecentStays
<1>7. WorksFor(c)' /\ ForPeer(c)'
  BY <1>2, <1>3, <1>4, <1>6 DEF Parts, WorksFor, ForPeer
<1> QED
  BY <1>1, <1>2, <1>3, <1>4, <1>5, <1>7, WorkStep

LEMMA AnswerKeeps ==
  ASSUME IInv, NEW c \in Tasks, HandleHttp(c) \/ GetWorkerError(c)
  PROVE  IInv'
<1>1. /\ Finish(c) \/ Refuse(c)
      /\ UNCHANGED <<processVars, historyVars, client, msg, since>>
  BY DEF HandleHttp, GetWorkerError
<1>2. \/ Reply(c, InternalServerError)
      \/ job[c].by # None /\ Reply(c, Page(job[c].by.dir))
  BY DEF HandleHttp, GetWorkerError
<1>3. PeersOK /\ ServiceInv /\ Parts(c) /\ UNCHANGED <<mode, process, changes, acked>>
  BY <1>1, Facts DEF processVars, historyVars
<1>4. /\ ServiceInv' /\ UNCHANGED <<directories, setter>>
      /\ job[c] # NoJob /\ job'[c] = NoJob
      /\ \A d \in Tasks : d # c => job'[d] = job[d]
  BY <1>1, <1>3, EndEffect
<1>5. server[c] = "working" /\ client[c] \in {"sent", "gone"}
  BY <1>3, <1>4 DEF Parts, WorksFor, Exchange, PeersOK
<1>6. ASSUME job[c].by # None
      PROVE  job[c].by.dir \in job[c].dirs /\ job[c].by.dir \in Dirs
  BY <1>3, <1>4, <1>6 DEF ServiceInv, Jobs
<1>7. PICK a \in Answers : /\ Reply(c, a) /\ a # Success
                           /\ a.status = "page" => a.dir \in job[c].dirs
  <2>1. CASE Reply(c, InternalServerError)
    BY <2>1, AnswerKinds
  <2>2. CASE job[c].by # None /\ Reply(c, Page(job[c].by.dir))
    <3>1. job[c].by.dir \in job[c].dirs /\ job[c].by.dir \in Dirs
      BY <1>6, <2>2
    <3> DEFINE dir == job[c].by.dir
    <3> HIDE DEF dir
    <3>2. dir \in job[c].dirs /\ dir \in Dirs /\ Reply(c, Page(dir))
      BY <2>2, <3>1 DEF dir
    <3> QED
      BY <3>2, AnswerKinds
  <2> QED
    BY <1>2, <2>1, <2>2
<1>8. /\ PeersOK' /\ server'[c] = "writing" /\ answer'[c] = a
      /\ \A d \in Tasks : d # c => server'[d] = server[d] /\ answer'[d] = answer[d]
  <2>1. Reply(c, a) /\ a \in Answers /\ PeersOK /\ UNCHANGED <<mode, client, msg, since>>
    BY <1>1, <1>3, <1>7
  <2> QED
    BY <2>1, ReplyEffect
<1>9. \A dir : Recent(c, dir)' <=> Recent(c, dir)
  BY <1>1, <1>3, RecentStays
<1>10. /\ msg[c].request = "http" /\ Routed(msg[c].path) /\ setter[c] = NotSetting
       /\ \A dir \in job[c].dirs : Recent(c, dir)
  BY <1>3, <1>4 DEF Parts, ForPeer
<1>11. WorksFor(c)' /\ ForPeer(c)'
  <2>1. job'[c] = NoJob /\ setter'[c] = NotSetting /\ msg'[c] = msg[c]
    BY <1>1, <1>4, <1>10
  <2>2. a.status = "page" => Recent(c, a.dir)'
    BY <1>7, <1>9, <1>10
  <2>3. answer'[c] = a /\ a # Success /\ server'[c] # "working"
    BY <1>7, <1>8
  <2>4. WorksFor(c)'
    BY <2>1, <2>3 DEF WorksFor
  <2> QED
    BY <1>10, <2>1, <2>2, <2>3, <2>4 DEF ForPeer, Recent
<1>12. msg[c].request # "set_directory"
  BY <1>10
<1> QED
  BY <1>1, <1>4, <1>5, <1>8, <1>11, <1>12, WorkStep

(* A change of a directory: what is recent stays so, and what is changed   *)
(* is recent for every request that is on.                                 *)
LEMMA ChangesEffect ==
  ASSUME IInv, NEW db \in Dbs, NEW dir \in Dirs,
         changes' = [changes EXCEPT ![db] = Append(@, dir)],
         directories' = [directories EXCEPT ![db] = dir], UNCHANGED acked
  PROVE  /\ changes' \in [Dbs -> Seq(Dirs)]
         /\ Len(changes'[db]) = Len(changes[db]) + 1
         /\ changes'[db][Len(changes[db]) + 1] = dir
         /\ \A i \in 1 .. Len(changes[db]) : changes'[db][i] = changes[db][i]
         /\ \A e \in Dbs : e # db => changes'[e] = changes[e]
         /\ \A e \in Dbs : InForce(e)'
<1>1. changes \in [Dbs -> Seq(Dirs)] /\ changes[db] \in Seq(Dirs) /\ directories \in [Dbs -> Dirs \cup {None}]
  BY Facts DEF ServiceInv
<1>2. /\ changes' \in [Dbs -> Seq(Dirs)]
      /\ changes'[db] = Append(changes[db], dir)
      /\ \A e \in Dbs : e # db => changes'[e] = changes[e]
  BY <1>1
<1>3. /\ Len(changes'[db]) = Len(changes[db]) + 1
      /\ changes'[db][Len(changes[db]) + 1] = dir
      /\ \A i \in 1 .. Len(changes[db]) : changes'[db][i] = changes[db][i]
  BY <1>1, <1>2
<1>4. directories'[db] = dir /\ \A e \in Dbs : e # db => directories'[e] = directories[e]
  BY <1>1
<1>5. \A e \in Dbs : InForce(e)'
  <2> TAKE e \in Dbs
  <2>1. acked'[e] = acked[e] /\ acked[e] \in Nat /\ acked[e] <= Len(changes[e]) /\ Len(changes[e]) \in Nat
    BY Facts
  <2>2. CASE e = db
    <3>1. changes'[db] # <<>>
      <4>1. Len(<<>>) = 0
        OBVIOUS
      <4>2. Len(changes'[db]) # 0
        BY <1>3, <2>1, <2>2
      <4> QED
        BY <4>1, <4>2
    <3>2. Len(changes'[db]) = Len(changes[db]) + 1 /\ directories'[db] = changes'[db][Len(changes'[db])]
      BY <1>3, <1>4
    <3>3. acked'[db] <= Len(changes'[db])
      BY <2>1, <2>2, <3>2
    <3> QED
      BY <2>2, <3>1, <3>2, <3>3 DEF InForce
  <2>3. CASE e # db
    <3>1. InForce(e)
      BY DEF IInv
    <3> QED
      BY <1>2, <1>4, <2>1, <2>3, <3>1 DEF InForce
  <2> QED
    BY <2>2, <2>3
<1> QED
  BY <1>2, <1>3, <1>5

LEMMA RecentAfter ==
  ASSUME IInv, NEW db \in Dbs, NEW dir \in Dirs,
         changes' = [changes EXCEPT ![db] = Append(@, dir)],
         directories' = [directories EXCEPT ![db] = dir], UNCHANGED <<acked, msg>>,
         NEW c \in Tasks, since'[c] = since[c], msg[c].request = "http", Routed(msg[c].path)
  PROVE  /\ \A e : Recent(c, e) => Recent(c, e)'
         /\ msg[c].path[3] = db => Recent(c, dir)'
         /\ Sent(c)'
<1> DEFINE b == msg[c].path[3]
<1>1. b \in Dbs /\ since[c] <= Len(changes[b]) /\ since[c] \in Nat /\ Len(changes[b]) \in Nat
  BY Facts DEF Parts, Sent, PeersOK
<1>2. /\ Len(changes'[db]) = Len(changes[db]) + 1
      /\ changes'[db][Len(changes[db]) + 1] = dir
      /\ \A i \in 1 .. Len(changes[db]) : changes'[db][i] = changes[db][i]
      /\ \A e \in Dbs : e # db => changes'[e] = changes[e]
  BY ChangesEffect
<1>3. Len(changes[b]) <= Len(changes'[b]) /\ \A i \in 1 .. Len(changes[b]) : changes'[b][i] = changes[b][i]
  BY <1>1, <1>2
<1>4. Len(changes'[b]) \in Nat
  BY <1>1, <1>2
<1>5. \A e : Recent(c, e) => Recent(c, e)'
  BY <1>1, <1>3, <1>4 DEF Recent
<1>6. ASSUME b = db  PROVE Recent(c, dir)'
  <2>1. Len(changes[db]) + 1 \in 1 .. Len(changes'[db]) /\ Len(changes[db]) + 1 >= since'[c]
    BY <1>1, <1>2, <1>6
  <2> QED
    BY <1>2, <1>6, <2>1 DEF Recent
<1>7. Sent(c)'
  BY <1>1, <1>3, <1>4 DEF Sent
<1> QED
  BY <1>5, <1>6, <1>7

(* The connections that a change is not made for.                          *)
LEMMA ChangeOthers ==
  ASSUME IInv, NEW s \in Setters, NEW db \in Dbs, NEW dir \in Dirs, Configure(s, db, dir),
         changes' = [changes EXCEPT ![db] = Append(@, dir)],
         UNCHANGED <<acked, client, msg, answer>>,
         process = "serving" => process' = "serving",
         NEW c \in Tasks, c # s, since'[c] = since[c], server'[c] = server[c]
  PROVE  Parts(c)'
<1>1. ServiceInv /\ Parts(c) /\ PeersOK
  BY Facts
<1>2. /\ directories' = [directories EXCEPT ![db] = dir]
      /\ c \in Setters /\ setter'[c] = setter[c]
      /\ job'[c] = NoJob <=> job[c] = NoJob
      /\ job[c] # NoJob =>
           /\ job'[c].key = job[c].key
           /\ job'[c].dirs \subseteq job[c].dirs \cup {dir}
           /\ job[c].key[1] # db => job'[c].dirs = job[c].dirs
  BY <1>1, ConfigureEffect, JobTypes
<1>3. Exchange(c)' /\ WorksFor(c)'
  BY <1>1, <1>2 DEF Parts, Exchange, WorksFor
<1>4. ASSUME msg[c].request = "http", Routed(msg[c].path)
      PROVE  /\ \A e : Recent(c, e) => Recent(c, e)'
             /\ msg[c].path[3] = db => Recent(c, dir)'
             /\ Sent(c)'
  BY <1>2, <1>4, RecentAfter
<1>5. Sent(c)'
  <2>1. CASE msg[c].request = "http" /\ Routed(msg[c].path)
    BY <1>4, <2>1
  <2>2. CASE msg[c].request = "set_directory"
    <3>1. msg[c].database \in Dbs /\ changes \in [Dbs -> Seq(Dirs)] /\ since[c] \in Nat
      BY <1>1, <2>2, Facts DEF PeersOK
    <3>2. Len(changes[msg[c].database]) \in Nat /\ Len(changes[msg[c].database]) <= Len(changes'[msg[c].database])
          /\ Len(changes'[msg[c].database]) \in Nat
      <4>1. /\ Len(changes'[db]) = Len(changes[db]) + 1
            /\ \A e \in Dbs : e # db => changes'[e] = changes[e]
        BY <1>2, ChangesEffect
      <4>2. Len(changes[msg[c].database]) \in Nat
        BY <3>1
      <4> QED
        BY <3>1, <4>1, <4>2
    <3> QED
      BY <1>1, <2>2, <3>1, <3>2 DEF Parts, Sent
  <2>3. CASE ~(msg[c].request = "http" /\ Routed(msg[c].path)) /\ msg[c].request # "set_directory"
    BY <2>3 DEF Sent
  <2> QED
    BY <2>1, <2>2, <2>3
<1>6. ForPeer(c)'
  <2>1. ASSUME job[c] # NoJob
        PROVE  /\ msg[c].request = "http" /\ Routed(msg[c].path)
               /\ job'[c].key = Key(msg[c].path)
               /\ \A e \in job'[c].dirs : Recent(c, e)'
               /\ setter[c] = NotSetting
    <3>1. /\ msg[c].request = "http" /\ Routed(msg[c].path)
          /\ job[c].key = Key(msg[c].path)
          /\ \A e \in job[c].dirs : Recent(c, e)
          /\ setter[c] = NotSetting
      BY <1>1, <2>1 DEF Parts, ForPeer
    <3>2. Key(msg[c].path)[1] = msg[c].path[3]
      BY <3>1, Facts
    <3>3. \A e \in job'[c].dirs : Recent(c, e)'
      BY <1>2, <1>4, <2>1, <3>1, <3>2
    <3> QED
      BY <1>2, <2>1, <3>1, <3>3
  <2>2. ASSUME answer[c].status = "page"
        PROVE  /\ msg[c].request = "http" /\ Routed(msg[c].path)
               /\ Recent(c, answer[c].dir)'
    BY <1>1, <1>4, <2>2 DEF Parts, ForPeer
  <2> QED
    BY <1>1, <1>2, <2>1, <2>2 DEF Parts, ForPeer
<1> QED
  BY <1>3, <1>5, <1>6 DEF Parts

LEMMA ChangeStep ==
  ASSUME IInv, NEW s \in Setters, NEW db \in Dbs, NEW dir \in Dirs, Configure(s, db, dir),
         changes' = [changes EXCEPT ![db] = Append(@, dir)],
         UNCHANGED <<acked, mode, socket, crashes>>, process' \in {"bind", "serving"},
         PeersOK', Len(changes[db]) < MaxChanges,
         \A c \in Tasks : Parts(c)', \A e \in Dbs : RoomKept(e)'
  PROVE  IInv'
<1>1. ServiceInv' /\ directories' = [directories EXCEPT ![db] = dir]
  BY Facts, ConfigureEffect
<1>2. /\ changes' \in [Dbs -> Seq(Dirs)]
      /\ Len(changes'[db]) = Len(changes[db]) + 1
      /\ \A e \in Dbs : e # db => changes'[e] = changes[e]
      /\ \A e \in Dbs : InForce(e)'
  BY <1>1, ChangesEffect
<1>3. acked' \in [Dbs -> Nat] /\ \A e \in Dbs : acked'[e] \in 0 .. MaxChanges
  BY DEF IInv, TypeOK
<1>4. ASSUME NEW e \in Dbs  PROVE Len(changes'[e]) <= MaxChanges /\ changes'[e] \in Seq(Dirs)
  <2>1. Len(changes[db]) \in Nat /\ Len(changes[e]) <= MaxChanges
    BY Facts
  <2> QED
    BY <1>2, <2>1, FrontEndAssumption DEF FrontEndAssumption
<1>5. TypeOK'
  BY <1>3, <1>4 DEF IInv, TypeOK, Parts
<1> QED
  BY <1>1, <1>2, <1>3, <1>5 DEF IInv, Parts

LEMMA ChangeKeeps ==
  ASSUME IInv, NEW c \in Tasks, Change(c)
  PROVE  IInv'
<1>0. msg[c].database \in Dbs /\ msg[c].directory \in Dirs
  BY Facts DEF Change
<1>a. PICK db \in Dbs : db = msg[c].database
  BY <1>0
<1>b. PICK dir \in Dirs : dir = msg[c].directory
  BY <1>0
<1>1. /\ server[c] = "reading" /\ client[c] \in {"sent", "gone"}
      /\ msg[c].request = "set_directory"
      /\ Configure(c, db, dir) /\ Goto(c, "working")
      /\ changes' = [changes EXCEPT ![db] = Append(@, dir)]
      /\ since' = [since EXCEPT ![c] = Len(changes[db]) + 1]
      /\ UNCHANGED <<processVars, acked, client, msg, answer>>
  BY <1>a, <1>b DEF Change, Complete
<1>2. /\ PeersOK /\ ServiceInv /\ Parts(c) /\ UNCHANGED <<mode, process, socket, crashes, acked, client, msg, answer>>
      /\ mode # "http" /\ c \in Setters
  BY <1>1, Facts, JobTypes DEF processVars
<1>3. /\ c \in Pending(db)
      /\ \A e \in Dbs : RoomKept(e) /\ Len(changes[e]) \in Nat
  BY <1>1, <1>2, <1>a, Facts DEF Pending, IInv
<1> DEFINE n == Len(changes[db])
<1>4. n \in Nat /\ n + Cardinality(Pending(db)) <= MaxChanges
  BY <1>2, <1>3 DEF RoomKept
<1>5. /\ IsFiniteSet(Pending(db)) /\ Cardinality(Pending(db)) \in Nat
      /\ Cardinality(Pending(db) \ {c}) = Cardinality(Pending(db)) - 1
      /\ Cardinality(Pending(db) \ {c}) \in Nat
  <2>1. Pending(db) \in SUBSET Tasks /\ Pending(db) \ {c} \in SUBSET Tasks
    BY DEF Pending
  <2> QED
    BY <1>3, <2>1, PendingSize, FS_RemoveElement
<1>6. n < MaxChanges
  BY <1>4, <1>5, FrontEndAssumption DEF FrontEndAssumption
<1>7. /\ server'[c] = "working" /\ since'[c] = n + 1
      /\ \A d \in Tasks : d # c => server'[d] = server[d] /\ since'[d] = since[d]
      /\ PeersOK'
  <2>1. n + 1 \in 0 .. MaxChanges
    BY <1>4, <1>6, FrontEndAssumption DEF FrontEndAssumption
  <2> QED
    BY <1>1, <1>2, <2>1 DEF PeersOK, Goto, Messages
<1>8. /\ directories' = [directories EXCEPT ![db] = dir]
      /\ setter[c] = NotSetting /\ setter'[c] # NotSetting
      /\ job'[c] = NoJob <=> job[c] = NoJob
  BY <1>1, <1>2, ConfigureEffect
<1>9. Len(changes'[db]) = n + 1 /\ \A e \in Dbs : e # db => changes'[e] = changes[e]
  BY <1>1, <1>2, <1>8, ChangesEffect
<1>10. Parts(c)'
  <2>1. job'[c] = NoJob /\ answer'[c] = NoAnswer /\ process' = "serving" /\ msg'[c] = msg[c]
    BY <1>1, <1>2, <1>8 DEF Parts, WorksFor, Exchange
  <2>2. Exchange(c)' /\ WorksFor(c)'
    BY <1>1, <1>2, <1>7, <1>8, <2>1 DEF Exchange, WorksFor
  <2>3. Sent(c)'
    BY <1>1, <1>4, <1>7, <1>9, <1>a, <2>1 DEF Sent
  <2>4. ForPeer(c)'
    BY <1>1, <2>1, AnswerKinds DEF ForPeer
  <2> QED
    BY <2>2, <2>3, <2>4 DEF Parts
<1>11. \A d \in Tasks : Parts(d)'
  <2> SUFFICES ASSUME NEW d \in Tasks, d # c  PROVE Parts(d)'
    BY <1>10
  <2>1. process = "serving" => process' = "serving"
    BY <1>2
  <2> QED
    BY <1>1, <1>2, <1>7, <2>1, ChangeOthers
<1>12. \A e \in Dbs : RoomKept(e)'
  <2>1. RoomKept(db)'
    <3>1. Pending(db)' = Pending(db) \ {c}
      BY <1>a, <1>1, <1>2, <1>7 DEF Pending
    <3>2. Len(changes'[db]) + Cardinality(Pending(db) \ {c}) <= MaxChanges
      BY <1>4, <1>5, <1>9, FrontEndAssumption DEF FrontEndAssumption
    <3> QED
      BY <1>2, <3>1, <3>2 DEF RoomKept
  <2> SUFFICES ASSUME NEW e \in Dbs, e # db  PROVE RoomKept(e)'
    BY <2>1
  <2>2. Pending(e)' \subseteq Pending(e)
    BY <1>a, <1>1, <1>2, <1>7 DEF Pending
  <2>3. /\ Cardinality(Pending(e)') <= Cardinality(Pending(e))
        /\ Cardinality(Pending(e)') \in Nat /\ Cardinality(Pending(e)) \in Nat
    <3>1. Pending(e) \in SUBSET Tasks /\ Pending(e)' \in SUBSET Tasks
      BY DEF Pending
    <3> QED
      BY <2>2, <3>1, PendingSize, FS_Subset
  <2>4. Len(changes[e]) + Cardinality(Pending(e)) <= MaxChanges /\ Len(changes[e]) \in Nat
    BY <1>2, <1>3 DEF RoomKept
  <2>5. Len(changes'[e]) + Cardinality(Pending(e)') <= MaxChanges
    BY <1>9, <2>3, <2>4, FrontEndAssumption DEF FrontEndAssumption
  <2> QED
    BY <1>2, <2>5 DEF RoomKept
<1>13. process' \in {"bind", "serving"}
  BY <1>1, <1>2 DEF Parts, Exchange
<1> HIDE DEF n
<1>14. Len(changes[db]) < MaxChanges
  BY <1>6 DEF n
<1> QED
  BY <1>1, <1>2, <1>7, <1>11, <1>12, <1>13, <1>14, ChangeStep

LEMMA ChangedKeeps ==
  ASSUME IInv, NEW c \in Tasks, Changed(c)
  PROVE  IInv'
<1>1. /\ Configured(c) /\ Reply(c, Success)
      /\ UNCHANGED <<processVars, historyVars, client, msg, since>>
  BY DEF Changed
<1>2. /\ PeersOK /\ ServiceInv /\ Parts(c) /\ c \in Setters
      /\ UNCHANGED <<mode, process, changes, acked>>
  BY <1>1, Facts, JobTypes DEF processVars, historyVars
<1>3. /\ ServiceInv' /\ UNCHANGED <<directories, job>>
      /\ setter[c] # NotSetting /\ setter'[c] = NotSetting
      /\ \A r \in Setters : r # c => setter'[r] = setter[r]
  BY <1>1, <1>2, ConfiguredEffect
<1>4. \A d \in Tasks : d # c => job'[d] = job[d] /\ setter'[d] = setter[d]
  BY <1>3, JobTypes
<1>5. /\ PeersOK' /\ server'[c] = "writing" /\ answer'[c] = Success
      /\ \A d \in Tasks : d # c => server'[d] = server[d] /\ answer'[d] = answer[d]
  BY <1>1, <1>2, AnswerKinds, ReplyEffect
<1>6. /\ server[c] = "working" /\ client[c] \in {"sent", "gone"}
      /\ job[c] = NoJob /\ msg[c].request = "set_directory"
  BY <1>2, <1>3 DEF Parts, WorksFor, Exchange, PeersOK, ForPeer
<1>7. WorksFor(c)' /\ ForPeer(c)'
  BY <1>1, <1>3, <1>5, <1>6, AnswerKinds DEF WorksFor, ForPeer
<1> QED
  BY <1>1, <1>3, <1>4, <1>5, <1>6, <1>7, WorkStep

LEMMA RespondKeeps ==
  ASSUME IInv, NEW c \in Tasks, Respond(c)
  PROVE  IInv'
<1> DEFINE db == msg[c].database
<1>1. /\ server[c] = "writing" /\ Close(c)
      /\ acked' = IF answer[c] = Success /\ client[c] # "gone" /\ since[c] > acked[db]
                    THEN [acked EXCEPT ![db] = since[c]] ELSE acked
      /\ UNCHANGED <<serviceVars, processVars, changes>>
  BY DEF Respond
<1>2. Parts(c) /\ PeersOK /\ acked \in [Dbs -> Nat] /\ \A e \in Dbs : acked[e] <= Len(changes[e])
  BY Facts
<1>3. ServiceInv' /\ UNCHANGED <<directories, job, setter>>
  BY <1>1, Facts DEF serviceVars, ServiceInv
<1>4. job[c] = NoJob /\ setter[c] = NotSetting
  BY <1>1, <1>2 DEF Parts, WorksFor
<1>5. acked' \in [Dbs -> Nat] /\ \A e \in Dbs : acked'[e] <= Len(changes[e])
  <2>1. CASE answer[c] = Success
    <3>1. db \in Dbs /\ since[c] <= Len(changes[db]) /\ since[c] \in Nat
      BY <1>1, <1>2, <2>1, Facts DEF Parts, ForPeer, Sent, PeersOK
    <3> QED
      BY <1>1, <1>2, <3>1
  <2>2. CASE answer[c] # Success
    BY <1>1, <1>2, <2>2
  <2> QED
    BY <2>1, <2>2
<1> QED
  BY <1>1, <1>3, <1>4, <1>5, CloseStep

LEMMA HangUpKeeps ==
  ASSUME IInv, NEW c \in Tasks, HangUp(c)
  PROVE  IInv'
<1>1. /\ Close(c) /\ UNCHANGED <<processVars, historyVars>>
      /\ IF server[c] = "working" THEN Finish(c) \/ Refuse(c) ELSE UNCHANGED serviceVars
  BY DEF HangUp
<1>2. Parts(c) /\ ServiceInv /\ UNCHANGED <<changes, acked>>
      /\ acked \in [Dbs -> Nat] /\ \A e \in Dbs : acked[e] <= Len(changes[e])
  BY <1>1, Facts DEF historyVars
<1>3. /\ ServiceInv' /\ UNCHANGED <<directories, setter>>
      /\ job'[c] = NoJob /\ setter[c] = NotSetting
      /\ \A d \in Tasks : d # c => job'[d] = job[d]
  <2>1. CASE server[c] = "working"
    <3>1. /\ ServiceInv' /\ UNCHANGED <<directories, setter>>
          /\ job[c] # NoJob /\ job'[c] = NoJob
          /\ \A d \in Tasks : d # c => job'[d] = job[d]
      BY <1>1, <1>2, <2>1, EndEffect
    <3> QED
      BY <1>2, <3>1 DEF Parts, ForPeer
  <2>2. CASE server[c] # "working"
    <3>1. ServiceInv' /\ UNCHANGED <<directories, job, setter>>
      BY <1>1, <1>2, <2>2, NothingServed
    <3> QED
      BY <1>2, <2>2, <3>1 DEF Parts, WorksFor
  <2> QED
    BY <2>1, <2>2
<1>4. acked' \in [Dbs -> Nat] /\ \A e \in Dbs : acked'[e] <= Len(changes[e])
  BY <1>2
<1> QED
  BY <1>1, <1>2, <1>3, <1>4, CloseStep

(* A request is sent: what is to be changed finds room.                    *)
LEMMA SendKeeps ==
  ASSUME IInv, NEW c \in Tasks, NEW m \in Messages, Room(m), Send(c, m)
  PROVE  IInv'
<1>1. /\ client[c] = "sending"
      /\ client' = [client EXCEPT ![c] = "sent"]
      /\ msg' = [msg EXCEPT ![c] = m]
      /\ UNCHANGED <<serviceVars, processVars, historyVars, server, answer>>
  BY DEF Send
<1>2. /\ PeersOK /\ Parts(c) /\ UNCHANGED <<mode, process, changes, acked>>
      /\ acked \in [Dbs -> Nat]
      /\ \A db \in Dbs : /\ acked[db] <= Len(changes[db])
                         /\ Len(changes[db]) \in Nat /\ Len(changes[db]) <= MaxChanges
      /\ \A db \in Dbs : RoomKept(db)
  BY <1>1, Facts DEF processVars, historyVars, IInv
<1>3. /\ m.request = "http" => m.path \in Paths
      /\ m.request = "http" /\ Routed(m.path) => m.path[3] \in Dbs
      /\ m.request = "set_directory" => m.database \in Dbs /\ mode # "http"
  BY MessageKinds, RoutedKey
<1>4. /\ msg[c] = Garbage /\ answer[c] = NoAnswer /\ server[c] \in {"backlog", "reading"}
      /\ job[c] = NoJob /\ setter[c] = NotSetting
  BY <1>1, <1>2 DEF Parts, Exchange, WorksFor
<1>5. Garbage.request \notin {"http", "set_directory"}
  BY DEF Garbage
<1>6. ASSUME m.request = "set_directory"
      PROVE  Len(changes[m.database]) + 1 + Cardinality(Pending(m.database)) <= MaxChanges
  <2>1. Pending(m.database) \in SUBSET Tasks
    BY DEF Pending
  <2>2. Cardinality(Pending(m.database)) \in Nat
    BY <2>1, PendingSize
  <2> QED
    BY <1>2, <1>3, <1>6, <2>2, FrontEndAssumption DEF Room, FrontEndAssumption
<1> DEFINE n == CASE m.request = "http" /\ Routed(m.path) -> acked[m.path[3]]
                  [] m.request = "set_directory" -> Len(changes[m.database]) + 1
                  [] OTHER -> 0
<1>7. since' = [since EXCEPT ![c] = n]
  BY DEF Send
<1>8. n \in 0 .. MaxChanges /\ (m.request = "http" /\ Routed(m.path) => n <= Len(changes[m.path[3]]))
  <2>1. CASE m.request = "http" /\ Routed(m.path)
    <3>1. n = acked[m.path[3]]
      BY <2>1
    <3> QED
      BY <1>2, <1>3, <2>1, <3>1, FrontEndAssumption DEF FrontEndAssumption
  <2>2. CASE m.request = "set_directory"
    <3>1. n = Len(changes[m.database]) + 1
      BY <2>2
    <3>2. Pending(m.database) \in SUBSET Tasks
      BY DEF Pending
    <3>3. Cardinality(Pending(m.database)) \in Nat
      BY <3>2, PendingSize
    <3> QED
      BY <1>2, <1>3, <1>6, <2>2, <3>1, <3>3, FrontEndAssumption DEF FrontEndAssumption
  <2>3. CASE ~(m.request = "http" /\ Routed(m.path)) /\ m.request # "set_directory"
    <3>1. n = 0
      BY <2>3
    <3> QED
      BY <2>3, <3>1, FrontEndAssumption DEF FrontEndAssumption
  <2> QED
    BY <2>1, <2>2, <2>3
<1> HIDE DEF n
<1>9. /\ PeersOK' /\ client'[c] = "sent" /\ msg'[c] = m /\ since'[c] = n
      /\ \A d \in Tasks : d # c => /\ client'[d] = client[d] /\ msg'[d] = msg[d] /\ since'[d] = since[d]
  BY <1>1, <1>2, <1>7, <1>8 DEF PeersOK, Messages
<1>10. ServiceInv' /\ UNCHANGED <<directories, job, setter>>
       /\ acked' \in [Dbs -> Nat] /\ \A db \in Dbs : acked'[db] <= Len(changes[db])
  BY <1>1, <1>2, NothingServed
<1>11. Parts(c)'
  <2>1. Exchange(c)' /\ WorksFor(c)'
    BY <1>1, <1>2, <1>4, <1>9, <1>10, AnswerKinds DEF Exchange, WorksFor, Parts
  <2>2. Sent(c)'
    BY <1>1, <1>2, <1>4, <1>8, <1>9 DEF Sent
  <2>3. ForPeer(c)'
    BY <1>1, <1>4, <1>10, AnswerKinds DEF ForPeer
  <2> QED
    BY <2>1, <2>2, <2>3 DEF Parts
<1>12. \A db \in Dbs : mode # "http" => Len(changes[db]) + Cardinality(Pending(db)') <= MaxChanges
  <2> TAKE db \in Dbs
  <2>1. CASE m.request = "set_directory" /\ m.database = db
    <3>1. Pending(db)' = Pending(db) \cup {c} /\ c \notin Pending(db)
      BY <1>1, <1>4, <1>5, <1>9, <2>1 DEF Pending
    <3>2. Pending(db) \in SUBSET Tasks
      BY DEF Pending
    <3>3. /\ Cardinality(Pending(db)) \in Nat
          /\ Cardinality(Pending(db) \cup {c}) = Cardinality(Pending(db)) + 1
      BY <3>1, <3>2, PendingSize, FS_AddElement
    <3>4. Len(changes[db]) + 1 + Cardinality(Pending(db)) <= MaxChanges
      BY <1>6, <2>1
    <3>5. Cardinality(Pending(db)') = Cardinality(Pending(db)) + 1 /\ Len(changes[db]) \in Nat
      BY <1>2, <3>1, <3>3
    <3> QED
      BY <3>3, <3>4, <3>5, FrontEndAssumption DEF FrontEndAssumption
  <2>2. CASE ~(m.request = "set_directory" /\ m.database = db)
    <3>1. Pending(db)' \subseteq Pending(db)
      BY <1>1, <1>9, <2>2 DEF Pending
    <3> QED
      BY <1>2, <3>1, RoomStays
  <2> QED
    BY <2>1, <2>2
<1> QED
  BY <1>1, <1>2, <1>9, <1>10, <1>11, <1>12, ConnStep

-----------------------------------------------------------------------------
(* The process.  While it is not serving nothing is read or worked on.     *)
LEMMA NotServing ==
  ASSUME IInv, process # "serving", NEW c \in Tasks
  PROVE  /\ server[c] \in {"none", "backlog"} /\ answer[c] = NoAnswer
         /\ job[c] = NoJob /\ setter[c] = NotSetting
BY Facts DEF PeersOK, Parts, Exchange, WorksFor

LEMMA ProcessStep ==
  ASSUME IInv, process # "serving",
         UNCHANGED <<serviceVars, peerVars, historyVars, mode, crashes>>,
         process' \in {"starting", "bind", "serving"},
         mode = "http" => process = "down" /\ process' = "starting",
         socket' \in {"none", "bound", "stale"}
  PROVE  IInv'
<1>1. UNCHANGED <<directories, job, setter, client, server, msg, answer, since, changes, acked>>
  BY DEF serviceVars, peerVars, historyVars
<1>2. ServiceInv' /\ PeersOK'
  <2>1. ServiceInv'
    BY <1>1, Facts DEF ServiceInv
  <2>2. PeersOK'
    BY <1>1, Facts DEF PeersOK, Messages
  <2> QED
    BY <2>1, <2>2
<1>3. \A c \in Tasks : Parts(c)'
  <2> TAKE c \in Tasks
  <2>1. Parts(c) /\ server[c] \in {"none", "backlog"}
    BY Facts, NotServing
  <2>2. \A dir : Recent(c, dir)' <=> Recent(c, dir)
    BY <1>1, RecentStays
  <2>3. Exchange(c)' /\ WorksFor(c)' /\ Sent(c)'
    BY <1>1, <2>1 DEF Parts, Exchange, WorksFor, Sent
  <2>4. ForPeer(c)'
    BY <1>1, <2>1, <2>2 DEF Parts, ForPeer
  <2> QED
    BY <2>3, <2>4 DEF Parts
<1>4. TypeOK'
  BY <1>1, <1>2, <1>3 DEF IInv, TypeOK, Parts
<1>5. \A db \in Dbs : InForce(db)' /\ RoomKept(db)'
  <2> TAKE db \in Dbs
  <2>1. InForce(db) /\ RoomKept(db) /\ Len(changes[db]) \in Nat
    BY Facts DEF IInv
  <2>2. InForce(db)'
    BY <1>1, <2>1 DEF InForce
  <2>3. Pending(db)' = Pending(db)
    BY <1>1 DEF Pending
  <2>4. ASSUME mode = "http"
        PROVE  Len(changes[db]) <= crashes + (IF process' \in {"bind", "serving"} THEN 1 ELSE 0)
    <3>1. process = "down" /\ process' = "starting"
      BY <2>4
    <3> QED
      BY <2>1, <2>4, <3>1 DEF RoomKept
  <2> QED
    BY <1>1, <2>1, <2>2, <2>3, <2>4 DEF RoomKept
<1> QED
  BY <1>1, <1>2, <1>3, <1>4, <1>5 DEF IInv, Parts

LEMMA StartKeeps ==
  ASSUME IInv, Start \/ ListenFd \/ RemoveSocket \/ Bind
  PROVE  IInv'
<1>1. /\ process # "serving"
      /\ UNCHANGED <<serviceVars, peerVars, historyVars, mode, crashes>>
      /\ process' \in {"starting", "bind", "serving"}
      /\ mode = "http" => process = "down" /\ process' = "starting"
  BY DEF Start, ListenFd, RemoveSocket, Bind
<1>2. socket' \in {"none", "bound", "stale"}
  BY DEF Start, ListenFd, RemoveSocket, Bind, IInv, TypeOK
<1> QED
  BY <1>1, <1>2, ProcessStep

LEMMA SetTestDirectoryKeeps ==
  ASSUME IInv, SetTestDirectory
  PROVE  IInv'
<1>1. /\ mode = "http" /\ process = "starting"
      /\ Configure(Main, TestDb, TestDir)
      /\ changes' = [changes EXCEPT ![TestDb] = Append(@, TestDir)]
      /\ process' = "bind"
      /\ UNCHANGED <<client, server, msg, answer, since, acked, mode, socket, crashes>>
  BY DEF SetTestDirectory, peerVars
<1>2. TestDb \in Dbs /\ TestDir \in Dirs /\ Main \in Setters /\ Main \notin Tasks
  BY JobTypes, FrontEndAssumption DEF FrontEndAssumption
<1>3. PeersOK'
  BY <1>1, Facts DEF PeersOK, Messages
<1>4. \A c \in Tasks : Parts(c)'
  <2> TAKE c \in Tasks
  <2>1. c # Main /\ since'[c] = since[c] /\ server'[c] = server[c] /\ process # "serving"
    BY <1>1, <1>2
  <2> QED
    BY <1>1, <1>2, <2>1, ChangeOthers
<1>5. ServiceInv /\ crashes \in 0 .. MaxCrashes
  BY Facts DEF TypeOK
<1>6. directories' = [directories EXCEPT ![TestDb] = TestDir]
  BY <1>1, <1>2, <1>5, ConfigureEffect
<1>7. /\ Len(changes'[TestDb]) = Len(changes[TestDb]) + 1
      /\ \A e \in Dbs : e # TestDb => changes'[e] = changes[e]
  BY <1>1, <1>2, <1>6, ChangesEffect
<1>8. \A e \in Dbs : Len(changes[e]) \in Nat /\ Len(changes[e]) <= crashes
  <2> TAKE e \in Dbs
  <2>1. Len(changes[e]) <= crashes + 0 /\ Len(changes[e]) \in Nat
    BY <1>1, Facts DEF IInv, RoomKept
  <2> QED
    BY <1>5, <2>1
<1>9. Len(changes[TestDb]) < MaxChanges
  BY <1>2, <1>5, <1>8, FrontEndAssumption DEF FrontEndAssumption
<1>10. \A e \in Dbs : RoomKept(e)'
  <2> TAKE e \in Dbs
  <2>1. Len(changes'[e]) <= Len(changes[e]) + 1
    BY <1>2, <1>7, <1>8
  <2>2. Len(changes'[e]) \in Nat
    BY <1>2, <1>7, <1>8
  <2>3. Len(changes'[e]) <= crashes + 1
    BY <1>5, <1>8, <2>1, <2>2
  <2> QED
    BY <1>1, <2>3 DEF RoomKept
<1>11. process' \in {"bind", "serving"} /\ UNCHANGED <<acked, mode, socket, crashes>>
  BY <1>1
<1> QED
  BY <1>1, <1>2, <1>3, <1>4, <1>9, <1>10, <1>11, ChangeStep

LEMMA ServeHttpKeeps ==
  ASSUME IInv, ServeHttp
  PROVE  IInv'
<1>1. /\ mode = "http" /\ process = "bind"
      /\ Configured(Main)
      /\ acked' = [acked EXCEPT ![TestDb] = Len(changes[TestDb])]
      /\ process' = "serving"
      /\ UNCHANGED <<client, server, msg, answer, since, changes, mode, socket, crashes>>
  BY DEF ServeHttp, peerVars
<1>2. TestDb \in Dbs /\ Main \in Setters /\ Main \notin Tasks /\ Tasks \subseteq Setters
  BY JobTypes, FrontEndAssumption DEF FrontEndAssumption
<1>3. PeersOK'
  BY <1>1, Facts DEF PeersOK, Messages
<1>4. /\ ServiceInv' /\ UNCHANGED <<directories, job>>
      /\ \A c \in Tasks : setter'[c] = setter[c]
  BY <1>1, <1>2, Facts, ConfiguredEffect
<1>5. \A c \in Tasks : Parts(c)'
  <2> TAKE c \in Tasks
  <2>1. Parts(c) /\ server[c] \in {"none", "backlog"}
    BY <1>1, Facts, NotServing
  <2>2. \A dir : Recent(c, dir)' <=> Recent(c, dir)
    BY <1>1, RecentStays
  <2>3. Exchange(c)' /\ WorksFor(c)' /\ Sent(c)'
    BY <1>1, <1>4, <2>1 DEF Parts, Exchange, WorksFor, Sent
  <2>4. ForPeer(c)'
    BY <1>1, <1>4, <2>1, <2>2 DEF Parts, ForPeer
  <2> QED
    BY <2>3, <2>4 DEF Parts
<1>6. /\ acked' \in [Dbs -> Nat]
      /\ \A db \in Dbs : acked'[db] <= Len(changes[db]) /\ acked'[db] \in 0 .. MaxChanges
  <2>1. /\ acked \in [Dbs -> Nat]
        /\ \A db \in Dbs : /\ acked[db] <= Len(changes[db])
                           /\ Len(changes[db]) \in Nat /\ Len(changes[db]) <= MaxChanges
    BY Facts
  <2> QED
    BY <1>1, <1>2, <2>1, FrontEndAssumption DEF FrontEndAssumption
<1>7. TypeOK'
  BY <1>1, <1>3, <1>5, <1>6 DEF IInv, TypeOK, Parts
<1>8. \A db \in Dbs : InForce(db)' /\ RoomKept(db)'
  <2> TAKE db \in Dbs
  <2>1. InForce(db) /\ RoomKept(db)
    BY DEF IInv
  <2> QED
    BY <1>1, <1>4, <1>6, <2>1 DEF InForce, RoomKept
<1> QED
  BY <1>1, <1>3, <1>4, <1>5, <1>6, <1>7, <1>8 DEF IInv, Parts

(* A crash leaves what the inherited descriptor keeps, and the history.    *)
LEMMA CrashKeeps ==
  ASSUME IInv, Crash
  PROVE  IInv'
<1> DEFINE Stays(c) == server[c] = "backlog" /\ mode = "fd"
<1>1. /\ crashes < MaxCrashes /\ crashes' = crashes + 1
      /\ process' = "down"
      /\ socket' = IF socket = "bound" THEN "stale" ELSE socket
      /\ directories' = [db \in Dbs |-> None]
      /\ job' = [c \in Tasks |-> NoJob]
      /\ setter' = [s \in Setters |-> NotSetting]
      /\ client' = [c \in Tasks |-> IF Stays(c) THEN client[c] ELSE "none"]
      /\ server' = [c \in Tasks |-> IF Stays(c) THEN server[c] ELSE "none"]
      /\ msg' = [c \in Tasks |-> IF Stays(c) THEN msg[c] ELSE Garbage]
      /\ since' = [c \in Tasks |-> IF Stays(c) THEN since[c] ELSE 0]
      /\ answer' = [c \in Tasks |-> NoAnswer]
      /\ UNCHANGED <<mode, changes, acked>>
  BY DEF Crash, historyVars
<1>2. ServiceInv'
  <2>1. NoJob.by = None
    BY DEF NoJob
  <2>2. /\ directories' \in [Dbs -> Dirs \cup {None}]
        /\ job' \in [Tasks -> Jobs \cup {NoJob}]
        /\ setter' \in [Setters -> [db : Dbs, dir : Dirs] \cup {NotSetting}]
    BY <1>1
  <2> QED
    BY <1>1, <2>1, <2>2 DEF ServiceInv
<1>3. ASSUME NEW c \in Tasks
      PROVE  /\ answer'[c] = NoAnswer /\ job'[c] = NoJob /\ setter'[c] = NotSetting
             /\ \/ /\ server[c] = "backlog" /\ server'[c] = "backlog" /\ client'[c] = client[c]
                   /\ msg'[c] = msg[c] /\ since'[c] = since[c]
                \/ server'[c] = "none" /\ client'[c] = "none" /\ msg'[c] = Garbage /\ since'[c] = 0
  <2>1. answer'[c] = NoAnswer /\ job'[c] = NoJob /\ setter'[c] = NotSetting
    BY <1>1, JobTypes
  <2>2. CASE Stays(c)
    BY <1>1, <2>1, <2>2
  <2>3. CASE ~Stays(c)
    BY <1>1, <2>1, <2>3
  <2> QED
    BY <2>2, <2>3
<1>4. PeersOK'
  <2>1. PeersOK /\ 0 \in 0 .. MaxChanges
    BY Facts, FrontEndAssumption DEF FrontEndAssumption
  <2>2. /\ client' \in [Tasks -> {"none", "sending", "sent", "gone"}]
        /\ server' \in [Tasks -> {"none", "backlog", "reading", "working", "writing"}]
        /\ since' \in [Tasks -> 0 .. MaxChanges]
    BY <1>1, <2>1 DEF PeersOK
  <2>3. msg' \in [Tasks -> Messages \cup {Garbage}] /\ Messages' = Messages
    BY <1>1, <2>1 DEF PeersOK, Messages
  <2>4. answer' \in [Tasks -> Answers]
    BY <1>1, AnswerKinds
  <2> QED
    BY <2>2, <2>3, <2>4 DEF PeersOK
<1> HIDE DEF Stays
<1>5. Garbage.request \notin {"http", "set_directory"}
  BY DEF Garbage
<1>6. \A c \in Tasks : Parts(c)'
  <2> TAKE c \in Tasks
  <2>1. Parts(c)
    BY Facts
  <2>2. Exchange(c)' /\ WorksFor(c)'
    BY <1>3, <2>1 DEF Parts, Exchange, WorksFor
  <2>3. Sent(c)'
    BY <1>1, <1>3, <1>5, <2>1 DEF Parts, Sent
  <2>4. ForPeer(c)'
    BY <1>3, AnswerKinds DEF ForPeer
  <2> QED
    BY <2>2, <2>3, <2>4 DEF Parts
<1>7. crashes \in 0 .. MaxCrashes /\ crashes' \in 0 .. MaxCrashes
  BY <1>1, Facts, FrontEndAssumption DEF TypeOK, FrontEndAssumption
<1>8. TypeOK'
  BY <1>1, <1>4, <1>6, <1>7 DEF IInv, TypeOK, Parts
<1>9. \A db \in Dbs : InForce(db)' /\ RoomKept(db)'
  <2> TAKE db \in Dbs
  <2>1. InForce(db) /\ RoomKept(db) /\ Len(changes[db]) \in Nat
    BY Facts DEF IInv
  <2>2. InForce(db)'
    BY <1>1, <2>1 DEF InForce
  <2>3. Pending(db)' \subseteq Pending(db)
    BY <1>1, <1>3, <1>5 DEF Pending
  <2>4. mode # "http" => Len(changes[db]) + Cardinality(Pending(db)') <= MaxChanges
    BY <1>1, <2>1, <2>3, RoomStays
  <2>5. mode = "http" => Len(changes[db]) <= crashes' + 0
    BY <1>1, <1>7, <2>1 DEF RoomKept
  <2> QED
    BY <1>1, <2>2, <2>4, <2>5 DEF RoomKept
<1>10. changes' \in [Dbs -> Seq(Dirs)] /\ acked' \in [Dbs -> Nat]
  BY <1>1, Facts
<1> QED
  BY <1>2, <1>6, <1>8, <1>9, <1>10 DEF IInv, Parts

-----------------------------------------------------------------------------
LEMMA InitIInv == Init => IInv
<1> SUFFICES ASSUME Init PROVE IInv
  OBVIOUS
<1>1. ServiceInv
  <2>1. NoJob.by = None
    BY DEF NoJob
  <2> QED
    BY <2>1 DEF Init, ServiceInv
<1>2. PeersOK
  BY AnswerKinds, FrontEndAssumption DEF Init, PeersOK, FrontEndAssumption
<1>3. \A c \in Tasks : Parts(c)
  <2> TAKE c \in Tasks
  <2>1. /\ client[c] = "none" /\ server[c] = "none" /\ msg[c] = Garbage /\ answer[c] = NoAnswer
        /\ job[c] = NoJob /\ setter[c] = NotSetting
    BY JobTypes DEF Init
  <2>2. Garbage.request \notin {"http", "set_directory"}
    BY DEF Garbage
  <2> QED
    BY <2>1, <2>2, AnswerKinds DEF Parts, Exchange, Sent, ForPeer, WorksFor
<1>4. /\ changes \in [Dbs -> Seq(Dirs)] /\ acked \in [Dbs -> Nat]
      /\ \A db \in Dbs : Len(changes[db]) = 0 /\ acked[db] = 0 /\ directories[db] = None
  BY DEF Init
<1>5. TypeOK
  BY <1>2, <1>3, <1>4, FrontEndAssumption DEF Init, TypeOK, Parts, FrontEndAssumption
<1>6. \A db \in Dbs : InForce(db) /\ RoomKept(db)
  <2> TAKE db \in Dbs
  <2>1. Pending(db) = {}
    BY DEF Init, Pending
  <2>2. Cardinality(Pending(db)) = 0
    BY <2>1, FS_EmptySet
  <2>3. crashes = 0 /\ process = "down"
    BY DEF Init
  <2> QED
    BY <1>4, <2>2, <2>3, FrontEndAssumption DEF InForce, RoomKept, FrontEndAssumption
<1> QED
  BY <1>1, <1>3, <1>4, <1>5, <1>6 DEF IInv, Parts

LEMMA NextIInv == IInv /\ [Next]_vars => IInv'
<1> SUFFICES ASSUME IInv, [Next]_vars PROVE IInv'
  OBVIOUS
<1>1. ASSUME NEW c \in Tasks,
             \/ Connect(c) \/ Leave(c)
             \/ \E m \in Messages : Room(m) /\ Send(c, m)
             \/ Progress(c)
      PROVE  IInv'
  <2>1. CASE Connect(c)
    BY <2>1, ConnectKeeps
  <2>2. CASE Leave(c)
    BY <2>2, LeaveKeeps
  <2>3. ASSUME NEW m \in Messages, Room(m), Send(c, m)  PROVE IInv'
    BY <2>3, SendKeeps
  <2>4. CASE Accept(c)
    BY <2>4, AcceptKeeps
  <2>5. CASE Undecodable(c) \/ ReadError(c)
    BY <2>5, UnreadKeeps
  <2>6. CASE Misdirected(c)
    BY <2>6, MisdirectedKeeps
  <2>7. CASE Handle(c)
    BY <2>7, HandleKeeps
  <2>8. CASE GetWorker(c)
    BY <2>8, GetWorkerKeeps
  <2>9. CASE HandleHttp(c) \/ GetWorkerError(c)
    BY <2>9, AnswerKeeps
  <2>10. CASE Change(c)
    BY <2>10, ChangeKeeps
  <2>11. CASE Changed(c)
    BY <2>11, ChangedKeeps
  <2>12. CASE Respond(c)
    BY <2>12, RespondKeeps
  <2>13. CASE HangUp(c)
    BY <2>13, HangUpKeeps
  <2> QED
    BY <1>1, <2>1, <2>2, <2>3, <2>4, <2>5, <2>6, <2>7, <2>8, <2>9, <2>10, <2>11, <2>12, <2>13
       DEF Progress
<1>2. CASE Startup
  BY <1>2, StartKeeps, SetTestDirectoryKeeps, ServeHttpKeeps DEF Startup
<1>3. CASE Crash
  BY <1>3, CrashKeeps
<1>4. CASE UNCHANGED vars
  <2>1. UNCHANGED <<directories, job, setter, mode, process, socket, crashes, client, server, msg,
                    answer, since, changes, acked>>
    BY <1>4 DEF vars, serviceVars, processVars, peerVars, historyVars
  <2>2. ServiceInv'
    BY <2>1, Facts DEF ServiceInv
  <2>3. PeersOK'
    BY <2>1, Facts DEF PeersOK, Messages
  <2>4. \A c \in Tasks : Parts(c)'
    <3> TAKE c \in Tasks
    <3>1. Parts(c) /\ \A dir : Recent(c, dir)' <=> Recent(c, dir)
      BY <2>1, Facts, RecentStays
    <3>2. Exchange(c)' /\ WorksFor(c)' /\ Sent(c)'
      BY <2>1, <3>1 DEF Parts, Exchange, WorksFor, Sent
    <3>3. ForPeer(c)'
      BY <2>1, <3>1 DEF Parts, ForPeer
    <3> QED
      BY <3>2, <3>3 DEF Parts
  <2>5. TypeOK'
    BY <2>1, <2>3, <2>4 DEF IInv, TypeOK, Parts
  <2>6. \A db \in Dbs : InForce(db)' /\ RoomKept(db)'
    <3> TAKE db \in Dbs
    <3>1. InForce(db) /\ RoomKept(db) /\ Pending(db)' = Pending(db)
      BY <2>1 DEF IInv, Pending
    <3> QED
      BY <2>1, <3>1 DEF InForce, RoomKept
  <2> QED
    BY <2>1, <2>2, <2>4, <2>5, <2>6, Facts DEF IInv, Parts
<1> QED
  BY <1>1, <1>2, <1>3, <1>4 DEF Next

-----------------------------------------------------------------------------
(* What is said of the exchanges, of the calls made of the tenant for them *)
(* and of the directories in force holds from the first connection on,     *)
(* through every restart.                                                  *)
THEOREM Invariant == Spec => []IInv
BY InitIInv, NextIInv, PTL DEF Spec

(* Every connection is somewhere in its exchange, and the tenant works for *)
(* a connection exactly while its task waits for the answer; a process     *)
(* that is down keeps no directory.                                        *)
THEOREM TypeCorrect == Spec => []TypeOK
<1>1. IInv => TypeOK
  BY DEF IInv
<1> QED
  BY <1>1, Invariant, PTL

(* A peer is shown no page of a directory older than the one that was last *)
(* acknowledged when it sent its request: by no connection, with any       *)
(* number of changes going on, and after any number of restarts.           *)
THEOREM AcknowledgedDirectoryServedHolds == Spec => []AcknowledgedDirectoryServed
<1>1. IInv => AcknowledgedDirectoryServed
  BY DEF IInv, ForPeer, AcknowledgedDirectoryServed
<1> QED
  BY <1>1, Invariant, PTL
=============================================================================
