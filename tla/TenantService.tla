----------------------------- MODULE TenantService -----------------------------
(***************************************************************************)
(* What a Tenant (server/src/tenant.rs) promises to the front ends that    *)
(* share it: handle serves a request from a directory that was its         *)
(* database's at some time since the request was made, or fails, and       *)
(* set_directory has put the directory in force when it returns.  Modules, *)
(* workers and locks are not visible here.                                 *)
(*                                                                         *)
(* WorkerCache refines this module; FrontEnds is built on it.              *)
(***************************************************************************)
CONSTANTS
  Tasks,    \* who calls handle
  Setters,  \* who calls set_directory
  Dbs, Names, Dirs,
  None

ServiceKeys == Dbs \X Names

VARIABLES
  directories,  \* the directory of each database, or None
  job,          \* job[t]: the call of handle that t has made
  setter        \* setter[s]: the call of set_directory that s has made

serviceVars == <<directories, job, setter>>

(* dirs: the directories the database has had since the call was made;     *)
(* by: what serves the request, the worker of a key with a module of a     *)
(* directory.                                                              *)
NoJob == [key |-> None, dirs |-> {}, by |-> None]
NotSetting == [db |-> None, dir |-> None]

Call(t, k) ==
  /\ job[t] = NoJob
  /\ job' = [job EXCEPT ![t] = [key |-> k, dirs |-> {directories[k[1]]} \ {None}, by |-> None]]
  /\ UNCHANGED <<directories, setter>>

(* get_worker has found or made a worker: the guest may run.               *)
Serve(t) ==
  /\ job[t] # NoJob
  /\ job[t].by = None
  /\ \E dir \in job[t].dirs : job' = [job EXCEPT ![t].by = [key |-> job[t].key, dir |-> dir]]
  /\ UNCHANGED <<directories, setter>>

(* handle returns what the guest has answered, or its failure.             *)
Finish(t) ==
  /\ job[t].by # None
  /\ job' = [job EXCEPT ![t] = NoJob]
  /\ UNCHANGED <<directories, setter>>

(* There is no worker: no directory, no file, a guest that does not start. *)
Refuse(t) ==
  /\ job[t] # NoJob
  /\ job[t].by = None
  /\ job' = [job EXCEPT ![t] = NoJob]
  /\ UNCHANGED <<directories, setter>>

(* The new directory is in force before set_directory returns.             *)
Configure(s, db, dir) ==
  /\ setter[s] = NotSetting
  /\ setter' = [setter EXCEPT ![s] = [db |-> db, dir |-> dir]]
  /\ directories' = [directories EXCEPT ![db] = dir]
  /\ job' = [t \in Tasks |-> IF job[t] # NoJob /\ job[t].key[1] = db
                               THEN [job[t] EXCEPT !.dirs = @ \cup {dir}] ELSE job[t]]

Configured(s) ==
  /\ setter[s] # NotSetting
  /\ setter' = [setter EXCEPT ![s] = NotSetting]
  /\ UNCHANGED <<directories, job>>

ServiceInit ==
  /\ directories \in [Dbs -> Dirs \cup {None}]
  /\ job = [t \in Tasks |-> NoJob]
  /\ setter = [s \in Setters |-> NotSetting]

ServiceNext ==
  \/ \E t \in Tasks : \/ \E k \in ServiceKeys : Call(t, k)
                      \/ Serve(t) \/ Finish(t) \/ Refuse(t)
  \/ \E s \in Setters : \/ \E db \in Dbs, dir \in Dirs : Configure(s, db, dir)
                        \/ Configured(s)

ServiceSpec == ServiceInit /\ [][ServiceNext]_serviceVars
=============================================================================
