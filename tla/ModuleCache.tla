------------------------------- MODULE ModuleCache -------------------------------
(***************************************************************************)
(* The cache of compiled wasm modules: Tenant::_get_module and the map     *)
(* TenantInner::modules (server/src/tenant.rs).                            *)
(*                                                                         *)
(* The map takes a path to a shared once-cell; the cell, once initialised, *)
(* holds a weak reference to the module, which lives as long as a caller   *)
(* or a worker holds it.  An address c \in Cells stands for the Arc of a   *)
(* cell and for the module that cell was initialised with; it is free for  *)
(* reuse when nothing refers to either.                                    *)
(*                                                                         *)
(* One action is what a task does between two awaits: the Mutex around the *)
(* map is never held across one, so looking up or removing an entry is a   *)
(* single step, while opening, reading and re-checking the file are not.   *)
(***************************************************************************)
EXTENDS Naturals, FiniteSets

CONSTANTS
  Tasks, Paths, Cells, None, MaxVersion, Mtime,  \* as in ModuleLookup
  ModifiedCanFail  \* whether Metadata::modified() may fail on a cached module

Versions == 0 .. MaxVersion

ASSUME CacheAssumption ==
  /\ MaxVersion \in Nat
  /\ Mtime \in [Versions -> Nat]
  /\ \A v, w \in Versions : v <= w => Mtime[v] <= Mtime[w]
  /\ None \notin Cells \cup Paths \cup Tasks
  /\ ModifiedCanFail \in BOOLEAN

VARIABLES
  disk,     \* disk[p]: the last build installed at path p
  present,  \* the paths at which there is a file now
  keep,     \* the modules the rest of the server holds (the workers' modules)
  modules,  \* TenantInner::modules: the cell of each path, None when vacant
  cell,     \* cell[c]: its path, who initialises it, and its module once loaded
  loaded,   \* the cells that are initialised
  task      \* task[t]: where task t is in _get_module

vars == <<disk, present, keep, modules, cell, loaded, task>>

(* A cell: src is the build whose modification time the module records,    *)
(* ver the build its code was read from.                                   *)
CellState == [path : Paths \cup {None}, loader : Tasks \cup {None},
              src : Versions, ver : Versions]
EmptyCell(p) ==
  [path |-> p, loader |-> None, src |-> 0, ver |-> 0]

(* A call: stat is the build whose metadata was read before loading, since *)
(* (a history variable) the build on disk when the call was made.          *)
Loading == {"open", "read"}
Holding == {"check", "evict", "done"}
TaskState == [pc : {"idle", "lookup", "init"} \cup Loading \cup Holding,
              path : Paths \cup {None}, cell : Cells \cup {None},
              stat : Versions, since : Versions]
IdleTask == [pc |-> "idle", path |-> None, cell |-> None, stat |-> 0, since |-> 0]

TypeOK ==
  /\ disk \in [Paths -> Versions]
  /\ present \in SUBSET Paths
  /\ keep \in SUBSET Cells
  /\ modules \in [Paths -> Cells \cup {None}]
  /\ cell \in [Cells -> CellState]
  /\ loaded \in SUBSET Cells
  /\ task \in [Tasks -> TaskState]

-----------------------------------------------------------------------------
(* A strong reference to the module of c exists: Weak::upgrade succeeds.   *)
Alive(c) ==
  /\ c \in loaded
  /\ c \in keep \/ \E t \in Tasks : task[t].pc \in Holding /\ task[t].cell = c

(* Nothing refers to the cell at c or to its module.                       *)
Free(c) ==
  /\ \A p \in Paths : modules[p] # c
  /\ \A t \in Tasks : task[t].cell # c
  /\ c \notin keep

Goto(t, pc) == task' = [task EXCEPT ![t].pc = pc]
TakeCell(t, pc, c) == task' = [task EXCEPT ![t] = [@ EXCEPT !.pc = pc, !.cell = c]]
Restart(t) == TakeCell(t, "lookup", None)   \* `continue`: the loop drops its references
Return(t) == task' = [task EXCEPT ![t] = IdleTask]

-----------------------------------------------------------------------------
Init ==
  /\ disk = [p \in Paths |-> 0]
  /\ present \in SUBSET Paths
  /\ keep = {}
  /\ modules = [p \in Paths |-> None]
  /\ cell = [c \in Cells |-> EmptyCell(None)]
  /\ loaded = {}
  /\ task = [t \in Tasks |-> IdleTask]

Call(t, p) ==
  /\ task[t].pc = "idle"
  /\ task' = [task EXCEPT ![t] = [pc |-> "lookup", path |-> p, cell |-> None,
                                  stat |-> 0, since |-> disk[p]]]
  /\ UNCHANGED <<disk, present, keep, modules, cell, loaded>>

(* The entry is vacant, or its module is gone: put a new cell in the map.  *)
LookupMiss(t) ==
  LET p == task[t].path
      cur == modules[p]
  IN  /\ task[t].pc = "lookup"
      /\ cur # None => cur \in loaded /\ ~Alive(cur)
      /\ \E c \in Cells :
           /\ Free(c)
           /\ modules' = [modules EXCEPT ![p] = c]
           /\ cell' = [cell EXCEPT ![c] = EmptyCell(p)]
           /\ loaded' = loaded \ {c}
           /\ TakeCell(t, "init", c)
      /\ UNCHANGED <<disk, present, keep>>

(* The cell is there but not initialised: some load is, or will be, on.    *)
LookupJoin(t) ==
  LET cur == modules[task[t].path]
  IN  /\ task[t].pc = "lookup"
      /\ cur # None
      /\ cur \notin loaded
      /\ TakeCell(t, "init", cur)
      /\ UNCHANGED <<disk, present, keep, modules, cell, loaded>>

LookupHit(t) ==
  LET cur == modules[task[t].path]
  IN  /\ task[t].pc = "lookup"
      /\ cur # None
      /\ Alive(cur)
      /\ TakeCell(t, "check", cur)
      /\ UNCHANGED <<disk, present, keep, modules, cell, loaded>>

(* get_or_try_init: one task runs the initialiser, the others wait for it; *)
(* when it fails or is dropped one of the waiting tasks runs its own.      *)
InitStart(t) ==
  LET c == task[t].cell
  IN  /\ task[t].pc = "init"
      /\ c \notin loaded
      /\ cell[c].loader = None
      /\ cell' = [cell EXCEPT ![c].loader = t]
      /\ Goto(t, "open")
      /\ UNCHANGED <<disk, present, keep, modules, loaded>>

(* Another task initialised the cell: go on with its module, or start over *)
(* if it was dropped in the meantime.                                      *)
InitShared(t) ==
  LET c == task[t].cell
  IN  /\ task[t].pc = "init"
      /\ c \in loaded
      /\ IF Alive(c) THEN Goto(t, "check") ELSE Restart(t)
      /\ UNCHANGED <<disk, present, keep, modules, cell, loaded>>

(* File::open and File::metadata, on one handle.                           *)
LoadOpen(t) ==
  LET p == task[t].path
  IN  /\ task[t].pc = "open"
      /\ p \in present
      /\ task' = [task EXCEPT ![t] = [@ EXCEPT !.pc = "read", !.stat = disk[p]]]
      /\ UNCHANGED <<disk, present, keep, modules, cell, loaded>>

(* Mutation of LoadRead: the modification time is read after the file.     *)
LoadReadThenStat(t) ==
  LET c == task[t].cell
      p == task[t].path
  IN  /\ task[t].pc = "read"
      /\ \E v \in task[t].stat .. disk[p] :
           cell' = [cell EXCEPT ![c] =
                            [@ EXCEPT !.loader = None, !.src = disk[p], !.ver = v]]
      /\ loaded' = loaded \cup {c}
      /\ Goto(t, "done")
      /\ UNCHANGED <<disk, present, keep, modules>>

(* Read and compile.  A file replaced by renaming is read as it was opened,*)
(* one overwritten in place as it is now.  The task that loaded the module *)
(* returns it without a freshness check.                                   *)
LoadRead(t) ==
  LET c == task[t].cell
  IN  /\ task[t].pc = "read"
      /\ \E v \in task[t].stat .. disk[task[t].path] :
           cell' = [cell EXCEPT ![c] =
                            [@ EXCEPT !.loader = None, !.src = task[t].stat, !.ver = v]]
      /\ loaded' = loaded \cup {c}
      /\ Goto(t, "done")
      /\ UNCHANGED <<disk, present, keep, modules>>

(* Mutation of LoadFail: the cell stays marked as being initialised.       *)
LoadFailStuck(t) ==
  /\ task[t].pc \in Loading
  /\ Return(t)
  /\ UNCHANGED <<disk, present, keep, modules, cell, loaded>>

(* Any of opening, stat, reading and compiling fails: the error is returned*)
(* and the cell stays in the map, not initialised.                         *)
LoadFail(t) ==
  /\ task[t].pc \in Loading
  /\ cell' = [cell EXCEPT ![task[t].cell].loader = None]
  /\ Return(t)
  /\ UNCHANGED <<disk, present, keep, modules, loaded>>

(* Mutation of Check: `>=' for `>'.                                        *)
CheckNotNewer(t) ==
  LET p == task[t].path
      new == Mtime[disk[p]]
      known == Mtime[cell[task[t].cell].src]
  IN  /\ task[t].pc = "check"
      /\ p \in present
      /\ IF new >= known THEN Goto(t, "evict") ELSE Goto(t, "done")
      /\ UNCHANGED <<disk, present, keep, modules, cell, loaded>>

Check(t) ==
  LET p == task[t].path
      new == Mtime[disk[p]]
      known == Mtime[cell[task[t].cell].src]
  IN  /\ task[t].pc = "check"
      /\ p \in present
      /\ IF new > known THEN Goto(t, "evict") ELSE Goto(t, "done")
      /\ UNCHANGED <<disk, present, keep, modules, cell, loaded>>

(* Mutation of CheckFail: the cached module will do if the file is gone.   *)
CheckFailServes(t) ==
  /\ task[t].pc = "check"
  /\ Goto(t, "done")
  /\ UNCHANGED <<disk, present, keep, modules, cell, loaded>>

(* fs::metadata fails.                                                     *)
CheckFail(t) ==
  /\ task[t].pc = "check"
  /\ Return(t)
  /\ UNCHANGED <<disk, present, keep, modules, cell, loaded>>

(* fs::metadata succeeds and modified() fails: a warning is logged and the *)
(* loop goes round again.                                                  *)
CheckNoMtime(t) ==
  /\ ModifiedCanFail
  /\ task[t].pc = "check"
  /\ task[t].path \in present
  /\ Restart(t)
  /\ UNCHANGED <<disk, present, keep, modules, cell, loaded>>

(* Mutation of Evict: without Arc::ptr_eq.                                 *)
EvictWhatever(t) ==
  /\ task[t].pc = "evict"
  /\ modules' = [modules EXCEPT ![task[t].path] = None]
  /\ Restart(t)
  /\ UNCHANGED <<disk, present, keep, cell, loaded>>

(* Only the entry this task has looked at is removed.                      *)
Evict(t) ==
  LET p == task[t].path
  IN  /\ task[t].pc = "evict"
      /\ modules' = IF modules[p] = task[t].cell
                      THEN [modules EXCEPT ![p] = None] ELSE modules
      /\ Restart(t)
      /\ UNCHANGED <<disk, present, keep, cell, loaded>>

(* The future is dropped while it waits, as hyper does when the client of  *)
(* the test HTTP server hangs up; an initialiser is dropped with it.       *)
Cancel(t) ==
  /\ task[t].pc \notin {"idle", "done"}
  /\ cell' = [c \in Cells |-> IF cell[c].loader = t
                                THEN [cell[c] EXCEPT !.loader = None] ELSE cell[c]]
  /\ Return(t)
  /\ UNCHANGED <<disk, present, keep, modules, loaded>>

-----------------------------------------------------------------------------
(* The caller, Tenant::get_worker, drops the module it was given or builds *)
(* a worker from it; a worker that goes away drops its module.             *)
Release(t) ==
  /\ task[t].pc = "done"
  /\ Return(t)
  /\ UNCHANGED <<disk, present, keep, modules, cell, loaded>>

(* Mutation of Keep: the module kept is what the map has now.              *)
KeepFromMap(t) ==
  /\ task[t].pc = "done"
  /\ keep' = keep \cup {modules[task[t].path]}
  /\ Return(t)
  /\ UNCHANGED <<disk, present, modules, cell, loaded>>

Keep(t) ==
  /\ task[t].pc = "done"
  /\ keep' = keep \cup {task[t].cell}
  /\ Return(t)
  /\ UNCHANGED <<disk, present, modules, cell, loaded>>

Drop(c) ==
  /\ c \in keep
  /\ keep' = keep \ {c}
  /\ UNCHANGED <<disk, present, modules, cell, loaded, task>>

Install(p) ==
  /\ disk[p] < MaxVersion
  /\ disk' = [disk EXCEPT ![p] = @ + 1]
  /\ present' = present \cup {p}
  /\ UNCHANGED <<keep, modules, cell, loaded, task>>

Remove(p) ==
  /\ p \in present
  /\ present' = present \ {p}
  /\ UNCHANGED <<disk, keep, modules, cell, loaded, task>>

-----------------------------------------------------------------------------
(* The steps of a call that its executor keeps polling.                    *)
Step(t) ==
  \/ LookupMiss(t) \/ LookupJoin(t) \/ LookupHit(t)
  \/ InitStart(t) \/ InitShared(t)
  \/ LoadOpen(t) \/ LoadRead(t) \/ LoadFail(t)
  \/ Check(t) \/ CheckFail(t) \/ CheckNoMtime(t) \/ Evict(t)

Next ==
  \/ \E t \in Tasks : Step(t) \/ Cancel(t) \/ Release(t) \/ Keep(t)
  \/ \E t \in Tasks, p \in Paths : Call(t, p)
  \/ \E c \in Cells : Drop(c)
  \/ \E p \in Paths : Install(p) \/ Remove(p)

Spec == Init /\ [][Next]_vars

(* tokio polls every task that is ready; nothing forces callers, the file  *)
(* system's users or the other holders of modules to act.                  *)
FairSpec == Spec /\ \A t \in Tasks : WF_vars(Step(t))

-----------------------------------------------------------------------------
(* A returned module is at least as recent, by modification time, as the   *)
(* file was when the call was made: a wasm file replaced by one with a     *)
(* later modification time takes effect on the next request.  Two builds   *)
(* with one modification time are not told apart, as in the code.          *)
FreshModule ==
  \A t \in Tasks : task[t].pc = "done" =>
    /\ cell[task[t].cell].path = task[t].path
    /\ Mtime[task[t].since] <= Mtime[cell[task[t].cell].src]
    /\ cell[task[t].cell].src <= cell[task[t].cell].ver

(* A file is read and compiled by one task at a time, however many calls,  *)
(* failed loads, evictions and dropped futures there are.                  *)
SingleLoad ==
  \A t, u \in Tasks :
    /\ task[t].pc \in Loading
    /\ task[u].pc \in Loading
    /\ task[t].path = task[u].path
    => t = u

(* Two live modules of one path were loaded from files of different ages:  *)
(* a build is not compiled again while a worker still runs it.             *)
NoDuplicateModule ==
  \A c, d \in Cells :
    /\ Alive(c) /\ Alive(d) /\ c # d
    /\ cell[c].path = cell[d].path
    => Mtime[cell[c].src] # Mtime[cell[d].src]

-----------------------------------------------------------------------------
(* The calls that are made are answered, provided callers and files rest   *)
(* eventually: the loop in _get_module does not spin.                      *)
CallsQuiesce == <>[][\A t \in Tasks, p \in Paths : ~Call(t, p)]_vars
CallsAnswered ==
  CallsQuiesce => \A t \in Tasks :
    task[t].pc \notin {"idle", "done"} ~> task[t].pc \in {"idle", "done"}

-----------------------------------------------------------------------------
(* Every behaviour of the cache is one that ModuleLookup allows.           *)
Seen(c) ==
  IF Alive(c) THEN [path |-> cell[c].path, src |-> cell[c].src, ver |-> cell[c].ver]
  ELSE [path |-> None, src |-> 0, ver |-> 0]
CallOf(t) ==
  [status |-> CASE task[t].pc = "idle" -> "idle"
                [] task[t].pc = "done" -> "returned"
                [] OTHER -> "waiting",
   path   |-> task[t].path,
   since  |-> task[t].since,
   module |-> IF task[t].pc = "done" THEN task[t].cell ELSE None]

mods == [c \in Cells |-> Seen(c)]
calls == [t \in Tasks |-> CallOf(t)]

Lookup == INSTANCE ModuleLookup WITH mod <- mods, call <- calls

ImplementsLookup == Lookup!LookupSpec
=============================================================================
