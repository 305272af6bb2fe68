----------------------------- MODULE ModuleCache_proofs -----------------------------
(***************************************************************************)
(* Proofs about ModuleCache: for any number of tasks, paths, cells and     *)
(* builds, and any modification times that do not run backwards.           *)
(*                                                                         *)
(* IInv is inductive: one lemma per action says that the action preserves  *)
(* it.  The properties follow from IInv.                                   *)
(***************************************************************************)
EXTENDS ModuleCache, TLAPS

-----------------------------------------------------------------------------
(* The inductive invariant behind the three safety properties.             *)

(* A task refers to a path and a cell exactly where _get_module does; a    *)
(* cell in the map, or in the hands of a task, belongs to the right path;  *)
(* its initialiser is the task that says so.                               *)
CellsInPlace ==
  /\ \A t \in Tasks :
       /\ task[t].cell = None <=> task[t].pc \in {"idle", "lookup"}
       /\ task[t].path = None <=> task[t].pc = "idle"
  /\ \A p \in Paths : modules[p] # None => cell[modules[p]].path = p
  /\ \A t \in Tasks : task[t].cell # None => cell[task[t].cell].path = task[t].path
  /\ \A t \in Tasks, c \in Cells :
       cell[c].loader = t <=> task[t].pc \in Loading /\ task[t].cell = c
  /\ \A c \in Cells : c \in loaded => cell[c].loader = None /\ cell[c].path \in Paths
  /\ \A t \in Tasks : task[t].pc \in Holding => task[t].cell \in loaded
  /\ \A c \in keep : c \in loaded

(* A cell that tasks are still to initialise is never displaced from the   *)
(* map: only a loaded one is, by Evict or by LookupMiss.                   *)
PendingIsCurrent ==
  \A t \in Tasks : task[t].cell # None /\ task[t].cell \notin loaded
    => modules[task[t].path] = task[t].cell

(* What is known of builds lies between the call's start and the file now. *)
BuildsOrdered ==
  /\ \A c \in Cells : c \in loaded =>
       cell[c].src <= cell[c].ver /\ cell[c].ver <= disk[cell[c].path]
  /\ \A t \in Tasks : task[t].pc # "idle" => task[t].since <= disk[task[t].path]
  /\ \A t \in Tasks : task[t].pc = "read" =>
       task[t].since <= task[t].stat /\ task[t].stat <= disk[task[t].path]
  /\ \A t \in Tasks : task[t].pc = "evict" =>
       Mtime[cell[task[t].cell].src] < Mtime[disk[task[t].path]]
  /\ \A t \in Tasks : task[t].pc = "done" =>
       Mtime[task[t].since] <= Mtime[cell[task[t].cell].src]

(* A live module that is not in the map any more is older than the file,   *)
(* and than whatever is being loaded from it.                              *)
DisplacedIsOlder ==
  /\ \A c \in Cells : Alive(c) /\ modules[cell[c].path] # c =>
       Mtime[cell[c].src] < Mtime[disk[cell[c].path]]
  /\ \A c \in Cells, t \in Tasks :
       Alive(c) /\ task[t].pc = "read" /\ cell[c].path = task[t].path =>
         Mtime[cell[c].src] < Mtime[task[t].stat]

IInv ==
  /\ TypeOK
  /\ CellsInPlace
  /\ PendingIsCurrent
  /\ BuildsOrdered
  /\ DisplacedIsOlder
  /\ NoDuplicateModule

-----------------------------------------------------------------------------
(* What the helpers of the actions do to the record of a task.             *)

LEMMA GotoEffect ==
  ASSUME task \in [Tasks -> TaskState], NEW t \in Tasks,
         NEW pc \in Loading \cup Holding, Goto(t, pc)
  PROVE  /\ task' \in [Tasks -> TaskState]
         /\ task'[t].pc = pc
         /\ task'[t].path = task[t].path
         /\ task'[t].cell = task[t].cell
         /\ task'[t].stat = task[t].stat
         /\ task'[t].since = task[t].since
         /\ \A u \in Tasks : u # t => task'[u] = task[u]
BY DEF Goto, TaskState

LEMMA TakeCellEffect ==
  ASSUME task \in [Tasks -> TaskState], NEW t \in Tasks,
         NEW pc \in {"lookup", "init", "check"},
         NEW c \in Cells \cup {None}, TakeCell(t, pc, c)
  PROVE  /\ task' \in [Tasks -> TaskState]
         /\ task'[t].pc = pc
         /\ task'[t].path = task[t].path
         /\ task'[t].cell = c
         /\ task'[t].stat = task[t].stat
         /\ task'[t].since = task[t].since
         /\ \A u \in Tasks : u # t => task'[u] = task[u]
BY DEF TakeCell, TaskState, Holding

LEMMA ReturnEffect ==
  ASSUME task \in [Tasks -> TaskState], NEW t \in Tasks, Return(t)
  PROVE  /\ task' \in [Tasks -> TaskState]
         /\ task'[t] = IdleTask
         /\ \A u \in Tasks : u # t => task'[u] = task[u]
BY CacheAssumption DEF Return, TaskState, IdleTask, Versions

(* Modification times are numbers and do not run backwards.                *)
LEMMA MtimeMonotone ==
  /\ \A v \in Versions : v \in Nat /\ Mtime[v] \in Nat
  /\ \A v, w \in Versions : v <= w => Mtime[v] <= Mtime[w]
BY CacheAssumption DEF CacheAssumption, Versions

-----------------------------------------------------------------------------
(* A step that keeps the cells, and what tasks know, and brings no module  *)
(* to life, preserves what is said of ages.                                *)
LEMMA QuietStep ==
  ASSUME IInv, TypeOK', CellsInPlace',
         UNCHANGED <<disk, modules, loaded>>,
         \A c \in Cells : /\ cell'[c].path = cell[c].path
                          /\ cell'[c].src = cell[c].src
                          /\ cell'[c].ver = cell[c].ver,
         \A c \in Cells : Alive(c)' => Alive(c),
         \A t \in Tasks : task'[t].pc = "read" => task'[t] = task[t]
  PROVE  /\ DisplacedIsOlder'
         /\ NoDuplicateModule'
<1>1. DisplacedIsOlder'
  <2>1. ASSUME NEW c \in Cells, Alive(c)', modules'[cell'[c].path] # c
        PROVE  Mtime[cell'[c].src] < Mtime[disk'[cell'[c].path]]
    BY <2>1 DEF IInv, DisplacedIsOlder
  <2>2. ASSUME NEW c \in Cells, NEW t \in Tasks,
               Alive(c)', task'[t].pc = "read", cell'[c].path = task'[t].path
        PROVE  Mtime[cell'[c].src] < Mtime[task'[t].stat]
    BY <2>2 DEF IInv, DisplacedIsOlder
  <2> QED
    BY <2>1, <2>2 DEF DisplacedIsOlder
<1>2. NoDuplicateModule'
  BY DEF IInv, NoDuplicateModule
<1> QED
  BY <1>1, <1>2

-----------------------------------------------------------------------------
(* A task moves on inside _get_module without touching the cells.          *)
LEMMA MoveStep ==
  ASSUME IInv, NEW t \in Tasks,
         task[t].pc \notin {"idle", "open", "read"},
         UNCHANGED <<disk, present, keep, modules, cell, loaded>>,
         task' \in [Tasks -> TaskState],
         \A u \in Tasks : u # t => task'[u] = task[u],
         task'[t].path = task[t].path,
         task'[t].since = task[t].since,
         task'[t].pc \notin {"idle", "open", "read"},
         task'[t].cell = None <=> task'[t].pc = "lookup",
         task'[t].cell # None =>
           /\ cell[task'[t].cell].path = task[t].path
           /\ task'[t].cell \notin loaded => modules[task[t].path] = task'[t].cell,
         task'[t].pc \in Holding => Alive(task'[t].cell),
         task'[t].pc = "evict" =>
           Mtime[cell[task'[t].cell].src] < Mtime[disk[task[t].path]],
         task'[t].pc = "done" =>
           Mtime[task[t].since] <= Mtime[cell[task'[t].cell].src]
  PROVE  IInv'
<1>1. TypeOK'
  BY DEF IInv, TypeOK
<1>2. CellsInPlace'
  <2>1. \A u \in Tasks : task'[u].pc \in Loading <=> task[u].pc \in Loading /\ u # t
    BY DEF Loading
  <2>2. \A u \in Tasks :
          /\ task'[u].cell = None <=> task'[u].pc \in {"idle", "lookup"}
          /\ task'[u].path = None <=> task'[u].pc = "idle"
    BY DEF IInv, CellsInPlace
  <2>3. \A u \in Tasks, c \in Cells :
          cell[c].loader = u <=> task'[u].pc \in Loading /\ task'[u].cell = c
    BY <2>1 DEF IInv, CellsInPlace, Loading
  <2>4. \A u \in Tasks : task'[u].cell # None => cell[task'[u].cell].path = task'[u].path
    BY DEF IInv, CellsInPlace
  <2>5. \A u \in Tasks : task'[u].pc \in Holding => task'[u].cell \in loaded
    BY DEF IInv, CellsInPlace, Alive
  <2> QED
    BY <2>2, <2>3, <2>4, <2>5 DEF IInv, CellsInPlace
<1>3. PendingIsCurrent'
  BY DEF IInv, PendingIsCurrent
<1>4. BuildsOrdered'
  <2>1. \A u \in Tasks : task'[u].pc # "idle" => task'[u].since <= disk[task'[u].path]
    BY DEF IInv, BuildsOrdered
  <2>2. \A u \in Tasks : task'[u].pc = "read" =>
          task'[u].since <= task'[u].stat /\ task'[u].stat <= disk[task'[u].path]
    BY DEF IInv, BuildsOrdered
  <2>3. \A u \in Tasks : task'[u].pc = "evict" =>
          Mtime[cell[task'[u].cell].src] < Mtime[disk[task'[u].path]]
    BY DEF IInv, BuildsOrdered
  <2>4. \A u \in Tasks : task'[u].pc = "done" =>
          Mtime[task'[u].since] <= Mtime[cell[task'[u].cell].src]
    BY DEF IInv, BuildsOrdered
  <2> QED
    BY <2>1, <2>2, <2>3, <2>4 DEF IInv, BuildsOrdered
<1>5. \A c \in Cells : Alive(c)' => Alive(c)
  BY DEF Alive
<1>6. \A u \in Tasks : task'[u].pc = "read" => task'[u] = task[u]
  OBVIOUS
<1>7. DisplacedIsOlder' /\ NoDuplicateModule'
  BY <1>1, <1>2, <1>5, <1>6, QuietStep
<1> QED
  BY <1>1, <1>2, <1>3, <1>4, <1>7 DEF IInv

(* A call ends, in a return or because its future is dropped; if it was    *)
(* initialising a cell, it leaves the cell without an initialiser, and if  *)
(* it had its module, the caller may keep that.                            *)
LEMMA ReturnStep ==
  ASSUME IInv, NEW t \in Tasks, Return(t),
         UNCHANGED <<disk, present, modules, loaded>>,
         keep' \in SUBSET Cells,
         \A c \in keep' : c \notin keep => task[t].pc = "done" /\ c = task[t].cell,
         cell' \in [Cells -> CellState],
         \A c \in Cells : /\ cell'[c].path = cell[c].path
                          /\ cell'[c].src = cell[c].src
                          /\ cell'[c].ver = cell[c].ver
                          /\ cell'[c].loader = IF cell[c].loader = t THEN None
                                                ELSE cell[c].loader
  PROVE  IInv'
<1>0. /\ task' \in [Tasks -> TaskState]
      /\ task'[t] = IdleTask
      /\ \A u \in Tasks : u # t => task'[u] = task[u]
  BY ReturnEffect DEF IInv, TypeOK
<1>1. TypeOK'
  BY <1>0 DEF IInv, TypeOK
<1>2. CellsInPlace'
  <2>1. \A u \in Tasks :
          /\ task'[u].cell = None <=> task'[u].pc \in {"idle", "lookup"}
          /\ task'[u].path = None <=> task'[u].pc = "idle"
    BY <1>0 DEF IInv, CellsInPlace, IdleTask
  <2>2. \A p \in Paths : modules[p] # None => cell'[modules[p]].path = p
    BY DEF IInv, CellsInPlace, TypeOK
  <2>3. \A u \in Tasks : task'[u].cell # None => cell'[task'[u].cell].path = task'[u].path
    BY <1>0 DEF IInv, CellsInPlace, TypeOK, TaskState, IdleTask
  <2>4. \A u \in Tasks, c \in Cells :
          cell'[c].loader = u <=> task'[u].pc \in Loading /\ task'[u].cell = c
    BY <1>0, CacheAssumption DEF IInv, CellsInPlace, IdleTask, Loading, CacheAssumption
  <2>5. \A c \in loaded : cell'[c].loader = None /\ cell'[c].path \in Paths
    BY DEF IInv, CellsInPlace, TypeOK
  <2>6. \A u \in Tasks : task'[u].pc \in Holding => task'[u].cell \in loaded
    BY <1>0 DEF IInv, CellsInPlace, Holding, IdleTask
  <2>7. \A c \in keep' : c \in loaded
    BY DEF IInv, CellsInPlace, Holding
  <2> QED
    BY <2>1, <2>2, <2>3, <2>4, <2>5, <2>6, <2>7 DEF CellsInPlace
<1>3. PendingIsCurrent'
  BY <1>0 DEF IInv, PendingIsCurrent, IdleTask
<1>4. BuildsOrdered'
  <2>1. \A c \in loaded : cell'[c].src <= cell'[c].ver /\ cell'[c].ver <= disk[cell'[c].path]
    BY DEF IInv, BuildsOrdered, TypeOK
  <2>2. \A u \in Tasks : task'[u].pc # "idle" => u # t
    BY <1>0 DEF IdleTask
  <2>3. \A u \in Tasks : task'[u].pc \in {"evict", "done"} =>
          cell'[task'[u].cell].src = cell[task[u].cell].src
    BY <1>0, <2>2 DEF IInv, CellsInPlace, TypeOK, TaskState
  <2> QED
    BY <1>0, <2>1, <2>2, <2>3 DEF IInv, BuildsOrdered
<1>5. \A c \in Cells : Alive(c)' => Alive(c)
  BY <1>0 DEF Alive, IdleTask, Holding
<1>6. \A u \in Tasks : task'[u].pc = "read" => task'[u] = task[u]
  BY <1>0 DEF IdleTask
<1>7. DisplacedIsOlder' /\ NoDuplicateModule'
  BY <1>1, <1>2, <1>5, <1>6, QuietStep
<1> QED
  BY <1>1, <1>2, <1>3, <1>4, <1>7 DEF IInv

-----------------------------------------------------------------------------
(* One lemma per action that is not an instance of the two above.          *)
LEMMA CallStep ==
  ASSUME IInv, NEW t \in Tasks, NEW p \in Paths, Call(t, p)
  PROVE  IInv'
<1>0. /\ task[t].pc = "idle"
      /\ task' \in [Tasks -> TaskState]
      /\ task'[t] = [pc |-> "lookup", path |-> p, cell |-> None,
                      stat |-> 0, since |-> disk[p]]
      /\ \A u \in Tasks : u # t => task'[u] = task[u]
      /\ UNCHANGED <<disk, present, keep, modules, cell, loaded>>
  BY CacheAssumption DEF Call, IInv, TypeOK, TaskState, Versions, CacheAssumption
<1>1. TypeOK'
  BY <1>0 DEF IInv, TypeOK
<1>2. CellsInPlace'
  <2>1. \A u \in Tasks, c \in Cells :
          cell[c].loader = u <=> task'[u].pc \in Loading /\ task'[u].cell = c
    BY <1>0 DEF IInv, CellsInPlace, Loading
  <2>2. \A u \in Tasks :
          /\ task'[u].cell = None <=> task'[u].pc \in {"idle", "lookup"}
          /\ task'[u].path = None <=> task'[u].pc = "idle"
    BY <1>0, CacheAssumption DEF IInv, CellsInPlace, CacheAssumption
  <2> QED
    BY <1>0, <2>1, <2>2 DEF IInv, CellsInPlace, Holding
<1>3. PendingIsCurrent'
  BY <1>0 DEF IInv, PendingIsCurrent
<1>4. BuildsOrdered'
  BY <1>0, MtimeMonotone DEF IInv, BuildsOrdered, TypeOK
<1>5. \A c \in Cells : Alive(c)' => Alive(c)
  BY <1>0 DEF Alive, Holding
<1>6. \A u \in Tasks : task'[u].pc = "read" => task'[u] = task[u]
  BY <1>0
<1>7. DisplacedIsOlder' /\ NoDuplicateModule'
  BY <1>0, <1>1, <1>2, <1>5, <1>6, QuietStep
<1> QED
  BY <1>1, <1>2, <1>3, <1>4, <1>7 DEF IInv

LEMMA LookupMissStep ==
  ASSUME IInv, NEW t \in Tasks, LookupMiss(t)
  PROVE  IInv'
<1> DEFINE p == task[t].path
           cur == modules[p]
<1>a. /\ task[t].pc = "lookup"
      /\ cur # None => cur \in loaded /\ ~Alive(cur)
      /\ UNCHANGED <<disk, present, keep>>
  BY DEF LookupMiss
<1>b. PICK c \in Cells : /\ Free(c)
                         /\ modules' = [modules EXCEPT ![p] = c]
                         /\ cell' = [cell EXCEPT ![c] = EmptyCell(p)]
                         /\ loaded' = loaded \ {c}
                         /\ TakeCell(t, "init", c)
  BY DEF LookupMiss
<1>c. p \in Paths
  BY <1>a DEF IInv, CellsInPlace, TypeOK, TaskState
<1>d. /\ task' \in [Tasks -> TaskState]
      /\ task'[t].pc = "init"
      /\ task'[t].path = p
      /\ task'[t].cell = c
      /\ task'[t].since = task[t].since
      /\ \A u \in Tasks : u # t => task'[u] = task[u]
  BY <1>b, TakeCellEffect DEF IInv, TypeOK
<1>e. /\ cell'[c] = EmptyCell(p)
      /\ \A d \in Cells : d # c => cell'[d] = cell[d]
      /\ modules'[p] = c
      /\ \A q \in Paths : q # p => modules'[q] = modules[q]
  BY <1>b, <1>c DEF IInv, TypeOK
<1>f. /\ \A q \in Paths : modules[q] # c
      /\ \A u \in Tasks : task[u].cell # c
      /\ c \notin keep
  BY <1>b DEF Free
<1>1. TypeOK'
  <2>1. cell' \in [Cells -> CellState]
    BY <1>b, <1>c, CacheAssumption
       DEF IInv, TypeOK, CellState, EmptyCell, Versions, CacheAssumption
  <2>2. modules' \in [Paths -> Cells \cup {None}]
    BY <1>b DEF IInv, TypeOK
  <2> QED
    BY <1>a, <1>b, <1>d, <2>1, <2>2 DEF IInv, TypeOK
<1>2. CellsInPlace'
  <2>1. \A u \in Tasks :
          /\ task'[u].cell = None <=> task'[u].pc \in {"idle", "lookup"}
          /\ task'[u].path = None <=> task'[u].pc = "idle"
    BY <1>a, <1>c, <1>d, CacheAssumption DEF IInv, CellsInPlace, CacheAssumption
  <2>2. \A q \in Paths : modules'[q] # None => cell'[modules'[q]].path = q
    BY <1>e, <1>f DEF IInv, CellsInPlace, TypeOK, EmptyCell
  <2>3. \A u \in Tasks : task'[u].cell # None => cell'[task'[u].cell].path = task'[u].path
    BY <1>d, <1>e, <1>f DEF IInv, CellsInPlace, TypeOK, TaskState, EmptyCell
  <2>4. \A u \in Tasks, d \in Cells :
          cell'[d].loader = u <=> task'[u].pc \in Loading /\ task'[u].cell = d
    <3>1. \A u \in Tasks : task'[u].pc \in Loading /\ task'[u].cell = c => FALSE
      BY <1>d, <1>f DEF Loading
    <3>2. \A u \in Tasks : cell'[c].loader # u
      BY <1>e, CacheAssumption DEF EmptyCell, CacheAssumption
    <3>3. \A u \in Tasks : task'[u].pc \in Loading <=> task[u].pc \in Loading
      BY <1>a, <1>d DEF Loading
    <3>4. \A u \in Tasks : task'[u].pc \in Loading => task'[u].cell = task[u].cell
      BY <1>d DEF Loading
    <3> QED
      BY <1>e, <3>1, <3>2, <3>3, <3>4 DEF IInv, CellsInPlace
  <2>5. \A d \in Cells : d \in loaded' => cell'[d].loader = None /\ cell'[d].path \in Paths
    BY <1>b, <1>e DEF IInv, CellsInPlace
  <2>6. \A u \in Tasks : task'[u].pc \in Holding => task'[u].cell \in loaded'
    BY <1>b, <1>d, <1>f DEF IInv, CellsInPlace, Holding
  <2>7. \A d \in keep' : d \in loaded'
    BY <1>a, <1>b, <1>f DEF IInv, CellsInPlace
  <2> QED
    BY <2>1, <2>2, <2>3, <2>4, <2>5, <2>6, <2>7 DEF CellsInPlace
<1>3. PendingIsCurrent'
  <2> SUFFICES ASSUME NEW u \in Tasks, task'[u].cell # None, task'[u].cell \notin loaded'
               PROVE  modules'[task'[u].path] = task'[u].cell
    BY DEF PendingIsCurrent
  <2>1. CASE u = t
    BY <2>1, <1>d, <1>e
  <2>2. CASE u # t
    <3>1. task[u].cell # None /\ task[u].cell \notin loaded
      BY <2>2, <1>b, <1>d, <1>f
    <3>2. modules[task[u].path] = task[u].cell
      BY <3>1 DEF IInv, PendingIsCurrent
    <3>3. task[u].path # p
      BY <3>1, <3>2, <1>a
    <3>4. task[u].path \in Paths
      BY <3>1 DEF IInv, CellsInPlace, TypeOK, TaskState
    <3> QED
      BY <2>2, <3>2, <3>3, <3>4, <1>d, <1>e
  <2> QED
    BY <2>1, <2>2
<1>4. BuildsOrdered'
  <2>1. \A d \in loaded' : cell'[d] = cell[d] /\ d \in loaded
    BY <1>b, <1>e DEF IInv, TypeOK
  <2>2. \A u \in Tasks : task'[u].pc \in {"read", "evict", "done"} =>
          u # t /\ cell'[task'[u].cell] = cell[task[u].cell]
    BY <1>d, <1>e, <1>f DEF IInv, CellsInPlace, TypeOK, TaskState
  <2>3. \A u \in Tasks : task'[u].pc # "idle" =>
          /\ task[u].pc # "idle"
          /\ task'[u].since = task[u].since
          /\ task'[u].path = task[u].path
    BY <1>a, <1>d
  <2> QED
    BY <1>a, <1>d, <2>1, <2>2, <2>3 DEF IInv, BuildsOrdered
<1>5. \A d \in Cells : Alive(d)' => Alive(d) /\ d # c /\ cell'[d] = cell[d]
  BY <1>a, <1>b, <1>d, <1>e DEF Alive, Holding
<1>6. DisplacedIsOlder'
  <2>1. ASSUME NEW d \in Cells, Alive(d)', modules'[cell'[d].path] # d
        PROVE  Mtime[cell'[d].src] < Mtime[disk'[cell'[d].path]]
    <3>1. Alive(d) /\ cell'[d] = cell[d]
      BY <2>1, <1>5
    <3>2. cell[d].path \in Paths
      BY <3>1 DEF IInv, CellsInPlace, Alive
    <3>3. CASE cell[d].path = p
      <4>1. cur # d
        BY <3>1, <1>a, CacheAssumption DEF CacheAssumption
      <4> QED
        BY <3>1, <3>3, <4>1, <1>a DEF IInv, DisplacedIsOlder
    <3>4. CASE cell[d].path # p
      BY <2>1, <3>1, <3>2, <3>4, <1>a, <1>e DEF IInv, DisplacedIsOlder
    <3> QED
      BY <3>3, <3>4
  <2>2. ASSUME NEW d \in Cells, NEW u \in Tasks,
               Alive(d)', task'[u].pc = "read", cell'[d].path = task'[u].path
        PROVE  Mtime[cell'[d].src] < Mtime[task'[u].stat]
    BY <2>2, <1>5, <1>d DEF IInv, DisplacedIsOlder
  <2> QED
    BY <2>1, <2>2 DEF DisplacedIsOlder
<1>7. NoDuplicateModule'
  BY <1>5 DEF IInv, NoDuplicateModule
<1> QED
  BY <1>1, <1>2, <1>3, <1>4, <1>6, <1>7 DEF IInv

LEMMA InitStartStep ==
  ASSUME IInv, NEW t \in Tasks, InitStart(t)
  PROVE  IInv'
<1> DEFINE c == task[t].cell
<1>a. /\ task[t].pc = "init"
      /\ c \notin loaded
      /\ cell[c].loader = None
      /\ cell' = [cell EXCEPT ![c].loader = t]
      /\ Goto(t, "open")
      /\ UNCHANGED <<disk, present, keep, modules, loaded>>
  BY DEF InitStart
<1>b. c \in Cells
  BY <1>a DEF IInv, CellsInPlace, TypeOK, TaskState
<1>c. /\ task' \in [Tasks -> TaskState]
      /\ task'[t].pc = "open"
      /\ task'[t].path = task[t].path
      /\ task'[t].cell = c
      /\ task'[t].since = task[t].since
      /\ \A u \in Tasks : u # t => task'[u] = task[u]
  BY <1>a, GotoEffect DEF IInv, TypeOK, Loading
<1>d. /\ cell' \in [Cells -> CellState]
      /\ cell'[c].loader = t
      /\ \A d \in Cells : d # c => cell'[d] = cell[d]
      /\ \A d \in Cells : /\ cell'[d].path = cell[d].path
                         /\ cell'[d].src = cell[d].src
                         /\ cell'[d].ver = cell[d].ver
  BY <1>a, <1>b DEF IInv, TypeOK, CellState
<1>1. TypeOK'
  BY <1>a, <1>c, <1>d DEF IInv, TypeOK
<1>2. CellsInPlace'
  <2>1. \A u \in Tasks :
          /\ task'[u].cell = None <=> task'[u].pc \in {"idle", "lookup"}
          /\ task'[u].path = None <=> task'[u].pc = "idle"
    BY <1>a, <1>c DEF IInv, CellsInPlace
  <2>2. \A p \in Paths : modules'[p] # None => cell'[modules'[p]].path = p
    BY <1>a, <1>d DEF IInv, CellsInPlace, TypeOK
  <2>3. \A u \in Tasks : task'[u].cell # None => cell'[task'[u].cell].path = task'[u].path
    BY <1>c, <1>d DEF IInv, CellsInPlace, TypeOK, TaskState
  <2>4. \A u \in Tasks, d \in Cells :
          cell'[d].loader = u <=> task'[u].pc \in Loading /\ task'[u].cell = d
    <3>1. \A u \in Tasks : ~(task[u].pc \in Loading /\ task[u].cell = c)
      BY <1>a, <1>b, CacheAssumption DEF IInv, CellsInPlace, CacheAssumption
    <3> QED
      BY <1>a, <1>c, <1>d, <3>1 DEF IInv, CellsInPlace, Loading
  <2>5. \A d \in loaded : cell'[d].loader = None /\ cell'[d].path \in Paths
    BY <1>a, <1>d DEF IInv, CellsInPlace, TypeOK
  <2>6. \A u \in Tasks : task'[u].pc \in Holding => task'[u].cell \in loaded'
    BY <1>a, <1>c DEF IInv, CellsInPlace, Holding
  <2> QED
    BY <1>a, <2>1, <2>2, <2>3, <2>4, <2>5, <2>6 DEF IInv, CellsInPlace
<1>3. PendingIsCurrent'
  BY <1>a, <1>c DEF IInv, PendingIsCurrent
<1>4. BuildsOrdered'
  <2>1. \A d \in loaded : cell'[d] = cell[d]
    BY <1>a, <1>d DEF IInv, TypeOK
  <2>2. \A u \in Tasks : task'[u].pc \in {"read", "evict", "done"} =>
          u # t /\ cell'[task'[u].cell].src = cell[task[u].cell].src
    BY <1>c, <1>d DEF IInv, CellsInPlace, TypeOK, TaskState
  <2>3. \A u \in Tasks : task'[u].pc # "idle" =>
          /\ task[u].pc # "idle"
          /\ task'[u].since = task[u].since
          /\ task'[u].path = task[u].path
    BY <1>a, <1>c
  <2> QED
    BY <1>a, <1>c, <2>1, <2>2, <2>3 DEF IInv, BuildsOrdered
<1>5. \A d \in Cells : Alive(d)' => Alive(d)
  BY <1>a, <1>c DEF Alive, Holding
<1>6. \A u \in Tasks : task'[u].pc = "read" => task'[u] = task[u]
  BY <1>c
<1>7. DisplacedIsOlder' /\ NoDuplicateModule'
  BY <1>1, <1>2, <1>5, <1>6, <1>a, <1>d, QuietStep
<1> QED
  BY <1>1, <1>2, <1>3, <1>4, <1>7 DEF IInv

LEMMA LoadOpenStep ==
  ASSUME IInv, NEW t \in Tasks, LoadOpen(t)
  PROVE  IInv'
<1> DEFINE p == task[t].path
           c == task[t].cell
<1>a. /\ task[t].pc = "open"
      /\ task' = [task EXCEPT ![t] = [@ EXCEPT !.pc = "read", !.stat = disk[p]]]
      /\ UNCHANGED <<disk, present, keep, modules, cell, loaded>>
  BY DEF LoadOpen
<1>b. p \in Paths /\ c \in Cells /\ disk[p] \in Versions
  BY <1>a DEF IInv, CellsInPlace, TypeOK, TaskState
<1>c. /\ task' \in [Tasks -> TaskState]
      /\ task'[t].pc = "read"
      /\ task'[t].path = p
      /\ task'[t].cell = c
      /\ task'[t].stat = disk[p]
      /\ task'[t].since = task[t].since
      /\ \A u \in Tasks : u # t => task'[u] = task[u]
  BY <1>a, <1>b DEF IInv, TypeOK, TaskState, Loading
<1>1. TypeOK'
  BY <1>a, <1>c DEF IInv, TypeOK
<1>2. CellsInPlace'
  <2>1. \A u \in Tasks :
          /\ task'[u].cell = None <=> task'[u].pc \in {"idle", "lookup"}
          /\ task'[u].path = None <=> task'[u].pc = "idle"
    BY <1>a, <1>c DEF IInv, CellsInPlace
  <2>2. \A u \in Tasks, d \in Cells :
          cell'[d].loader = u <=> task'[u].pc \in Loading /\ task'[u].cell = d
    BY <1>a, <1>c DEF IInv, CellsInPlace, Loading
  <2> QED
    BY <1>a, <1>c, <2>1, <2>2 DEF IInv, CellsInPlace, Holding
<1>3. PendingIsCurrent'
  BY <1>a, <1>c DEF IInv, PendingIsCurrent
<1>4. BuildsOrdered'
  BY <1>a, <1>b, <1>c, MtimeMonotone DEF IInv, BuildsOrdered
<1>5. \A d \in Cells : Alive(d)' => Alive(d)
  BY <1>a, <1>c DEF Alive, Holding
<1>6. DisplacedIsOlder'
  <2>1. ASSUME NEW d \in Cells, Alive(d), cell[d].path = p
        PROVE  Mtime[cell[d].src] < Mtime[disk[p]]
    <3>1. c \notin loaded
      BY <1>a, <1>b, CacheAssumption DEF IInv, CellsInPlace, Loading, CacheAssumption
    <3>2. modules[p] = c /\ d # c
      BY <2>1, <3>1, <1>b, CacheAssumption DEF IInv, PendingIsCurrent, Alive, CacheAssumption
    <3> QED
      BY <2>1, <3>2 DEF IInv, DisplacedIsOlder
  <2>2. ASSUME NEW d \in Cells, NEW u \in Tasks,
               Alive(d)', task'[u].pc = "read", cell'[d].path = task'[u].path
        PROVE  Mtime[cell'[d].src] < Mtime[task'[u].stat]
    BY <2>1, <2>2, <1>5, <1>a, <1>c DEF IInv, DisplacedIsOlder
  <2>3. ASSUME NEW d \in Cells, Alive(d)', modules'[cell'[d].path] # d
        PROVE  Mtime[cell'[d].src] < Mtime[disk'[cell'[d].path]]
    BY <2>3, <1>5, <1>a DEF IInv, DisplacedIsOlder
  <2> QED
    BY <2>2, <2>3 DEF DisplacedIsOlder
<1>7. NoDuplicateModule'
  BY <1>5, <1>a DEF IInv, NoDuplicateModule
<1> QED
  BY <1>1, <1>2, <1>3, <1>4, <1>6, <1>7 DEF IInv

LEMMA LoadReadStep ==
  ASSUME IInv, NEW t \in Tasks, LoadRead(t)
  PROVE  IInv'
<1> DEFINE p == task[t].path
           c == task[t].cell
<1>a. /\ task[t].pc = "read"
      /\ loaded' = loaded \cup {c}
      /\ Goto(t, "done")
      /\ UNCHANGED <<disk, present, keep, modules>>
  BY DEF LoadRead
<1>b. PICK v \in task[t].stat .. disk[p] :
        cell' = [cell EXCEPT ![c] = [@ EXCEPT !.loader = None, !.src = task[t].stat, !.ver = v]]
  BY DEF LoadRead
<1>c. /\ p \in Paths
      /\ c \in Cells
      /\ disk[p] \in Versions
      /\ task[t].stat \in Versions
      /\ task[t].since \in Versions
      /\ cell[c].path = p
      /\ cell[c].loader = t
      /\ c \notin loaded
      /\ modules[p] = c
      /\ task[t].since <= task[t].stat
  BY <1>a, CacheAssumption
     DEF IInv, CellsInPlace, PendingIsCurrent, BuildsOrdered, TypeOK, TaskState, Loading, CacheAssumption
<1>d. v \in Versions /\ task[t].stat <= v /\ v <= disk[p]
  BY <1>b, <1>c, CacheAssumption DEF Versions, CacheAssumption
<1>e. /\ task' \in [Tasks -> TaskState]
      /\ task'[t].pc = "done"
      /\ task'[t].path = p
      /\ task'[t].cell = c
      /\ task'[t].since = task[t].since
      /\ \A u \in Tasks : u # t => task'[u] = task[u]
  BY <1>a, GotoEffect DEF IInv, TypeOK, Holding
<1>f. /\ cell' \in [Cells -> CellState]
      /\ cell'[c].path = p
      /\ cell'[c].loader = None
      /\ cell'[c].src = task[t].stat
      /\ cell'[c].ver = v
      /\ \A d \in Cells : d # c => cell'[d] = cell[d]
  BY <1>b, <1>c, <1>d DEF IInv, TypeOK, CellState
<1>1. TypeOK'
  BY <1>a, <1>c, <1>e, <1>f DEF IInv, TypeOK
<1>2. CellsInPlace'
  <2>1. \A u \in Tasks :
          /\ task'[u].cell = None <=> task'[u].pc \in {"idle", "lookup"}
          /\ task'[u].path = None <=> task'[u].pc = "idle"
    BY <1>a, <1>e DEF IInv, CellsInPlace
  <2>2. \A q \in Paths : modules'[q] # None => cell'[modules'[q]].path = q
    BY <1>a, <1>c, <1>f DEF IInv, CellsInPlace, TypeOK
  <2>3. \A u \in Tasks : task'[u].cell # None => cell'[task'[u].cell].path = task'[u].path
    BY <1>c, <1>e, <1>f DEF IInv, CellsInPlace, TypeOK, TaskState
  <2>4. \A u \in Tasks, d \in Cells :
          cell'[d].loader = u <=> task'[u].pc \in Loading /\ task'[u].cell = d
    <3>1. \A u \in Tasks : u # t => ~(task[u].pc \in Loading /\ task[u].cell = c)
      BY <1>c DEF IInv, CellsInPlace
    <3>2. \A u \in Tasks : cell'[c].loader # u
      BY <1>f, CacheAssumption DEF CacheAssumption
    <3>3. task'[t].pc \notin Loading
      BY <1>e DEF Loading
    <3>4. \A d \in Cells : d # c => cell[d].loader # t
      BY <1>c DEF IInv, CellsInPlace
    <3> QED
      BY <1>e, <1>f, <3>1, <3>2, <3>3, <3>4 DEF IInv, CellsInPlace
  <2>5. \A d \in Cells : d \in loaded' => cell'[d].loader = None /\ cell'[d].path \in Paths
    BY <1>a, <1>c, <1>f DEF IInv, CellsInPlace
  <2>6. \A u \in Tasks : task'[u].pc \in Holding => task'[u].cell \in loaded'
    BY <1>a, <1>e DEF IInv, CellsInPlace
  <2> QED
    BY <1>a, <2>1, <2>2, <2>3, <2>4, <2>5, <2>6 DEF IInv, CellsInPlace
<1>3. PendingIsCurrent'
  BY <1>a, <1>e DEF IInv, PendingIsCurrent
<1>4. BuildsOrdered'
  <2>1. \A d \in Cells : d \in loaded' =>
          cell'[d].src <= cell'[d].ver /\ cell'[d].ver <= disk'[cell'[d].path]
    BY <1>a, <1>d, <1>f DEF IInv, BuildsOrdered
  <2>2. \A u \in Tasks : u # t /\ task[u].pc \in Holding =>
          task[u].cell # c /\ cell'[task[u].cell] = cell[task[u].cell]
    BY <1>c, <1>f DEF IInv, CellsInPlace, TypeOK, TaskState, Holding
  <2>3. \A u \in Tasks : task'[u].pc # "idle" => task'[u].since <= disk'[task'[u].path]
    BY <1>a, <1>e DEF IInv, BuildsOrdered
  <2>4. \A u \in Tasks : task'[u].pc = "read" =>
          task'[u].since <= task'[u].stat /\ task'[u].stat <= disk'[task'[u].path]
    BY <1>a, <1>e DEF IInv, BuildsOrdered
  <2>5. \A u \in Tasks : task'[u].pc = "evict" =>
          Mtime[cell'[task'[u].cell].src] < Mtime[disk'[task'[u].path]]
    BY <1>a, <1>e, <2>2 DEF IInv, BuildsOrdered, Holding
  <2>6. \A u \in Tasks : task'[u].pc = "done" =>
          Mtime[task'[u].since] <= Mtime[cell'[task'[u].cell].src]
    BY <1>c, <1>e, <1>f, <2>2, MtimeMonotone DEF IInv, BuildsOrdered, Holding
  <2> QED
    BY <2>1, <2>3, <2>4, <2>5, <2>6 DEF BuildsOrdered
<1>5. \A d \in Cells : d # c => (Alive(d)' => Alive(d)) /\ cell'[d] = cell[d]
  BY <1>a, <1>e, <1>f DEF Alive
<1>6. DisplacedIsOlder'
  <2>1. ASSUME NEW d \in Cells, Alive(d)', modules'[cell'[d].path] # d
        PROVE  Mtime[cell'[d].src] < Mtime[disk'[cell'[d].path]]
    BY <2>1, <1>5, <1>a, <1>c, <1>f DEF IInv, DisplacedIsOlder
  <2>2. ASSUME NEW d \in Cells, NEW u \in Tasks,
               Alive(d)', task'[u].pc = "read", cell'[d].path = task'[u].path
        PROVE  Mtime[cell'[d].src] < Mtime[task'[u].stat]
    <3>1. u # t /\ task'[u] = task[u]
      BY <2>2, <1>e
    <3>2. d # c
      <4>1. task[u].cell \in Cells /\ task[u].cell \notin loaded
        BY <2>2, <3>1, CacheAssumption
           DEF IInv, CellsInPlace, TypeOK, TaskState, Loading, CacheAssumption
      <4>2. task[u].cell # c
        BY <2>2, <3>1, <1>c DEF IInv, CellsInPlace, Loading
      <4>3. modules[task[u].path] = task[u].cell
        BY <4>1, CacheAssumption DEF IInv, PendingIsCurrent, CacheAssumption
      <4> QED
        BY <2>2, <3>1, <4>2, <4>3, <1>c, <1>f
    <3> QED
      BY <2>2, <3>1, <3>2, <1>5 DEF IInv, DisplacedIsOlder
  <2> QED
    BY <2>1, <2>2 DEF DisplacedIsOlder
<1>7. NoDuplicateModule'
  <2>1. ASSUME NEW d \in Cells, d # c, Alive(d)', cell'[d].path = p
        PROVE  Mtime[cell'[d].src] < Mtime[cell'[c].src]
    BY <2>1, <1>5, <1>a, <1>f DEF IInv, DisplacedIsOlder
  <2>2. \A d \in Cells : Mtime[cell'[d].src] \in Nat
    BY <1>f, MtimeMonotone DEF CellState
  <2> SUFFICES ASSUME NEW d \in Cells, NEW e \in Cells,
                      Alive(d)', Alive(e)', d # e, cell'[d].path = cell'[e].path
               PROVE  Mtime[cell'[d].src] # Mtime[cell'[e].src]
    BY DEF NoDuplicateModule
  <2>3. CASE d # c /\ e # c
    BY <2>3, <1>5 DEF IInv, NoDuplicateModule
  <2>4. CASE d = c
    BY <2>1, <2>2, <2>4, <1>f
  <2>5. CASE e = c
    BY <2>1, <2>2, <2>5, <1>f
  <2> QED
    BY <2>3, <2>4, <2>5
<1> QED
  BY <1>1, <1>2, <1>3, <1>4, <1>6, <1>7 DEF IInv

LEMMA EvictStep ==
  ASSUME IInv, NEW t \in Tasks, Evict(t)
  PROVE  IInv'
<1> DEFINE p == task[t].path
           c == task[t].cell
<1>a. /\ task[t].pc = "evict"
      /\ modules' = IF modules[p] = c THEN [modules EXCEPT ![p] = None] ELSE modules
      /\ TakeCell(t, "lookup", None)
      /\ UNCHANGED <<disk, present, keep, cell, loaded>>
  BY DEF Evict, Restart
<1>b. p \in Paths /\ c \in Cells /\ c \in loaded /\ cell[c].path = p
  BY <1>a DEF IInv, CellsInPlace, TypeOK, TaskState, Holding
<1>c. /\ task' \in [Tasks -> TaskState]
      /\ task'[t].pc = "lookup"
      /\ task'[t].path = p
      /\ task'[t].cell = None
      /\ task'[t].since = task[t].since
      /\ \A u \in Tasks : u # t => task'[u] = task[u]
  BY <1>a, TakeCellEffect DEF IInv, TypeOK
<1>d. /\ modules' \in [Paths -> Cells \cup {None}]
      /\ \A q \in Paths : modules'[q] # modules[q] =>
           modules'[q] = None /\ q = p /\ modules[q] = c
  <2>1. CASE modules[p] = c
    BY <2>1, <1>a, <1>b DEF IInv, TypeOK
  <2>2. CASE modules[p] # c
    BY <2>2, <1>a, <1>b DEF IInv, TypeOK
  <2> QED
    BY <2>1, <2>2
<1>1. TypeOK'
  BY <1>a, <1>c, <1>d DEF IInv, TypeOK
<1>2. CellsInPlace'
  <2>1. \A u \in Tasks :
          /\ task'[u].cell = None <=> task'[u].pc \in {"idle", "lookup"}
          /\ task'[u].path = None <=> task'[u].pc = "idle"
    BY <1>a, <1>c DEF IInv, CellsInPlace
  <2>2. \A u \in Tasks, d \in Cells :
          cell[d].loader = u <=> task'[u].pc \in Loading /\ task'[u].cell = d
    BY <1>a, <1>c DEF IInv, CellsInPlace, Loading
  <2>3. \A u \in Tasks : task'[u].cell # None => cell[task'[u].cell].path = task'[u].path
    BY <1>c DEF IInv, CellsInPlace
  <2> QED
    BY <1>a, <1>c, <1>d, <2>1, <2>2, <2>3 DEF IInv, CellsInPlace, Holding
<1>3. PendingIsCurrent'
  <2> SUFFICES ASSUME NEW u \in Tasks, task'[u].cell # None, task'[u].cell \notin loaded
               PROVE  modules'[task'[u].path] = task'[u].cell
    BY <1>a DEF PendingIsCurrent
  <2>1. task'[u] = task[u] /\ task[u].path \in Paths
    BY <1>c DEF IInv, CellsInPlace, TypeOK, TaskState
  <2> QED
    BY <2>1, <1>b, <1>d DEF IInv, PendingIsCurrent
<1>4. BuildsOrdered'
  BY <1>a, <1>c DEF IInv, BuildsOrdered
<1>5. \A d \in Cells : Alive(d)' => Alive(d)
  BY <1>a, <1>c DEF Alive, Holding
<1>6. DisplacedIsOlder'
  <2>1. ASSUME NEW d \in Cells, Alive(d)', modules'[cell[d].path] # d
        PROVE  Mtime[cell[d].src] < Mtime[disk[cell[d].path]]
    <3>1. Alive(d) /\ cell[d].path \in Paths
      BY <2>1, <1>5 DEF IInv, CellsInPlace, Alive
    <3>2. CASE d = c
      BY <3>2, <1>a, <1>b DEF IInv, BuildsOrdered
    <3>3. CASE d # c
      BY <2>1, <3>1, <3>3, <1>d DEF IInv, DisplacedIsOlder
    <3> QED
      BY <3>2, <3>3
  <2>2. ASSUME NEW d \in Cells, NEW u \in Tasks,
               Alive(d)', task'[u].pc = "read", cell[d].path = task'[u].path
        PROVE  Mtime[cell[d].src] < Mtime[task'[u].stat]
    BY <2>2, <1>5, <1>c DEF IInv, DisplacedIsOlder
  <2> QED
    BY <2>1, <2>2, <1>a DEF DisplacedIsOlder
<1>7. NoDuplicateModule'
  BY <1>5, <1>a DEF IInv, NoDuplicateModule
<1> QED
  BY <1>1, <1>2, <1>3, <1>4, <1>6, <1>7 DEF IInv

LEMMA InstallStep ==
  ASSUME IInv, NEW p \in Paths, Install(p)
  PROVE  IInv'
<1>a. /\ disk[p] < MaxVersion
      /\ disk' = [disk EXCEPT ![p] = @ + 1]
      /\ present' = present \cup {p}
      /\ UNCHANGED <<keep, modules, cell, loaded, task>>
  BY DEF Install
<1>b. /\ disk' \in [Paths -> Versions]
      /\ \A q \in Paths : disk[q] <= disk'[q]
  BY <1>a, CacheAssumption DEF IInv, TypeOK, Versions, CacheAssumption
<1>c. \A q \in Paths : Mtime[disk[q]] <= Mtime[disk'[q]]
  BY <1>b, MtimeMonotone DEF IInv, TypeOK
<1>d. \A q \in Paths : /\ disk[q] \in Nat /\ disk'[q] \in Nat
                       /\ Mtime[disk[q]] \in Nat /\ Mtime[disk'[q]] \in Nat
  BY <1>b, MtimeMonotone DEF IInv, TypeOK
<1>e. \A c \in Cells : /\ cell[c].ver \in Nat /\ cell[c].src \in Nat
                       /\ Mtime[cell[c].src] \in Nat
  BY MtimeMonotone DEF IInv, TypeOK, CellState
<1>f. \A u \in Tasks : task[u].since \in Nat /\ task[u].stat \in Nat
  BY MtimeMonotone DEF IInv, TypeOK, TaskState
<1>1. TypeOK'
  BY <1>a, <1>b DEF IInv, TypeOK
<1>2. CellsInPlace' /\ PendingIsCurrent'
  BY <1>a DEF IInv, CellsInPlace, PendingIsCurrent
<1>4. BuildsOrdered'
  <2>1. \A c \in loaded : cell[c].path \in Paths /\ c \in Cells
    BY DEF IInv, CellsInPlace, TypeOK
  <2>2. \A c \in loaded : cell[c].src <= cell[c].ver /\ cell[c].ver <= disk'[cell[c].path]
    BY <2>1, <1>b, <1>d, <1>e DEF IInv, BuildsOrdered
  <2>3. \A u \in Tasks : task[u].pc # "idle" => task[u].path \in Paths
    BY DEF IInv, CellsInPlace, TypeOK, TaskState
  <2>4. \A u \in Tasks : task[u].pc # "idle" => task[u].since <= disk'[task[u].path]
    BY <2>3, <1>b, <1>d, <1>f DEF IInv, BuildsOrdered
  <2>5. \A u \in Tasks : task[u].pc = "read" =>
          task[u].since <= task[u].stat /\ task[u].stat <= disk'[task[u].path]
    BY <2>3, <1>b, <1>d, <1>f DEF IInv, BuildsOrdered
  <2>6. \A u \in Tasks : task[u].pc = "evict" =>
          Mtime[cell[task[u].cell].src] < Mtime[disk'[task[u].path]]
    <3>1. \A u \in Tasks : task[u].pc = "evict" => task[u].cell \in Cells
      BY DEF IInv, CellsInPlace, TypeOK, TaskState
    <3> QED
      BY <2>3, <3>1, <1>c, <1>d, <1>e DEF IInv, BuildsOrdered
  <2> QED
    BY <1>a, <2>2, <2>4, <2>5, <2>6 DEF IInv, BuildsOrdered
<1>5. DisplacedIsOlder'
  <2>1. \A c \in Cells : Alive(c)' => Alive(c) /\ cell[c].path \in Paths
    BY <1>a DEF Alive, IInv, CellsInPlace
  <2>2. \A c \in Cells : Alive(c) /\ modules[cell[c].path] # c =>
          Mtime[cell[c].src] < Mtime[disk[cell[c].path]]
    BY DEF IInv, DisplacedIsOlder
  <2>3. \A c \in Cells : Alive(c)' /\ modules[cell[c].path] # c =>
          Mtime[cell[c].src] < Mtime[disk'[cell[c].path]]
    BY <2>1, <2>2, <1>c, <1>d, <1>e
  <2> QED
    BY <1>a, <2>1, <2>3 DEF IInv, DisplacedIsOlder
<1>6. NoDuplicateModule'
  BY <1>a DEF IInv, NoDuplicateModule, Alive
<1> QED
  BY <1>1, <1>2, <1>4, <1>5, <1>6 DEF IInv

LEMMA DropStep ==
  ASSUME IInv, NEW c \in Cells, Drop(c)
  PROVE  IInv'
<1>a. keep' = keep \ {c} /\ UNCHANGED <<disk, present, modules, cell, loaded, task>>
  BY DEF Drop
<1>1. TypeOK'
  BY <1>a DEF IInv, TypeOK
<1>2. CellsInPlace'
  BY <1>a DEF IInv, CellsInPlace
<1>3. PendingIsCurrent' /\ BuildsOrdered'
  BY <1>a DEF IInv, PendingIsCurrent, BuildsOrdered
<1>4. \A d \in Cells : Alive(d)' => Alive(d)
  BY <1>a DEF Alive
<1>5. DisplacedIsOlder' /\ NoDuplicateModule'
  BY <1>1, <1>2, <1>4, <1>a, QuietStep
<1> QED
  BY <1>1, <1>2, <1>3, <1>5 DEF IInv

(* Steps that change none of the variables of IInv but present.            *)
LEMMA IdleStep ==
  ASSUME IInv, present' \in SUBSET Paths,
         UNCHANGED <<disk, keep, modules, cell, loaded, task>>
  PROVE  IInv'
BY DEF IInv, TypeOK, CellsInPlace, PendingIsCurrent, BuildsOrdered,
       DisplacedIsOlder, NoDuplicateModule, Alive

-----------------------------------------------------------------------------
(* The steps that are moves inside _get_module.                            *)
LEMMA LookupStep ==
  ASSUME IInv, NEW t \in Tasks, LookupJoin(t) \/ LookupHit(t)
  PROVE  IInv'
<1> DEFINE cur == modules[task[t].path]
<1>1. /\ task[t].pc = "lookup"
      /\ cur # None
      /\ UNCHANGED <<disk, present, keep, modules, cell, loaded>>
  BY DEF LookupJoin, LookupHit
<1>2. cur \in Cells /\ cell[cur].path = task[t].path
  BY <1>1 DEF IInv, CellsInPlace, TypeOK, TaskState
<1>3. CASE LookupJoin(t)
  <2>1. TakeCell(t, "init", cur)
    BY <1>3 DEF LookupJoin
  <2> QED
    BY <1>1, <1>2, <2>1, TakeCellEffect, MoveStep DEF IInv, TypeOK, Holding
<1>4. CASE LookupHit(t)
  <2>1. TakeCell(t, "check", cur) /\ Alive(cur)
    BY <1>4 DEF LookupHit
  <2> QED
    BY <1>1, <1>2, <2>1, TakeCellEffect, MoveStep DEF IInv, TypeOK
<1> QED
  BY <1>3, <1>4

(* `continue` without an eviction.                                         *)
LEMMA RestartStep ==
  ASSUME IInv, NEW t \in Tasks, Restart(t),
         task[t].pc \in {"init", "check"},
         UNCHANGED <<disk, present, keep, modules, cell, loaded>>
  PROVE  IInv'
<1>1. TakeCell(t, "lookup", None)
  BY DEF Restart
<1> QED
  BY <1>1, TakeCellEffect, MoveStep DEF IInv, TypeOK, Holding

LEMMA InitSharedStep ==
  ASSUME IInv, NEW t \in Tasks, InitShared(t)
  PROVE  IInv'
<1> DEFINE c == task[t].cell
<1>1. /\ task[t].pc = "init"
      /\ c \in loaded
      /\ UNCHANGED <<disk, present, keep, modules, cell, loaded>>
  BY DEF InitShared
<1>2. c # None /\ cell[c].path = task[t].path
  BY <1>1 DEF IInv, CellsInPlace
<1>3. CASE Alive(c)
  <2>1. Goto(t, "check")
    BY <1>3 DEF InitShared
  <2> QED
    BY <1>1, <1>2, <1>3, <2>1, GotoEffect, MoveStep DEF IInv, TypeOK, Holding
<1>4. CASE ~Alive(c)
  <2>1. Restart(t)
    BY <1>4 DEF InitShared
  <2> QED
    BY <1>1, <2>1, RestartStep
<1> QED
  BY <1>3, <1>4

LEMMA CheckStep ==
  ASSUME IInv, NEW t \in Tasks, Check(t)
  PROVE  IInv'
<1> DEFINE p == task[t].path
           c == task[t].cell
           new == Mtime[disk[p]]
           known == Mtime[cell[c].src]
<1>1. /\ task[t].pc = "check"
      /\ IF new > known THEN Goto(t, "evict") ELSE Goto(t, "done")
      /\ UNCHANGED <<disk, present, keep, modules, cell, loaded>>
  BY DEF Check
<1>2. /\ p \in Paths
      /\ c \in Cells
      /\ cell[c].path = p
      /\ c \in loaded
      /\ task[t].since <= disk[p]
  BY <1>1 DEF IInv, CellsInPlace, BuildsOrdered, TypeOK, TaskState, Holding
<1>3. Alive(c)
  BY <1>1, <1>2 DEF Alive, Holding
<1>4. /\ new \in Nat
      /\ known \in Nat
      /\ Mtime[task[t].since] \in Nat
      /\ Mtime[task[t].since] <= new
  BY <1>2, MtimeMonotone DEF IInv, TypeOK, CellState, TaskState
<1>5. c # None
  BY <1>2, CacheAssumption DEF CacheAssumption
<1>6. CASE new > known
  <2>1. Goto(t, "evict") /\ known < new
    BY <1>1, <1>4, <1>6
  <2> QED
    BY <1>1, <1>2, <1>3, <1>5, <2>1, GotoEffect, MoveStep DEF IInv, TypeOK, Holding
<1>7. CASE ~(new > known)
  <2>1. Goto(t, "done") /\ Mtime[task[t].since] <= known
    BY <1>1, <1>4, <1>7
  <2> QED
    BY <1>1, <1>2, <1>3, <1>5, <2>1, GotoEffect, MoveStep DEF IInv, TypeOK, Holding
<1> QED
  BY <1>6, <1>7

-----------------------------------------------------------------------------
(* The steps that end a call.                                              *)
LEMMA AnswerStep ==
  ASSUME IInv, NEW t \in Tasks, CheckFail(t) \/ Release(t) \/ Keep(t)
  PROVE  IInv'
<1>1. /\ task[t].pc \in {"check", "done"}
      /\ Return(t)
      /\ UNCHANGED <<disk, present, modules, cell, loaded>>
  BY DEF CheckFail, Release, Keep
<1>2. /\ keep' \in SUBSET Cells
      /\ \A c \in keep' : c \notin keep => task[t].pc = "done" /\ c = task[t].cell
  <2>1. CASE Keep(t)
    BY <1>1, <2>1 DEF Keep, IInv, CellsInPlace, TypeOK, TaskState
  <2>2. CASE CheckFail(t) \/ Release(t)
    BY <2>2 DEF CheckFail, Release, IInv, TypeOK
  <2> QED
    BY <2>1, <2>2
<1>3. \A c \in Cells : cell[c].loader # t
  BY <1>1 DEF IInv, CellsInPlace, Loading
<1>4. cell' \in [Cells -> CellState]
  BY <1>1 DEF IInv, TypeOK
<1> QED
  BY <1>1, <1>2, <1>3, <1>4, ReturnStep

LEMMA LoadFailStep ==
  ASSUME IInv, NEW t \in Tasks, LoadFail(t)
  PROVE  IInv'
<1> DEFINE c == task[t].cell
<1>1. /\ task[t].pc \in Loading
      /\ Return(t)
      /\ cell' = [cell EXCEPT ![c].loader = None]
      /\ UNCHANGED <<disk, present, keep, modules, loaded>>
  BY DEF LoadFail
<1>2. c \in Cells /\ cell[c].loader = t
  BY <1>1 DEF IInv, CellsInPlace, TypeOK, TaskState, Loading
<1>3. \A d \in Cells : cell[d].loader = t <=> d = c
  BY <1>1, <1>2 DEF IInv, CellsInPlace
<1>4. /\ cell' \in [Cells -> CellState]
      /\ \A d \in Cells : /\ cell'[d].path = cell[d].path
                         /\ cell'[d].src = cell[d].src
                         /\ cell'[d].ver = cell[d].ver
                         /\ cell'[d].loader = IF d = c THEN None ELSE cell[d].loader
  BY <1>1, <1>2 DEF IInv, TypeOK, CellState
<1>5. /\ keep' \in SUBSET Cells
      /\ \A d \in keep' : d \in keep
  BY <1>1 DEF IInv, TypeOK
<1> QED
  BY <1>1, <1>3, <1>4, <1>5, ReturnStep

LEMMA CancelStep ==
  ASSUME IInv, NEW t \in Tasks, Cancel(t)
  PROVE  IInv'
<1>1. /\ Return(t)
      /\ cell' = [c \in Cells |-> IF cell[c].loader = t
                                    THEN [cell[c] EXCEPT !.loader = None] ELSE cell[c]]
      /\ UNCHANGED <<disk, present, keep, modules, loaded>>
  BY DEF Cancel
<1>2. /\ cell' \in [Cells -> CellState]
      /\ \A c \in Cells : /\ cell'[c].path = cell[c].path
                         /\ cell'[c].src = cell[c].src
                         /\ cell'[c].ver = cell[c].ver
                         /\ cell'[c].loader = IF cell[c].loader = t THEN None
                                               ELSE cell[c].loader
  BY <1>1 DEF IInv, TypeOK, CellState
<1>3. /\ keep' \in SUBSET Cells
      /\ \A c \in keep' : c \in keep
  BY <1>1 DEF IInv, TypeOK
<1> QED
  BY <1>1, <1>2, <1>3, ReturnStep

-----------------------------------------------------------------------------
LEMMA InitIInv == Init => IInv
<1> SUFFICES ASSUME Init PROVE IInv
  OBVIOUS
<1>1. /\ IdleTask \in TaskState
      /\ EmptyCell(None) \in CellState
      /\ 0 \in Versions
  BY CacheAssumption DEF CacheAssumption, IdleTask, TaskState, EmptyCell, CellState, Versions
<1>2. /\ \A t \in Tasks : task[t] = IdleTask
      /\ \A c \in Cells : cell[c] = EmptyCell(None)
      /\ \A p \in Paths : modules[p] = None
      /\ loaded = {} /\ keep = {}
  BY DEF Init
<1>3. TypeOK
  BY <1>1 DEF Init, TypeOK
<1>4. CellsInPlace
  BY <1>2, CacheAssumption
     DEF CellsInPlace, IdleTask, EmptyCell, Loading, Holding, CacheAssumption
<1>5. PendingIsCurrent /\ BuildsOrdered
  BY <1>2 DEF PendingIsCurrent, BuildsOrdered, IdleTask
<1>6. DisplacedIsOlder /\ NoDuplicateModule
  BY <1>2 DEF DisplacedIsOlder, NoDuplicateModule, Alive
<1> QED
  BY <1>3, <1>4, <1>5, <1>6 DEF IInv

LEMMA NextIInv == IInv /\ [Next]_vars => IInv'
<1> SUFFICES ASSUME IInv, [Next]_vars PROVE IInv'
  OBVIOUS
<1>1. ASSUME NEW t \in Tasks, Step(t) PROVE IInv'
  <2>1. CASE LookupMiss(t)
    BY <2>1, LookupMissStep
  <2>2. CASE LookupJoin(t) \/ LookupHit(t)
    BY <2>2, LookupStep
  <2>3. CASE InitStart(t)
    BY <2>3, InitStartStep
  <2>4. CASE InitShared(t)
    BY <2>4, InitSharedStep
  <2>5. CASE LoadOpen(t)
    BY <2>5, LoadOpenStep
  <2>6. CASE LoadRead(t)
    BY <2>6, LoadReadStep
  <2>7. CASE LoadFail(t)
    BY <2>7, LoadFailStep
  <2>8. CASE Check(t)
    BY <2>8, CheckStep
  <2>9. CASE CheckFail(t)
    BY <2>9, AnswerStep
  <2>10. CASE CheckNoMtime(t)
    BY <2>10, RestartStep DEF CheckNoMtime
  <2>11. CASE Evict(t)
    BY <2>11, EvictStep
  <2> QED
    BY <1>1, <2>1, <2>2, <2>3, <2>4, <2>5, <2>6, <2>7, <2>8, <2>9, <2>10, <2>11 DEF Step
<1>2. ASSUME NEW t \in Tasks, Cancel(t) PROVE IInv'
  BY <1>2, CancelStep
<1>3. ASSUME NEW t \in Tasks, Release(t) \/ Keep(t) PROVE IInv'
  BY <1>3, AnswerStep
<1>4. ASSUME NEW t \in Tasks, NEW p \in Paths, Call(t, p) PROVE IInv'
  BY <1>4, CallStep
<1>5. ASSUME NEW c \in Cells, Drop(c) PROVE IInv'
  BY <1>5, DropStep
<1>6. ASSUME NEW p \in Paths, Install(p) PROVE IInv'
  BY <1>6, InstallStep
<1>7. ASSUME NEW p \in Paths, Remove(p) PROVE IInv'
  <2>1. present' \in SUBSET Paths
    BY <1>7 DEF Remove, IInv, TypeOK
  <2> QED
    BY <1>7, <2>1, IdleStep DEF Remove
<1>8. CASE UNCHANGED vars
  BY <1>8, IdleStep DEF vars, IInv, TypeOK
<1> QED
  BY <1>1, <1>2, <1>3, <1>4, <1>5, <1>6, <1>7, <1>8 DEF Next

(* The invariant that everything below rests on: every behaviour of the    *)
(* cache keeps its cells, tasks and ages in order.                         *)
THEOREM Invariant == Spec => []IInv
BY InitIInv, NextIInv, PTL DEF Spec

(* The variables keep their types, whatever the tasks do.                  *)
THEOREM TypeCorrect == Spec => []TypeOK
<1>1. IInv => TypeOK
  BY DEF IInv
<1> QED
  BY <1>1, Invariant, PTL

(* Whatever _get_module returns is at least as recent as the file was when *)
(* the call was made, even if the module was displaced while it checked.   *)
THEOREM FreshModuleHolds == Spec => []FreshModule
<1>1. IInv => FreshModule
  <2> SUFFICES ASSUME IInv, NEW t \in Tasks, task[t].pc = "done"
               PROVE  /\ cell[task[t].cell].path = task[t].path
                      /\ Mtime[task[t].since] <= Mtime[cell[task[t].cell].src]
                      /\ cell[task[t].cell].src <= cell[task[t].cell].ver
    BY DEF FreshModule
  <2>1. task[t].cell # None /\ task[t].cell \in loaded
    BY DEF IInv, CellsInPlace, Holding
  <2>2. task[t].cell \in Cells
    BY <2>1 DEF IInv, TypeOK
  <2> QED
    BY <2>1, <2>2 DEF IInv, CellsInPlace, BuildsOrdered
<1> QED
  BY <1>1, Invariant, PTL

(* No two tasks ever read and compile the same file at the same time.      *)
THEOREM SingleLoadHolds == Spec => []SingleLoad
<1>1. IInv => SingleLoad
  <2> SUFFICES ASSUME IInv, NEW t \in Tasks, NEW u \in Tasks,
                      task[t].pc \in Loading, task[u].pc \in Loading,
                      task[t].path = task[u].path
               PROVE  t = u
    BY DEF SingleLoad
  <2>1. ASSUME NEW w \in Tasks, task[w].pc \in Loading
        PROVE  /\ task[w].cell \in Cells
               /\ cell[task[w].cell].loader = w
               /\ modules[task[w].path] = task[w].cell
    <3>1. task[w].cell # None
      BY <2>1 DEF IInv, CellsInPlace, Loading
    <3>2. task[w].cell \in Cells
      BY <3>1 DEF IInv, TypeOK, TaskState
    <3>3. cell[task[w].cell].loader = w
      BY <2>1, <3>2 DEF IInv, CellsInPlace
    <3>4. task[w].cell \notin loaded
      BY <3>2, <3>3, CacheAssumption DEF IInv, CellsInPlace, CacheAssumption
    <3> QED
      BY <3>1, <3>2, <3>3, <3>4 DEF IInv, PendingIsCurrent
  <2> QED
    BY <2>1
<1> QED
  BY <1>1, Invariant, PTL

(* Two live modules of one path come from files of different ages: no      *)
(* build is compiled twice while somebody runs it.                         *)
THEOREM NoDuplicateModuleHolds == Spec => []NoDuplicateModule
<1>1. IInv => NoDuplicateModule
  BY DEF IInv
<1> QED
  BY <1>1, Invariant, PTL

-----------------------------------------------------------------------------
(* The cache as ModuleLookup sees it.  A module is seen as long as it is   *)
(* alive, a call until it is answered.                                     *)
LEMMA LiveIsAlive ==
  ASSUME IInv
  PROVE  /\ \A c \in Cells : Seen(c) # Lookup!NoModule <=> Alive(c)
         /\ Lookup!Live = {c \in Cells : Alive(c)}
<1>1. ASSUME NEW c \in Cells
      PROVE  Seen(c) # Lookup!NoModule <=> Alive(c)
  <2>1. CASE Alive(c)
    <3>1. cell[c].path # None
      BY <2>1, CacheAssumption DEF Alive, IInv, CellsInPlace, CacheAssumption
    <3> QED
      BY <2>1, <3>1 DEF Seen, Lookup!NoModule
  <2>2. CASE ~Alive(c)
    BY <2>2 DEF Seen, Lookup!NoModule
  <2> QED
    BY <2>1, <2>2
<1> QED
  BY <1>1 DEF Lookup!Live, mods

(* A step of t, seen from the modules.                                     *)
LEMMA AliveLess ==
  ASSUME NEW t \in Tasks, UNCHANGED loaded, keep' \subseteq keep,
         \A u \in Tasks : u # t => task'[u] = task[u],
         task'[t].pc \in Holding => Alive(task'[t].cell)
  PROVE  \A c : Alive(c)' => Alive(c)
BY DEF Alive, Holding

LEMMA AliveStays ==
  ASSUME NEW t \in Tasks, UNCHANGED <<loaded, keep>>,
         \A u \in Tasks : u # t => task'[u] = task[u],
         task'[t].pc \in Holding => Alive(task'[t].cell),
         task[t].pc \in Holding => task'[t].pc \in Holding /\ task'[t].cell = task[t].cell
  PROVE  \A c : Alive(c)' <=> Alive(c)
BY DEF Alive, Holding

LEMMA ModsStay ==
  ASSUME \A c \in Cells : Alive(c)' <=> Alive(c),
         \A c \in Cells : Alive(c) => /\ cell'[c].path = cell[c].path
                                     /\ cell'[c].src = cell[c].src
                                     /\ cell'[c].ver = cell[c].ver
  PROVE  mods' = mods
<1>1. \A c \in Cells : Seen(c)' = Seen(c)
  BY DEF Seen
<1> QED
  BY <1>1 DEF mods

(* A call that goes on is the same call.                                   *)
LEMMA CallsStay ==
  ASSUME NEW t \in Tasks, \A u \in Tasks : u # t => task'[u] = task[u],
         task[t].pc \notin {"idle", "done"}, task'[t].pc \notin {"idle", "done"},
         task'[t].path = task[t].path, task'[t].since = task[t].since
  PROVE  calls' = calls
<1>1. \A u \in Tasks : CallOf(u)' = CallOf(u)
  <2> TAKE u \in Tasks
  <2>1. CASE u # t
    BY <2>1 DEF CallOf
  <2>2. CallOf(t)' = CallOf(t)
    BY DEF CallOf
  <2> QED
    BY <2>1, <2>2
<1> QED
  BY <1>1 DEF calls

(* A call that ends leaves its task idle.                                  *)
LEMMA CallEnds ==
  ASSUME IInv, NEW t \in Tasks, Return(t)
  PROVE  /\ calls' = [calls EXCEPT ![t] = Lookup!NoCall]
         /\ \A u \in Tasks : u # t => task'[u] = task[u]
         /\ task'[t] = IdleTask
<1>1. task'[t] = IdleTask /\ \A u \in Tasks : u # t => task'[u] = task[u]
  BY ReturnEffect DEF IInv, TypeOK
<1>2. \A u \in Tasks : u # t => CallOf(u)' = CallOf(u)
  BY <1>1 DEF CallOf
<1>3. CallOf(t)' = Lookup!NoCall
  BY <1>1 DEF CallOf, IdleTask, Lookup!NoCall
<1> QED
  BY <1>1, <1>2, <1>3 DEF calls

(* Modules that nobody refers to any more may be forgotten.                *)
LEMMA Forgotten ==
  ASSUME IInv, UNCHANGED loaded,
         \A c \in Cells : Alive(c)' => Alive(c),
         \A c \in Cells : /\ cell'[c].path = cell[c].path
                          /\ cell'[c].src = cell[c].src
                          /\ cell'[c].ver = cell[c].ver
  PROVE  Lookup!Forget
<1> DEFINE dead == {c \in Cells : Alive(c) /\ ~Alive(c)'}
<1>1. \A c \in dead : c \in Lookup!Live /\ c \notin keep' /\ c # None
  BY LiveIsAlive, CacheAssumption DEF Alive, CacheAssumption
<1>2. ASSUME NEW c \in dead, NEW t \in Tasks
      PROVE  calls'[t].module # c
  <2>1. task'[t].pc = "done" => task'[t].cell # c
    BY DEF Alive, Holding
  <2>2. calls'[t].module = IF task'[t].pc = "done" THEN task'[t].cell ELSE None
    BY DEF calls, CallOf
  <2> QED
    BY <1>1, <2>1, <2>2
<1>3. \A c \in Cells : Seen(c)' = IF c \in dead THEN Lookup!NoModule ELSE mods[c]
  BY DEF Seen, Lookup!NoModule, mods
<1>4. mods' = [c \in Cells |-> IF c \in dead THEN Lookup!NoModule ELSE mods[c]]
  BY <1>3 DEF mods
<1>5. dead \in SUBSET {c \in Lookup!Live : c \notin keep' /\ \A t \in Tasks : calls'[t].module # c}
  BY <1>1, <1>2
<1> HIDE DEF dead
<1> QED
  BY <1>4, <1>5 DEF Lookup!Forget

(* A call that is answered keeps its path and the file it began with.      *)
LEMMA CallAnswered ==
  ASSUME NEW t \in Tasks, \A u \in Tasks : u # t => task'[u] = task[u],
         task[t].pc \notin {"idle", "done"}, task'[t].pc = "done",
         task'[t].path = task[t].path, task'[t].since = task[t].since
  PROVE  calls' = [calls EXCEPT ![t].status = "returned", ![t].module = task'[t].cell]
<1>1. ASSUME NEW u \in Tasks, u # t  PROVE CallOf(u)' = CallOf(u)
  BY <1>1 DEF CallOf
<1>2. CallOf(t) = [status |-> "waiting", path |-> task[t].path,
                   since |-> task[t].since, module |-> None]
  BY DEF CallOf
<1>3. CallOf(t)' = [status |-> "returned", path |-> task[t].path,
                    since |-> task[t].since, module |-> task'[t].cell]
  BY DEF CallOf
<1>4. CallOf(t)' = [CallOf(t) EXCEPT !.status = "returned", !.module = task'[t].cell]
  <2> SUFFICES ASSUME NEW q, q = CallOf(t),
                      NEW r, r = [q EXCEPT !.status = "returned", !.module = task'[t].cell]
               PROVE  CallOf(t)' = r
    OBVIOUS
  <2>1. q = [status |-> "waiting", path |-> task[t].path,
             since |-> task[t].since, module |-> None]
    BY <1>2
  <2>2. r = [status |-> r.status, path |-> r.path, since |-> r.since, module |-> r.module]
    BY <2>1
  <2>3. /\ r.status = "returned" /\ r.module = task'[t].cell
        /\ r.path = task[t].path /\ r.since = task[t].since
    BY <2>1
  <2> QED
    BY <1>3, <2>2, <2>3
<1>5. calls'[t] = [calls[t] EXCEPT !.status = "returned", !.module = task'[t].cell]
  BY <1>4 DEF calls
<1>6. \A u \in Tasks : u # t => calls'[u] = calls[u]
  BY <1>1 DEF calls
<1>7. DOMAIN calls = Tasks /\ calls' = [u \in Tasks |-> calls'[u]]
  BY DEF calls
<1> QED
  BY <1>5, <1>6, <1>7

-----------------------------------------------------------------------------
(* One lemma per kind of step: what ModuleLookup sees of it.               *)
LEMMA CallMaps ==
  ASSUME IInv, NEW t \in Tasks, NEW p \in Paths, Call(t, p)
  PROVE  Lookup!Ask(t, p)
<1>1. /\ task'[t] = [pc |-> "lookup", path |-> p, cell |-> None,
                     stat |-> 0, since |-> disk[p]]
      /\ \A u \in Tasks : u # t => task'[u] = task[u]
  BY DEF Call, IInv, TypeOK
<1>2. \A u \in Tasks : u # t => CallOf(u)' = CallOf(u)
  BY <1>1 DEF CallOf
<1>3. CallOf(t)' = [status |-> "waiting", path |-> p, since |-> disk[p], module |-> None]
  BY <1>1 DEF CallOf
<1>4. calls' = [calls EXCEPT ![t] = [status |-> "waiting", path |-> p,
                                     since |-> disk[p], module |-> None]]
  BY <1>2, <1>3 DEF calls
<1>5. mods' = mods
  <2>1. \A c : Alive(c)' <=> Alive(c)
    BY <1>1, AliveStays DEF Call, Holding
  <2> QED
    BY <2>1, ModsStay DEF Call
<1>6. calls[t].status = "idle"
  BY DEF calls, CallOf, Call
<1> QED
  BY <1>4, <1>5, <1>6 DEF Call, Lookup!Ask

(* Steps inside the loop of _get_module and inside a load.                 *)
LEMMA InsideMaps ==
  ASSUME IInv, NEW t \in Tasks, UNCHANGED <<disk, keep, loaded>>,
         \A u \in Tasks : u # t => task'[u] = task[u],
         task[t].pc \notin {"idle", "done"}, task'[t].pc \notin {"idle", "done"},
         task'[t].path = task[t].path, task'[t].since = task[t].since,
         task'[t].pc \in Holding => Alive(task'[t].cell),
         task[t].pc \in Holding => task'[t].pc \in Holding /\ task'[t].cell = task[t].cell,
         \A c \in Cells : /\ cell'[c].path = cell[c].path
                          /\ cell'[c].src = cell[c].src
                          /\ cell'[c].ver = cell[c].ver
  PROVE  UNCHANGED <<disk, keep, mods, calls>>
<1>1. \A c : Alive(c)' <=> Alive(c)
  BY AliveStays
<1>2. mods' = mods
  BY <1>1, ModsStay
<1>3. calls' = calls
  BY CallsStay
<1> QED
  BY <1>2, <1>3

(* The loop goes round again: a module that only this call held may go.    *)
LEMMA RestartMaps ==
  ASSUME IInv, NEW t \in Tasks, Restart(t), UNCHANGED <<disk, keep, cell, loaded>>,
         task[t].pc \notin {"idle", "done"}
  PROVE  Lookup!Expire
<1>1. /\ task'[t].pc = "lookup"
      /\ task'[t].path = task[t].path
      /\ task'[t].since = task[t].since
      /\ \A u \in Tasks : u # t => task'[u] = task[u]
  BY TakeCellEffect DEF Restart, IInv, TypeOK
<1>2. calls' = calls
  BY <1>1, CallsStay
<1>3. \A c : Alive(c)' => Alive(c)
  BY <1>1, AliveLess DEF Holding
<1>4. Lookup!Forget
  BY <1>3, Forgotten
<1> QED
  BY <1>2, <1>4 DEF Lookup!Expire

LEMMA ReturnMaps ==
  ASSUME IInv, NEW t \in Tasks, Return(t), UNCHANGED <<disk, keep, loaded>>,
         \A c \in Cells : /\ cell'[c].path = cell[c].path
                          /\ cell'[c].src = cell[c].src
                          /\ cell'[c].ver = cell[c].ver
  PROVE  /\ task[t].pc \notin {"idle", "done"} => Lookup!GiveUp(t)
         /\ task[t].pc = "done" => Lookup!Discard(t)
<1>1. /\ calls' = [calls EXCEPT ![t] = Lookup!NoCall]
      /\ \A u \in Tasks : u # t => task'[u] = task[u]
      /\ task'[t].pc = "idle"
  BY CallEnds DEF IdleTask
<1>2. \A c : Alive(c)' => Alive(c)
  BY <1>1, AliveLess DEF Holding
<1>3. Lookup!Forget
  BY <1>2, Forgotten
<1>4. task[t].pc \notin {"idle", "done"} => calls[t].status = "waiting"
  BY DEF calls, CallOf
<1>5. task[t].pc = "done" => calls[t].status = "returned"
  BY DEF calls, CallOf
<1> QED
  BY <1>1, <1>3, <1>4, <1>5 DEF Lookup!GiveUp, Lookup!Discard

LEMMA LookupMissMaps ==
  ASSUME IInv, NEW t \in Tasks, LookupMiss(t)
  PROVE  UNCHANGED <<disk, keep, mods, calls>>
<1>1. PICK c \in Cells : /\ Free(c)
                         /\ cell' = [cell EXCEPT ![c] = EmptyCell(task[t].path)]
                         /\ loaded' = loaded \ {c}
                         /\ TakeCell(t, "init", c)
  BY DEF LookupMiss
<1>2. /\ task'[t].pc = "init"
      /\ task'[t].path = task[t].path
      /\ task'[t].since = task[t].since
      /\ \A u \in Tasks : u # t => task'[u] = task[u]
  BY <1>1, TakeCellEffect DEF IInv, TypeOK
<1>3. task[t].pc = "lookup"
  BY DEF LookupMiss
<1>4. ~Alive(c) /\ ~Alive(c)'
  BY <1>1 DEF Free, Alive
<1>5. ASSUME NEW d \in Cells  PROVE Alive(d)' <=> Alive(d)
  <2>1. CASE d = c
    BY <1>4, <2>1 DEF Alive
  <2>2. CASE d # c
    BY <1>1, <1>2, <1>3, <2>2 DEF Alive, Holding, LookupMiss
  <2> QED
    BY <2>1, <2>2
<1>6. \A d \in Cells : d # c => cell'[d] = cell[d]
  BY <1>1 DEF IInv, TypeOK
<1>7. mods' = mods
  BY <1>4, <1>5, <1>6, ModsStay
<1>8. calls' = calls
  BY <1>2, <1>3, CallsStay
<1> QED
  BY <1>7, <1>8 DEF LookupMiss

(* The task that loaded a module is answered with it.                      *)
LEMMA LoadReadMaps ==
  ASSUME IInv, NEW t \in Tasks, LoadRead(t)
  PROVE  Lookup!AnswerLoaded(t)
<1>1. /\ task[t].pc = "read"
      /\ loaded' = loaded \cup {task[t].cell}
      /\ Goto(t, "done")
      /\ UNCHANGED <<disk, present, keep, modules>>
  BY DEF LoadRead
<1>2. PICK c \in Cells : c = task[t].cell
  BY <1>1, CacheAssumption DEF IInv, TypeOK, TaskState, CellsInPlace, CacheAssumption
<1>3. PICK p \in Paths : p = task[t].path
  BY <1>1, CacheAssumption DEF IInv, TypeOK, TaskState, CellsInPlace, CacheAssumption
<1>4. PICK s \in Versions : s = task[t].stat
  BY DEF IInv, TypeOK, TaskState
<1>5. PICK v \in s .. disk[p] :
        cell' = [cell EXCEPT ![c] = [@ EXCEPT !.loader = None, !.src = s, !.ver = v]]
  BY <1>2, <1>3, <1>4 DEF LoadRead
<1>6. /\ task'[t].pc = "done" /\ task'[t].cell = c
      /\ task'[t].path = p /\ task'[t].since = task[t].since
      /\ \A u \in Tasks : u # t => task'[u] = task[u]
  BY <1>1, <1>2, <1>3, GotoEffect DEF IInv, TypeOK, Holding
<1>7. cell[c].path = p /\ cell[c].loader = t /\ t # None
  BY <1>1, <1>2, <1>3, CacheAssumption DEF IInv, CellsInPlace, Loading, CacheAssumption
<1>8. c \notin loaded /\ ~Alive(c)
  BY <1>7 DEF IInv, CellsInPlace, Alive
<1>9. Alive(c)' /\ \A d \in Cells : d # c => (Alive(d)' <=> Alive(d))
  BY <1>1, <1>2, <1>6 DEF Alive, Holding
<1>10. cell'[c].path = p /\ cell'[c].src = s /\ cell'[c].ver = v
  BY <1>5, <1>7 DEF IInv, TypeOK, CellState
<1>11. \A d \in Cells : d # c => cell'[d] = cell[d]
  BY <1>5 DEF IInv, TypeOK
<1>12. mods' = [mods EXCEPT ![c] = [path |-> p, src |-> s, ver |-> v]]
  <2>1. Seen(c)' = [path |-> p, src |-> s, ver |-> v]
    BY <1>9, <1>10 DEF Seen
  <2>2. \A d \in Cells : d # c => Seen(d)' = Seen(d)
    BY <1>9, <1>11 DEF Seen
  <2> QED
    BY <2>1, <2>2 DEF mods
<1>13. calls' = [calls EXCEPT ![t].status = "returned", ![t].module = c]
  BY <1>1, <1>3, <1>6, CallAnswered
<1>14. calls[t].status = "waiting" /\ calls[t].path = p /\ calls[t].since = task[t].since
  BY <1>1, <1>3 DEF calls, CallOf
<1>15. s \in calls[t].since .. disk[p]
  BY <1>1, <1>3, <1>4, <1>14 DEF IInv, BuildsOrdered, TypeOK, TaskState, Versions
(* What is live at this path is older than what has just been read.        *)
<1>16. ASSUME NEW d \in Lookup!Live, mods[d].path = p
       PROVE  Mtime[mods[d].src] # Mtime[s]
  <2>1. d \in Cells /\ Alive(d)
    BY LiveIsAlive
  <2>2. mods[d].path = cell[d].path /\ mods[d].src = cell[d].src
    BY <2>1 DEF mods, Seen
  <2>3. Mtime[cell[d].src] < Mtime[s]
    BY <1>1, <1>3, <1>4, <1>16, <2>1, <2>2 DEF IInv, DisplacedIsOlder
  <2>4. cell[d].src \in Versions
    BY <2>1 DEF IInv, TypeOK, CellState
  <2> QED
    BY <2>2, <2>3, <2>4, MtimeMonotone
<1> DEFINE loadable == {r \in calls[t].since .. disk[p] :
                          \A d \in Lookup!Live : mods[d].path = p => Mtime[mods[d].src] # Mtime[r]}
<1>17. s \in loadable
  BY <1>15, <1>16
<1>18. c \in Cells \ Lookup!Live
  BY <1>8, LiveIsAlive
<1>19. \E d \in Cells \ Lookup!Live, r \in loadable :
         \E w \in r .. disk[p] :
           /\ mods' = [mods EXCEPT ![d] = [path |-> p, src |-> r, ver |-> w]]
           /\ calls' = [calls EXCEPT ![t].status = "returned", ![t].module = d]
  <2> HIDE DEF loadable
  <2> QED
    BY <1>12, <1>13, <1>17, <1>18
<1> QED
  BY <1>1, <1>14, <1>19 DEF Lookup!AnswerLoaded

(* A module found in the map is returned if the file has not got newer.    *)
LEMMA CheckMaps ==
  ASSUME IInv, NEW t \in Tasks, Check(t)
  PROVE  Lookup!AnswerShared(t) \/ UNCHANGED <<disk, keep, mods, calls>>
<1>1. PICK c \in Cells : c = task[t].cell
  BY CacheAssumption DEF Check, IInv, TypeOK, TaskState, CellsInPlace, CacheAssumption
<1>2. task[t].pc = "check" /\ Alive(c) /\ cell[c].path = task[t].path
  BY <1>1, CacheAssumption DEF Check, IInv, CellsInPlace, Alive, Holding, CacheAssumption
<1>3. UNCHANGED <<disk, keep, cell, loaded>>
  BY DEF Check
<1>4. CASE Goto(t, "evict")
  BY <1>1, <1>2, <1>3, <1>4, GotoEffect, InsideMaps DEF Holding, IInv, TypeOK
<1>5. CASE Goto(t, "done") /\ Mtime[disk[task[t].path]] <= Mtime[cell[c].src]
  <2>1. /\ task'[t].pc = "done" /\ task'[t].cell = c
        /\ task'[t].path = task[t].path /\ task'[t].since = task[t].since
        /\ \A u \in Tasks : u # t => task'[u] = task[u]
    BY <1>1, <1>5, GotoEffect DEF Holding, IInv, TypeOK
  <2>2. calls' = [calls EXCEPT ![t].status = "returned", ![t].module = c]
    BY <1>2, <2>1, CallAnswered
  <2>3. mods' = mods
    <3>1. \A d : Alive(d)' <=> Alive(d)
      BY <1>1, <1>2, <1>3, <2>1, AliveStays DEF Holding
    <3> QED
      BY <1>3, <3>1, ModsStay
  <2>4. c \in Lookup!Live
    BY <1>2, LiveIsAlive
  <2>5. mods[c].path = cell[c].path /\ mods[c].src = cell[c].src
    BY <1>2 DEF mods, Seen
  <2>6. calls[t].status = "waiting" /\ calls[t].path = task[t].path
    BY <1>2 DEF calls, CallOf
  <2>7. \E d \in Lookup!Live :
          /\ mods[d].path = calls[t].path
          /\ Mtime[disk[mods[d].path]] <= Mtime[mods[d].src]
          /\ calls' = [calls EXCEPT ![t].status = "returned", ![t].module = d]
    BY <1>2, <1>5, <2>2, <2>4, <2>5, <2>6
  <2> QED
    BY <1>3, <2>3, <2>6, <2>7 DEF Lookup!AnswerShared
<1>6. /\ Mtime[disk[task[t].path]] \in Nat
      /\ Mtime[cell[c].src] \in Nat
  BY <1>2, MtimeMonotone, CacheAssumption
     DEF IInv, TypeOK, CellState, TaskState, CellsInPlace, CacheAssumption
<1> QED
  BY <1>1, <1>4, <1>5, <1>6 DEF Check

(* What a worker is built from stays; what a worker held may go.           *)
LEMMA KeepMaps ==
  ASSUME IInv, NEW t \in Tasks, Keep(t)
  PROVE  Lookup!Adopt(t)
<1>1. /\ task[t].pc = "done" /\ keep' = keep \cup {task[t].cell}
      /\ UNCHANGED <<disk, cell, loaded>>
  BY DEF Keep
<1>2. /\ calls' = [calls EXCEPT ![t] = Lookup!NoCall]
      /\ \A u \in Tasks : u # t => task'[u] = task[u]
      /\ task'[t].pc = "idle"
  BY CallEnds DEF Keep, IdleTask
<1>3. \A c : Alive(c)' <=> Alive(c)
  BY <1>1, <1>2 DEF Alive, Holding
<1>4. mods' = mods
  BY <1>1, <1>3, ModsStay
<1>5. calls[t].status = "returned" /\ calls[t].module = task[t].cell
  BY <1>1 DEF calls, CallOf
<1> QED
  BY <1>1, <1>2, <1>4, <1>5 DEF Lookup!Adopt

LEMMA DropMaps ==
  ASSUME IInv, NEW c \in Cells, Drop(c)
  PROVE  Lookup!Abandon(c)
<1>1. \A d : Alive(d)' => Alive(d)
  BY DEF Drop, Alive
<1>2. Lookup!Forget
  BY <1>1, Forgotten DEF Drop
<1>3. calls' = calls
  BY DEF Drop, calls, CallOf
<1> QED
  BY <1>2, <1>3 DEF Drop, Lookup!Abandon

(* Nothing that is done to a file is seen by modules and calls.            *)
LEMMA FilesMap ==
  ASSUME UNCHANGED <<keep, cell, loaded, task>>
  PROVE  UNCHANGED <<keep, mods, calls>>
BY DEF mods, Seen, calls, CallOf, Alive

LEMMA CancelMaps ==
  ASSUME IInv, NEW t \in Tasks, Cancel(t)
  PROVE  Lookup!GiveUp(t)
<1>1. \A c \in Cells : /\ cell'[c].path = cell[c].path
                       /\ cell'[c].src = cell[c].src
                       /\ cell'[c].ver = cell[c].ver
  BY DEF Cancel, IInv, TypeOK, CellState
<1> QED
  BY <1>1, ReturnMaps DEF Cancel

LEMMA LoadFailMaps ==
  ASSUME IInv, NEW t \in Tasks, LoadFail(t)
  PROVE  Lookup!GiveUp(t)
<1>1. \A c \in Cells : /\ cell'[c].path = cell[c].path
                       /\ cell'[c].src = cell[c].src
                       /\ cell'[c].ver = cell[c].ver
  BY DEF LoadFail, IInv, TypeOK, CellState
<1> QED
  BY <1>1, ReturnMaps DEF LoadFail, Loading

LEMMA JoinOrHitMaps ==
  ASSUME IInv, NEW t \in Tasks, LookupJoin(t) \/ LookupHit(t)
  PROVE  UNCHANGED <<disk, keep, mods, calls>>
<1>1. PICK c \in Cells : c = modules[task[t].path]
  BY CacheAssumption DEF LookupJoin, LookupHit, IInv, TypeOK, TaskState, CellsInPlace, CacheAssumption
<1>2. CASE LookupJoin(t)
  <2>1. TakeCell(t, "init", c) /\ task[t].pc = "lookup" /\ UNCHANGED <<disk, keep, cell, loaded>>
    BY <1>1, <1>2 DEF LookupJoin
  <2> QED
    BY <2>1, TakeCellEffect, InsideMaps DEF IInv, TypeOK, Holding
<1>3. CASE LookupHit(t)
  <2>1. /\ TakeCell(t, "check", c) /\ task[t].pc = "lookup" /\ Alive(c)
        /\ UNCHANGED <<disk, keep, cell, loaded>>
    BY <1>1, <1>3 DEF LookupHit
  <2> QED
    BY <2>1, TakeCellEffect, InsideMaps DEF IInv, TypeOK, Holding
<1> QED
  BY <1>2, <1>3

LEMMA InitStartMaps ==
  ASSUME IInv, NEW t \in Tasks, InitStart(t)
  PROVE  UNCHANGED <<disk, keep, mods, calls>>
<1>1. \A c \in Cells : /\ cell'[c].path = cell[c].path
                       /\ cell'[c].src = cell[c].src
                       /\ cell'[c].ver = cell[c].ver
  BY DEF InitStart, IInv, TypeOK, CellState
<1>2. Goto(t, "open") /\ task[t].pc = "init" /\ UNCHANGED <<disk, keep, loaded>>
  BY DEF InitStart
<1> QED
  BY <1>1, <1>2, GotoEffect, InsideMaps DEF IInv, TypeOK, Loading, Holding

LEMMA LoadOpenMaps ==
  ASSUME IInv, NEW t \in Tasks, LoadOpen(t)
  PROVE  UNCHANGED <<disk, keep, mods, calls>>
<1>1. task[t].pc = "open" /\ UNCHANGED <<disk, keep, cell, loaded>>
  BY DEF LoadOpen
<1>2. /\ task'[t].pc = "read"
      /\ task'[t].path = task[t].path /\ task'[t].since = task[t].since
      /\ \A u \in Tasks : u # t => task'[u] = task[u]
  BY DEF LoadOpen, IInv, TypeOK, TaskState
<1> QED
  BY <1>1, <1>2, InsideMaps DEF Holding

LEMMA InitSharedMaps ==
  ASSUME IInv, NEW t \in Tasks, InitShared(t)
  PROVE  Lookup!Expire \/ UNCHANGED <<disk, keep, mods, calls>>
<1>1. task[t].pc = "init" /\ UNCHANGED <<disk, keep, cell, loaded>>
  BY DEF InitShared
<1>2. CASE Alive(task[t].cell) /\ Goto(t, "check")
  BY <1>1, <1>2, GotoEffect, InsideMaps DEF IInv, TypeOK, Holding
<1>3. CASE Restart(t)
  BY <1>1, <1>3, RestartMaps
<1> QED
  BY <1>2, <1>3 DEF InitShared

LEMMA StepMaps ==
  ASSUME IInv, NEW t \in Tasks, Step(t)
  PROVE  Lookup!LookupNext \/ UNCHANGED <<disk, keep, mods, calls>>
<1>1. CASE LookupMiss(t)
  BY <1>1, LookupMissMaps
<1>2. CASE LookupJoin(t) \/ LookupHit(t)
  BY <1>2, JoinOrHitMaps
<1>3. CASE InitStart(t)
  BY <1>3, InitStartMaps
<1>4. CASE InitShared(t)
  BY <1>4, InitSharedMaps DEF Lookup!LookupNext
<1>5. CASE LoadOpen(t)
  BY <1>5, LoadOpenMaps
<1>6. CASE LoadRead(t)
  BY <1>6, LoadReadMaps DEF Lookup!LookupNext
<1>7. CASE LoadFail(t)
  BY <1>7, LoadFailMaps DEF Lookup!LookupNext
<1>8. CASE Check(t)
  BY <1>8, CheckMaps DEF Lookup!LookupNext
<1>9. CASE CheckFail(t)
  <2>1. Lookup!GiveUp(t)
    BY <1>9, ReturnMaps DEF CheckFail
  <2> QED
    BY <2>1 DEF Lookup!LookupNext
<1>10. CASE CheckNoMtime(t) \/ Evict(t)
  <2>1. Lookup!Expire
    BY <1>10, RestartMaps DEF CheckNoMtime, Evict
  <2> QED
    BY <2>1 DEF Lookup!LookupNext
<1> QED
  BY <1>1, <1>2, <1>3, <1>4, <1>5, <1>6, <1>7, <1>8, <1>9, <1>10 DEF Step

LEMMA NextMaps ==
  IInv /\ [Next]_vars => [Lookup!LookupNext]_(Lookup!lookupVars)
<1> SUFFICES ASSUME IInv, [Next]_vars
             PROVE  Lookup!LookupNext \/ UNCHANGED <<disk, keep, mods, calls>>
  BY DEF Lookup!lookupVars
<1>1. CASE UNCHANGED vars
  BY <1>1, FilesMap DEF vars
<1>2. ASSUME NEW t \in Tasks, Step(t)
      PROVE  Lookup!LookupNext \/ UNCHANGED <<disk, keep, mods, calls>>
  BY <1>2, StepMaps
<1>3. ASSUME NEW t \in Tasks, Cancel(t)  PROVE Lookup!LookupNext
  BY <1>3, CancelMaps DEF Lookup!LookupNext
<1>4. ASSUME NEW t \in Tasks, Release(t)  PROVE Lookup!LookupNext
  <2>1. Lookup!Discard(t)
    BY <1>4, ReturnMaps DEF Release
  <2> QED
    BY <2>1 DEF Lookup!LookupNext
<1>5. ASSUME NEW t \in Tasks, Keep(t)  PROVE Lookup!LookupNext
  BY <1>5, KeepMaps DEF Lookup!LookupNext
<1>6. ASSUME NEW t \in Tasks, NEW p \in Paths, Call(t, p)  PROVE Lookup!LookupNext
  BY <1>6, CallMaps DEF Lookup!LookupNext
<1>7. ASSUME NEW c \in Cells, Drop(c)  PROVE Lookup!LookupNext
  BY <1>7, DropMaps DEF Lookup!LookupNext
<1>8. ASSUME NEW p \in Paths, Install(p)  PROVE Lookup!LookupNext
  <2>1. Lookup!Install(p)
    BY <1>8, FilesMap DEF Install, Lookup!Install
  <2> QED
    BY <2>1 DEF Lookup!LookupNext
<1>9. ASSUME NEW p \in Paths, Remove(p)  PROVE UNCHANGED <<disk, keep, mods, calls>>
  BY <1>9, FilesMap DEF Remove
<1> QED
  BY <1>1, <1>2, <1>3, <1>4, <1>5, <1>6, <1>7, <1>8, <1>9 DEF Next

(* The cells, weak references and the freshness loop keep the promise of   *)
(* ModuleLookup: a call is answered with a module of its path that was not *)
(* older than the file at that instant, or with one it has just loaded     *)
(* from a build newer than that of any module still alive.                 *)
THEOREM KeepsThePromise == Spec => ImplementsLookup
<1>1. Init => Lookup!LookupInit
  <2> SUFFICES ASSUME Init  PROVE Lookup!LookupInit
    OBVIOUS
  <2>1. \A c \in Cells : Seen(c) = Lookup!NoModule
    BY DEF Init, Seen, Alive, Lookup!NoModule
  <2>2. \A t \in Tasks : CallOf(t) = Lookup!NoCall
    BY DEF Init, IdleTask, CallOf, Lookup!NoCall
  <2> QED
    BY <2>1, <2>2 DEF Init, mods, calls, Lookup!LookupInit
<1> QED
  BY <1>1, Invariant, NextMaps, PTL DEF Spec, ImplementsLookup, Lookup!LookupSpec
=============================================================================
