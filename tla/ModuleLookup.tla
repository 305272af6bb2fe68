------------------------------ MODULE ModuleLookup ------------------------------
(***************************************************************************)
(* What Tenant::_get_module promises to its caller, without the way it     *)
(* keeps the promise (cells, weak references, the freshness loop).         *)
(*                                                                         *)
(* A call names a path.  It is answered with a compiled module of that     *)
(* path: either one that is alive and, at the instant of the answer, not   *)
(* older than the file, or one loaded from the file during the call.  Two  *)
(* live modules of a path never come from the same modification time.      *)
(***************************************************************************)
EXTENDS Naturals, FiniteSets

CONSTANTS
  Tasks,       \* the tokio tasks that may call _get_module
  Paths,       \* the wasm files
  Cells,       \* the addresses a module may have; an address is reused once free
  None,        \* no cell, no task, no path
  MaxVersion,  \* bound: how often the file at one path is replaced
  Mtime        \* Mtime[v] is the modification time of the v-th build of a file

Versions == 0 .. MaxVersion

(* Modification times never run backwards; two builds may share one (a     *)
(* clock tick is coarse).                                                  *)
ASSUME LookupAssumption ==
  /\ MaxVersion \in Nat
  /\ Mtime \in [Versions -> Nat]
  /\ \A v, w \in Versions : v <= w => Mtime[v] <= Mtime[w]
  /\ None \notin Cells \cup Paths \cup Tasks

VARIABLES
  disk,  \* disk[p]: the last build installed at path p; a file that has been
         \* removed makes calls fail, which they may always do
  keep,  \* the modules the rest of the server holds (the workers' modules)
  mod,   \* mod[c]: the live module at address c, or NoModule
  call   \* call[t]: where task t is with its call

lookupVars == <<disk, keep, mod, call>>

NoModule == [path |-> None, src |-> 0, ver |-> 0]
NoCall == [status |-> "idle", path |-> None, since |-> 0, module |-> None]

Live == {c \in Cells : mod[c] # NoModule}

-----------------------------------------------------------------------------
(* Whatever is neither returned to a caller nor held by the server may be  *)
(* gone after any step.                                                    *)
Forget ==
  \E dead \in SUBSET {c \in Live : c \notin keep' /\ \A t \in Tasks : call'[t].module # c} :
    mod' = [c \in Cells |-> IF c \in dead THEN NoModule ELSE mod[c]]

Ask(t, p) ==
  /\ call[t].status = "idle"
  /\ call' = [call EXCEPT ![t] = [status |-> "waiting", path |-> p,
                                  since |-> disk[p], module |-> None]]
  /\ UNCHANGED <<disk, keep, mod>>

AnswerShared(t) ==
  /\ call[t].status = "waiting"
  /\ \E c \in Live :
       /\ mod[c].path = call[t].path
       /\ Mtime[disk[mod[c].path]] <= Mtime[mod[c].src]
       /\ call' = [call EXCEPT ![t].status = "returned", ![t].module = c]
  /\ UNCHANGED <<disk, keep, mod>>

AnswerLoaded(t) ==
  /\ call[t].status = "waiting"
  /\ LET p == call[t].path
         loadable == {s \in call[t].since .. disk[p] :
                        \A c \in Live : mod[c].path = p => Mtime[mod[c].src] # Mtime[s]}
     IN  \E c \in Cells \ Live, s \in loadable :
           \E v \in s .. disk[p] :
             /\ mod' = [mod EXCEPT ![c] = [path |-> p, src |-> s, ver |-> v]]
             /\ call' = [call EXCEPT ![t].status = "returned", ![t].module = c]
  /\ UNCHANGED <<disk, keep>>

(* The call ends without a module: an error is returned, or the task is    *)
(* dropped by its executor.                                                *)
GiveUp(t) ==
  /\ call[t].status = "waiting"
  /\ call' = [call EXCEPT ![t] = NoCall]
  /\ UNCHANGED <<disk, keep>>
  /\ Forget

Discard(t) ==
  /\ call[t].status = "returned"
  /\ call' = [call EXCEPT ![t] = NoCall]
  /\ UNCHANGED <<disk, keep>>
  /\ Forget

-----------------------------------------------------------------------------
(* The rest of the server takes a module over from a call, or lets go.     *)
Adopt(t) ==
  /\ call[t].status = "returned"
  /\ call' = [call EXCEPT ![t] = NoCall]
  /\ keep' = keep \cup {call[t].module}
  /\ UNCHANGED <<disk, mod>>

Abandon(c) ==
  /\ c \in keep
  /\ keep' = keep \ {c}
  /\ UNCHANGED <<disk, call>>
  /\ Forget

(* A reference that only the inside of a call held goes away.              *)
Expire ==
  /\ UNCHANGED <<disk, keep, call>>
  /\ Forget

(* The build at path p is replaced (overwritten in place or renamed over). *)
Install(p) ==
  /\ disk[p] < MaxVersion
  /\ disk' = [disk EXCEPT ![p] = @ + 1]
  /\ UNCHANGED <<keep, mod, call>>

-----------------------------------------------------------------------------
LookupInit ==
  /\ disk = [p \in Paths |-> 0]
  /\ keep = {}
  /\ mod = [c \in Cells |-> NoModule]
  /\ call = [t \in Tasks |-> NoCall]

LookupNext ==
  \/ \E t \in Tasks :
       \/ \E p \in Paths : Ask(t, p)
       \/ AnswerShared(t) \/ AnswerLoaded(t) \/ GiveUp(t)
       \/ Discard(t) \/ Adopt(t)
  \/ \E c \in Cells : Abandon(c)
  \/ Expire
  \/ \E p \in Paths : Install(p)

LookupSpec == LookupInit /\ [][LookupNext]_lookupVars
=============================================================================
