--------------------------- MODULE WorkerCache_proofs ---------------------------
(***************************************************************************)
(* Proofs about WorkerCache: for any number of requests, databases, names, *)
(* directories, workers and builds, in every mode.                         *)
(*                                                                         *)
(* IInv is inductive.  A step of a request keeps what is said of the other *)
(* requests (TaskStep), so the lemma about such a step says only what      *)
(* becomes of its own; the steps that touch every request, or the set of   *)
(* workers, have lemmas of their own.  The properties follow from IInv,    *)
(* and with it every step is one of TenantService, or none.                *)
(***************************************************************************)
EXTENDS WorkerCache, TLAPS

-----------------------------------------------------------------------------
(* What holds of modules and calls whatever the rest of the server does: a *)
(* module is there as long as somebody refers to it; the one that a call   *)
(* has been answered with is of its path, and as recent as the file was    *)
(* when the call was made.                                                 *)
Modules == [path : Paths, src : Versions, ver : Versions]
Calls == [status : {"waiting"}, path : Paths, since : Versions, module : {None}] \cup
         [status : {"returned"}, path : Paths, since : Versions, module : Cells]

Answered(t) ==
  LET m == mod[call[t].module]
  IN  /\ call[t].module \in Live
      /\ m.path = call[t].path
      /\ Mtime[call[t].since] <= Mtime[m.src]

LookupInv ==
  /\ disk \in [Paths -> Versions]
  /\ mod \in [Cells -> Modules \cup {NoModule}]
  /\ call \in [Tasks -> Calls \cup {NoCall}]
  /\ keep \in SUBSET Live
  /\ \A t \in Tasks : call[t].status = "waiting" => call[t].since <= disk[call[t].path]
  /\ \A t \in Tasks : call[t].status = "returned" => Answered(t)

(* The inductive invariant.  Workers are in the map under their names, and *)
(* run modules of their names.                                             *)
WorkerInPlace(w) ==
  /\ worker[w].key \in Keys
  /\ worker[w].module \in Cells
  /\ mod[worker[w].module].path[2] = worker[w].key[2]

Cached(k) == workers[k] # None => workers[k] \in built /\ worker[workers[k]].key = k

(* What a request has asked _get_module for is its own, and not older than *)
(* the request; the worker it uses is not deallocated.                     *)
RequestInPlace(t) ==
  /\ req[t].pc # "idle" =>
       /\ directories[req[t].key[1]] \in req[t].dirs \cup {None}
       /\ \A p \in Paths : req[t].since[p] <= disk[p]
  /\ req[t].pc = "module" => call[t].status # "idle"
  /\ call[t].status # "idle" =>
       /\ call[t].path[1] \in req[t].dirs
       /\ call[t].path[2] = req[t].key[2]
       /\ req[t].since[call[t].path] <= call[t].since
  /\ req[t].worker # None => req[t].worker \in built

(* Who holds which lock; who holds that of the workers is about to replace *)
(* one that runs another module, if any.                                   *)
LocksInPlace(t) ==
  /\ writer = t <=> req[t].pc \in {"client", "build"}
  /\ \A w \in Workers : store[w] = t <=> req[t].pc = "run" /\ req[t].worker = w
  /\ writer = t => ~ Current(t)

Served(t) == req[t].worker # None => ServedFrom(t) /\ ServedSince(t)

IInv ==
  /\ TypeOK
  /\ LookupInv
  /\ \A w \in built : WorkerInPlace(w)
  /\ \A k \in Keys : Cached(k)
  /\ \A t \in Tasks : RequestInPlace(t) /\ LocksInPlace(t) /\ Served(t)

-----------------------------------------------------------------------------
(* Modification times are numbers and do not run backwards.                *)
LEMMA MtimeMonotone ==
  /\ \A v \in Versions : v \in Nat /\ Mtime[v] \in Nat
  /\ \A v, w \in Versions : v <= w => Mtime[v] <= Mtime[w]
BY LookupAssumption DEF LookupAssumption, Versions

(* None is nothing else, so what is idle can be told from what is not.     *)
LEMMA NoneApart ==
  /\ None \notin Cells /\ None \notin Paths /\ None \notin Tasks
  /\ None \notin Dbs /\ None \notin Dirs /\ None \notin Workers
  /\ NoModule \notin Modules
  /\ Paths = Dirs \X Names
BY LookupAssumption, WorkerAssumption
   DEF LookupAssumption, WorkerAssumption, NoModule, Modules

-----------------------------------------------------------------------------
(* Modules and calls, as ModuleLookup lets them change.                    *)

(* Only modules that nobody refers to are forgotten.                       *)
LEMMA Forgotten ==
  ASSUME LookupInv, Forget, disk' = disk, keep' \in SUBSET keep,
         call' \in [Tasks -> Calls \cup {NoCall}],
         \A t \in Tasks : call'[t] \in {call[t], NoCall}
  PROVE  /\ LookupInv'
         /\ \A c \in keep' : mod'[c] = mod[c]
<1>1. PICK dead \in SUBSET {c \in Live : c \notin keep' /\ \A t \in Tasks : call'[t].module # c} :
        mod' = [c \in Cells |-> IF c \in dead THEN NoModule ELSE mod[c]]
  BY DEF Forget
<1>2. mod' \in [Cells -> Modules \cup {NoModule}]
  BY <1>1 DEF LookupInv
<1>3. \A c \in Live : c \notin dead => mod'[c] = mod[c] /\ c \in Live'
  BY <1>1 DEF Live
<1>4. keep' \subseteq Live' /\ \A c \in keep' : mod'[c] = mod[c]
  BY <1>1, <1>3 DEF LookupInv
<1>5. \A t \in Tasks : call'[t].status = "waiting" => call'[t].since <= disk'[call'[t].path]
  BY DEF LookupInv, NoCall
<1>6. \A t \in Tasks : call'[t].status = "returned" => Answered(t)'
  BY <1>1, <1>3 DEF LookupInv, NoCall, Answered
<1> QED
  BY <1>2, <1>4, <1>5, <1>6 DEF LookupInv

(* A call begins, is answered or ends, whatever else the step does.        *)
LEMMA AskKeeps ==
  ASSUME LookupInv, NEW t \in Tasks, NEW p \in Paths, Ask(t, p)
  PROVE  LookupInv'
<1> DEFINE r == [status |-> "waiting", path |-> p, since |-> disk[p], module |-> None]
<1>1. r \in Calls
  BY DEF LookupInv, Calls
<1>2. call' = [call EXCEPT ![t] = r]
  BY DEF Ask
<1>3. r.status = "waiting" /\ r.path = p /\ r.since = disk[p]
  OBVIOUS
<1>4. disk[p] \in Nat
  BY MtimeMonotone DEF LookupInv
<1> HIDE DEF r
<1>5. call' \in [Tasks -> Calls \cup {NoCall}] /\ call'[t] = r
      /\ \A u \in Tasks : u # t => call'[u] = call[u]
  BY <1>1, <1>2 DEF LookupInv
<1>6. \A u \in Tasks : call'[u].status = "waiting" => call'[u].since <= disk'[call'[u].path]
  BY <1>3, <1>4, <1>5 DEF LookupInv, Ask
<1>7. \A u \in Tasks : call'[u].status = "returned" => Answered(u)'
  BY <1>3, <1>5 DEF LookupInv, Ask, Answered, Live
<1> QED
  BY <1>5, <1>6, <1>7 DEF LookupInv, Ask, Live

LEMMA AnsweredEffect ==
  ASSUME LookupInv, NEW t \in Tasks, NEW c \in Cells,
         call[t].status = "waiting",
         call' = [call EXCEPT ![t].status = "returned", ![t].module = c]
  PROVE  /\ call' \in [Tasks -> Calls \cup {NoCall}]
         /\ call'[t].status = "returned"
         /\ call'[t].path = call[t].path
         /\ call'[t].since = call[t].since
         /\ call'[t].module = c
         /\ call[t].path \in Paths /\ call[t].since \in Versions
         /\ \A u \in Tasks : u # t => call'[u] = call[u]
<1> DEFINE r == [status |-> "returned", path |-> call[t].path, since |-> call[t].since, module |-> c]
<1>1. call[t] \in [status : {"waiting"}, path : Paths, since : Versions, module : {None}]
  BY DEF LookupInv, Calls, NoCall
<1>2. r \in Calls
  BY <1>1 DEF Calls
<1>3. r = [call[t] EXCEPT !.status = "returned", !.module = c]
  <2> DEFINE q == [call[t] EXCEPT !.status = "returned"]
  <2>1. q = [status |-> "returned", path |-> call[t].path, since |-> call[t].since, module |-> None]
    BY <1>1
  <2> HIDE DEF q
  <2>2. [q EXCEPT !.module = c] = r
    BY <2>1
  <2> QED
    BY <2>2 DEF q
<1>4. call'[t] = [call[t] EXCEPT !.status = "returned", !.module = c]
  BY DEF LookupInv
<1>5. /\ DOMAIN call' = Tasks
      /\ call' = [u \in Tasks |-> call'[u]]
      /\ \A u \in Tasks : u # t => call'[u] = call[u]
  BY DEF LookupInv
<1>6. call' \in [Tasks -> Calls \cup {NoCall}]
  BY <1>2, <1>3, <1>4, <1>5 DEF LookupInv
<1> QED
  BY <1>1, <1>3, <1>4, <1>5, <1>6

LEMMA AnswerSharedKeeps ==
  ASSUME LookupInv, NEW t \in Tasks, AnswerShared(t)
  PROVE  LookupInv'
<1>1. PICK c \in Live :
        /\ mod[c].path = call[t].path
        /\ Mtime[disk[mod[c].path]] <= Mtime[mod[c].src]
        /\ call' = [call EXCEPT ![t].status = "returned", ![t].module = c]
  BY DEF AnswerShared
<1>2. c \in Cells /\ call[t].status = "waiting" /\ UNCHANGED <<disk, keep, mod>>
  BY DEF Live, AnswerShared
<1>3. /\ call' \in [Tasks -> Calls \cup {NoCall}]
      /\ call'[t].status = "returned"
      /\ call'[t].path = call[t].path
      /\ call'[t].since = call[t].since
      /\ call'[t].module = c
      /\ call[t].path \in Paths /\ call[t].since \in Versions
      /\ \A u \in Tasks : u # t => call'[u] = call[u]
  BY <1>1, <1>2, AnsweredEffect
<1>4. mod[c] \in Modules
  BY DEF LookupInv, Live
<1>5. /\ disk[call[t].path] \in Versions /\ mod[c].src \in Versions
      /\ call[t].since <= disk[call[t].path]
  BY <1>2, <1>3, <1>4 DEF LookupInv, Modules
<1>6. Mtime[call[t].since] <= Mtime[disk[call[t].path]]
  BY <1>3, <1>5, MtimeMonotone
<1>7. Mtime[call[t].since] <= Mtime[mod[c].src]
  BY <1>1, <1>3, <1>5, <1>6, MtimeMonotone
<1>8. Answered(t)'
  BY <1>1, <1>2, <1>3, <1>7 DEF Answered, Live
<1>9. \A u \in Tasks : call'[u].status = "returned" => Answered(u)'
  BY <1>2, <1>3, <1>8 DEF LookupInv, Answered, Live
<1>10. \A u \in Tasks : call'[u].status = "waiting" => call'[u].since <= disk'[call'[u].path]
  BY <1>2, <1>3 DEF LookupInv
<1> QED
  BY <1>2, <1>3, <1>9, <1>10 DEF LookupInv, Live

LEMMA AnswerLoadedKeeps ==
  ASSUME LookupInv, NEW t \in Tasks, AnswerLoaded(t)
  PROVE  /\ LookupInv'
         /\ \A c \in keep : mod'[c] = mod[c]
<1> DEFINE p == call[t].path
<1>1. call[t].status = "waiting" /\ UNCHANGED <<disk, keep>>
  BY DEF AnswerLoaded
<1>2. PICK c \in Cells \ Live, s \in call[t].since .. disk[p] : \E v \in s .. disk[p] :
        /\ mod' = [mod EXCEPT ![c] = [path |-> p, src |-> s, ver |-> v]]
        /\ call' = [call EXCEPT ![t].status = "returned", ![t].module = c]
  BY DEF AnswerLoaded
<1>3. PICK v \in s .. disk[p] :
        /\ mod' = [mod EXCEPT ![c] = [path |-> p, src |-> s, ver |-> v]]
        /\ call' = [call EXCEPT ![t].status = "returned", ![t].module = c]
  BY <1>2
<1>4. /\ call' \in [Tasks -> Calls \cup {NoCall}]
      /\ call'[t].status = "returned"
      /\ call'[t].path = call[t].path
      /\ call'[t].since = call[t].since
      /\ call'[t].module = c
      /\ call[t].path \in Paths /\ call[t].since \in Versions
      /\ \A u \in Tasks : u # t => call'[u] = call[u]
  BY <1>1, <1>3, AnsweredEffect
<1>5. disk[p] \in Versions
  BY <1>4 DEF LookupInv
<1>6. s \in Versions /\ v \in Versions /\ call[t].since <= s
  BY <1>2, <1>3, <1>4, <1>5, LookupAssumption DEF LookupAssumption, Versions
<1> DEFINE m == [path |-> p, src |-> s, ver |-> v]
<1>7. m \in Modules /\ m.path = p /\ m.src = s
  BY <1>4, <1>6 DEF Modules
<1>8. mod' = [mod EXCEPT ![c] = m]
  BY <1>3
<1>9. Mtime[call[t].since] <= Mtime[s]
  BY <1>4, <1>6, MtimeMonotone
<1> HIDE DEF m, p
<1>10. /\ mod' \in [Cells -> Modules \cup {NoModule}]
      /\ mod'[c] = m /\ m # NoModule
      /\ \A d \in Live : d \in Live' /\ mod'[d] = mod[d]
  BY <1>7, <1>8, NoneApart DEF LookupInv, Live
<1>11. Answered(t)'
  BY <1>4, <1>7, <1>9, <1>10 DEF Answered, Live, p
<1>12. \A u \in Tasks : call'[u].status = "returned" => Answered(u)'
  BY <1>4, <1>10, <1>11 DEF LookupInv, Answered
<1>13. \A u \in Tasks : call'[u].status = "waiting" => call'[u].since <= disk'[call'[u].path]
  BY <1>1, <1>4 DEF LookupInv
<1> QED
  BY <1>1, <1>4, <1>10, <1>12, <1>13 DEF LookupInv

LEMMA AdoptKeeps ==
  ASSUME LookupInv, NEW t \in Tasks, Adopt(t)
  PROVE  LookupInv'
<1>1. call' = [call EXCEPT ![t] = NoCall] /\ keep' = keep \cup {call[t].module}
      /\ UNCHANGED <<disk, mod>> /\ call[t].module \in Live
  BY DEF Adopt, LookupInv, Answered
<1>2. \A u \in Tasks : call'[u] = call[u] \/ call'[u].status = "idle"
  BY <1>1 DEF LookupInv, NoCall
<1> QED
  BY <1>1, <1>2 DEF LookupInv, Answered, Live

(* A call that ends.                                                       *)
LEMMA EndedKeeps ==
  ASSUME LookupInv, NEW t \in Tasks, GiveUp(t) \/ Discard(t)
  PROVE  /\ LookupInv'
         /\ \A c \in keep' : mod'[c] = mod[c]
<1>1. call' = [call EXCEPT ![t] = NoCall] /\ UNCHANGED <<disk, keep>> /\ Forget
  BY DEF GiveUp, Discard
<1>2. call' \in [Tasks -> Calls \cup {NoCall}] /\ \A u \in Tasks : call'[u] \in {call[u], NoCall}
  BY <1>1 DEF LookupInv
<1> QED
  BY <1>1, <1>2, Forgotten

LEMMA InstallKeeps ==
  ASSUME LookupInv, NEW p \in Paths, Install(p)
  PROVE  /\ LookupInv'
         /\ \A q \in Paths : disk[q] <= disk'[q]
<1>1. /\ disk' \in [Paths -> Versions]
      /\ \A q \in Paths : disk[q] \in Nat /\ disk'[q] \in Nat /\ disk[q] <= disk'[q]
  BY LookupAssumption DEF LookupAssumption, LookupInv, Install, Versions
<1>2. \A u \in Tasks : call[u].status = "waiting" => call[u].path \in Paths /\ call[u].since \in Nat
  BY MtimeMonotone DEF LookupInv, Calls, NoCall
<1>3. \A u \in Tasks : call'[u].status = "waiting" => call'[u].since <= disk'[call'[u].path]
  BY <1>1, <1>2 DEF LookupInv, Install
<1> QED
  BY <1>1, <1>3 DEF LookupInv, Install, Answered, Live

(* A module the workers keep, before a step and after it, is the same.     *)
LEMMA ForgetStep ==
  ASSUME LookupInv, Expire \/ \E c \in Cells : Abandon(c)
  PROVE  /\ LookupInv'
         /\ \A c \in keep' : mod'[c] = mod[c]
<1>1. Forget /\ disk' = disk /\ keep' \in SUBSET keep /\ call' = call
  BY DEF Expire, Abandon
<1>2. call' \in [Tasks -> Calls \cup {NoCall}] /\ \A t \in Tasks : call'[t] \in {call[t], NoCall}
  BY <1>1 DEF LookupInv
<1> QED
  BY <1>1, <1>2, Forgotten

-----------------------------------------------------------------------------
(* What the helpers of the actions do to the record of a request.          *)

LEMMA RequestTypes ==
  ASSUME TypeOK, NEW t \in Tasks, req[t].pc # "idle"
  PROVE  /\ req[t] \in Request
         /\ req[t].key \in Keys
         /\ req[t].key[1] \in Dbs /\ req[t].key[2] \in Names
         /\ req[t].since \in [Paths -> Versions]
BY DEF TypeOK, Request, NoRequest, Keys

LEMMA GotoEffect ==
  ASSUME TypeOK, NEW t \in Tasks, req[t].pc # "idle",
         NEW pc \in {"module", "write", "client", "build", "run"}, Goto(t, pc)
  PROVE  /\ req' \in [Tasks -> Request \cup {NoRequest}]
         /\ req'[t].pc = pc
         /\ req'[t].key = req[t].key
         /\ req'[t].worker = req[t].worker
         /\ req'[t].dirs = req[t].dirs
         /\ req'[t].since = req[t].since
         /\ \A u \in Tasks : u # t => req'[u] = req[u]
<1>1. req[t] \in Request
  BY RequestTypes
<1>2. [req[t] EXCEPT !.pc = pc] \in Request
  BY <1>1 DEF Request
<1>3. req'[t] = [req[t] EXCEPT !.pc = pc]
  BY DEF Goto, TypeOK
<1>4. req' \in [Tasks -> Request \cup {NoRequest}]
  BY <1>2, <1>3 DEF Goto, TypeOK
<1> QED
  BY <1>1, <1>3, <1>4 DEF Goto, TypeOK, Request

LEMMA UseWorkerEffect ==
  ASSUME TypeOK, NEW t \in Tasks, req[t].pc # "idle",
         NEW w \in Workers, UseWorker(t, w)
  PROVE  /\ req' \in [Tasks -> Request \cup {NoRequest}]
         /\ req'[t].pc = "store"
         /\ req'[t].key = req[t].key
         /\ req'[t].worker = w
         /\ req'[t].dirs = req[t].dirs
         /\ req'[t].since = req[t].since
         /\ \A u \in Tasks : u # t => req'[u] = req[u]
<1> DEFINE q == [pc |-> "store", key |-> req[t].key, worker |-> w,
                 dirs |-> req[t].dirs, since |-> req[t].since]
<1>1. req[t] \in Request
  BY RequestTypes
<1>2. q \in Request
  BY <1>1 DEF Request
<1>3. [req[t] EXCEPT !.pc = "store", !.worker = w] = q
  <2> DEFINE r == [req[t] EXCEPT !.pc = "store"]
  <2>1. r = [pc |-> "store", key |-> req[t].key, worker |-> req[t].worker,
             dirs |-> req[t].dirs, since |-> req[t].since]
    BY <1>1 DEF Request
  <2> HIDE DEF r
  <2>2. [r EXCEPT !.worker = w] = q
    BY <2>1
  <2> QED
    BY <2>2 DEF r
<1>4. req'[t] = q
  BY <1>3 DEF UseWorker, TypeOK
<1>5. req' \in [Tasks -> Request \cup {NoRequest}]
  BY <1>2, <1>4 DEF UseWorker, TypeOK
<1> QED
  BY <1>4, <1>5 DEF UseWorker, TypeOK

LEMMA AnswerEffect ==
  ASSUME TypeOK, NEW t \in Tasks, Answer(t)
  PROVE  /\ req' \in [Tasks -> Request \cup {NoRequest}]
         /\ req'[t].pc = "idle" /\ req'[t].worker = None
         /\ \A u \in Tasks : u # t => req'[u] = req[u]
BY DEF Answer, TypeOK, NoRequest

(* ... and to that of its call.                                            *)
LEMMA CallEffect ==
  ASSUME LookupInv, NEW t \in Tasks, GiveUp(t) \/ Discard(t) \/ Adopt(t)
  PROVE  /\ call'[t].status = "idle"
         /\ \A u \in Tasks : u # t => call'[u] = call[u]
BY DEF LookupInv, GiveUp, Discard, Adopt, NoCall

-----------------------------------------------------------------------------
(* A step of one request, in which no worker comes or goes, keeps what is  *)
(* said of the others.                                                     *)
LEMMA TaskStep ==
  ASSUME IInv, NEW t \in Tasks,
         LookupInv', \A c \in keep : mod'[c] = mod[c],
         UNCHANGED <<disk, keep, dirVars, workers, worker, built>>,
         clients' \in SUBSET Dbs, halted' \in SUBSET built,
         writer' \in Tasks \cup {None},
         store' \in [Workers -> Tasks \cup {None}],
         req' \in [Tasks -> Request \cup {NoRequest}],
         \A u \in Tasks : u # t =>
           /\ req'[u] = req[u] /\ call'[u] = call[u]
           /\ writer' = u <=> writer = u
           /\ \A w \in Workers : store'[w] = u <=> store[w] = u,
         InHand(t)', RequestInPlace(t)', LocksInPlace(t)', Served(t)'
  PROVE  IInv'
<1>1. \A u \in Tasks : u # t =>
        InHand(u)' /\ RequestInPlace(u)' /\ LocksInPlace(u)'
  <2> TAKE u \in Tasks
  <2> HAVE u # t
  <2>1. InHand(u) /\ RequestInPlace(u) /\ LocksInPlace(u)
    BY DEF IInv, TypeOK
  <2>2. InHand(u)'
    BY <2>1 DEF InHand
  <2>3. RequestInPlace(u)'
    BY <2>1 DEF RequestInPlace, dirVars
  <2>4. LocksInPlace(u)'
    BY <2>1 DEF LocksInPlace, Current
  <2> QED
    BY <2>2, <2>3, <2>4
<1>2. \A w \in built : worker[w].module \in keep
  BY DEF IInv, TypeOK
<1>3. \A u \in Tasks : u # t => Served(u)'
  <2> TAKE u \in Tasks
  <2> HAVE u # t
  <2>1. Served(u) /\ (req[u].worker # None => req[u].worker \in built)
    BY DEF IInv, RequestInPlace
  <2>2. req[u].worker # None =>
          mod'[worker[req[u].worker].module] = mod[worker[req[u].worker].module]
    BY <1>2, <2>1
  <2>3. req'[u] = req[u] /\ worker' = worker
    OBVIOUS
  <2> QED
    BY <2>1, <2>2, <2>3 DEF Served, ServedFrom, ServedSince
<1>4. TypeOK'
  BY <1>1 DEF IInv, TypeOK, dirVars
<1>5. \A w \in built' : WorkerInPlace(w)'
  BY <1>2 DEF IInv, WorkerInPlace
<1>6. \A k \in Keys : Cached(k)'
  BY DEF IInv, Cached
<1> QED
  BY <1>1, <1>3, <1>4, <1>5, <1>6 DEF IInv

(* A request is answered: nothing is left of it.                           *)
LEMMA AnswerStep ==
  ASSUME IInv, NEW t \in Tasks, Answer(t),
         LookupInv', \A c \in keep : mod'[c] = mod[c],
         UNCHANGED <<disk, keep, dirVars, workers, worker, built, clients>>,
         call'[t].status = "idle", \A u \in Tasks : u # t => call'[u] = call[u],
         halted' \in SUBSET built,
         writer' = IF writer = t THEN None ELSE writer,
         store' \in [Workers -> Tasks \cup {None}],
         \A w \in Workers : store'[w] = IF store[w] = t THEN None ELSE store[w]
  PROVE  IInv'
<1>1. /\ req' \in [Tasks -> Request \cup {NoRequest}]
      /\ req'[t].pc = "idle" /\ req'[t].worker = None
      /\ \A u \in Tasks : u # t => req'[u] = req[u]
  BY AnswerEffect DEF IInv
<1>2. InHand(t)' /\ RequestInPlace(t)' /\ LocksInPlace(t)' /\ Served(t)'
  BY <1>1, NoneApart DEF InHand, Returned, RequestInPlace, LocksInPlace, Served
<1>3. clients' \in SUBSET Dbs /\ writer' \in Tasks \cup {None}
  BY DEF IInv, TypeOK
<1>4. \A u \in Tasks : u # t =>
        /\ writer' = u <=> writer = u
        /\ \A w \in Workers : store'[w] = u <=> store[w] = u
  BY NoneApart
<1> QED
  BY <1>1, <1>2, <1>3, <1>4, TaskStep

-----------------------------------------------------------------------------
(* One lemma per action.                                                   *)
LEMMA Parts ==
  ASSUME IInv, NEW t \in Tasks
  PROVE  /\ TypeOK /\ LookupInv
         /\ InHand(t) /\ RequestInPlace(t) /\ LocksInPlace(t) /\ Served(t)
BY DEF IInv, TypeOK

LEMMA LookupStays ==
  ASSUME LookupInv, UNCHANGED lookupVars
  PROVE  LookupInv' /\ UNCHANGED <<disk, keep, mod, call>>
BY DEF lookupVars, LookupInv, Answered, Live

LEMMA HandleKeeps ==
  ASSUME IInv, NEW t \in Tasks, NEW k \in Keys, Handle(t, k)
  PROVE  IInv'
<1> DEFINE r == [pc |-> "dir", key |-> k, worker |-> None,
                 dirs |-> {directories[k[1]]} \ {None}, since |-> disk]
<1>1. TypeOK /\ LookupInv /\ InHand(t) /\ LocksInPlace(t)
  BY Parts
<1>2. req' = [req EXCEPT ![t] = r] /\ req[t].pc = "idle"
      /\ UNCHANGED <<lookupVars, dirVars, poolVars>>
  BY DEF Handle
<1>3. LookupInv' /\ UNCHANGED <<disk, keep, mod, call>>
  BY <1>1, <1>2, LookupStays
<1>4. r \in Request /\ r.pc = "dir" /\ r.key = k /\ r.worker = None
      /\ r.dirs = {directories[k[1]]} \ {None} /\ r.since = disk
  BY <1>1 DEF Request, TypeOK, LookupInv, Keys
<1> HIDE DEF r
<1>5. req' \in [Tasks -> Request \cup {NoRequest}] /\ req'[t] = r
      /\ \A u \in Tasks : u # t => req'[u] = req[u]
  BY <1>1, <1>2, <1>4 DEF TypeOK
<1>6. call[t].status = "idle"
  BY <1>1, <1>2 DEF InHand, Returned
<1>7. InHand(t)'
  BY <1>3, <1>4, <1>5, <1>6 DEF InHand, Returned
<1>8. \A p \in Paths : disk[p] <= disk[p]
  BY <1>1, MtimeMonotone DEF LookupInv
<1>9. RequestInPlace(t)'
  BY <1>2, <1>3, <1>4, <1>5, <1>6, <1>8 DEF RequestInPlace, dirVars
<1>10. LocksInPlace(t)'
  BY <1>1, <1>2, <1>4, <1>5 DEF LocksInPlace, poolVars
<1>11. Served(t)'
  BY <1>4, <1>5 DEF Served
<1>12. /\ clients' \in SUBSET Dbs /\ halted' \in SUBSET built
       /\ writer' \in Tasks \cup {None} /\ store' \in [Workers -> Tasks \cup {None}]
  BY <1>1, <1>2 DEF TypeOK, poolVars
<1>13. UNCHANGED <<disk, keep, dirVars, workers, worker, built, writer, store>>
  BY <1>2, <1>3 DEF poolVars
<1> QED
  BY <1>3, <1>5, <1>7, <1>9, <1>10, <1>11, <1>12, <1>13, TaskStep

LEMMA GetModuleKeeps ==
  ASSUME IInv, NEW t \in Tasks, GetModule(t)
  PROVE  IInv'
<1> DEFINE k == req[t].key
           p == <<directories[k[1]], k[2]>>
<1>1. TypeOK /\ LookupInv /\ InHand(t) /\ RequestInPlace(t) /\ LocksInPlace(t)
  BY Parts
<1>2. /\ req[t].pc = "dir" /\ directories[k[1]] # None
      /\ Ask(t, p) /\ Goto(t, "module") /\ UNCHANGED <<dirVars, poolVars>>
  BY DEF GetModule
<1>3. k \in Keys /\ k[1] \in Dbs /\ k[2] \in Names /\ req[t].since \in [Paths -> Versions]
  BY <1>1, <1>2, RequestTypes
<1>4. p \in Paths /\ p[1] = directories[k[1]] /\ p[2] = k[2] /\ p[1] \in req[t].dirs
  BY <1>1, <1>2, <1>3, NoneApart DEF TypeOK, RequestInPlace
<1>5. /\ req' \in [Tasks -> Request \cup {NoRequest}]
      /\ req'[t].pc = "module" /\ req'[t].key = k
      /\ req'[t].worker = req[t].worker /\ req'[t].dirs = req[t].dirs
      /\ req'[t].since = req[t].since
      /\ \A u \in Tasks : u # t => req'[u] = req[u]
  BY <1>1, <1>2, GotoEffect
<1> HIDE DEF k, p
<1>6. LookupInv'
  BY <1>1, <1>2, <1>4, AskKeeps
<1>7. UNCHANGED <<disk, keep, mod>> /\ \A u \in Tasks : u # t => call'[u] = call[u]
  BY <1>1, <1>2 DEF Ask, LookupInv
<1>8. call'[t].status = "waiting" /\ call'[t].path = p /\ call'[t].since = disk[p]
  BY <1>1, <1>2 DEF Ask, LookupInv
<1>9. InHand(t)'
  BY <1>1, <1>2, <1>5, <1>8 DEF InHand, Returned
<1>10. req[t].since[p] <= disk[p] /\ \A q \in Paths : req[t].since[q] <= disk[q]
  BY <1>1, <1>2, <1>4 DEF RequestInPlace
<1>11. directories' = directories /\ built' = built
  BY <1>2 DEF dirVars, poolVars
<1>12. RequestInPlace(t)'
  BY <1>1, <1>2, <1>4, <1>5, <1>7, <1>8, <1>10, <1>11 DEF RequestInPlace, k
<1>13. LocksInPlace(t)'
  BY <1>1, <1>2, <1>5 DEF LocksInPlace, poolVars
<1>14. req[t].worker = None
  BY <1>1, <1>2 DEF InHand
<1>15. Served(t)'
  BY <1>5, <1>14 DEF Served
<1>16. /\ clients' \in SUBSET Dbs /\ halted' \in SUBSET built
       /\ writer' \in Tasks \cup {None} /\ store' \in [Workers -> Tasks \cup {None}]
  BY <1>1, <1>2 DEF TypeOK, poolVars
<1>17. UNCHANGED <<disk, keep, dirVars, workers, worker, built, writer, store>>
  BY <1>2, <1>7 DEF poolVars
<1> QED
  BY <1>5, <1>6, <1>7, <1>9, <1>12, <1>13, <1>15, <1>16, <1>17, TaskStep

(* A request that is not in a guest, nor about to build a worker, holds no *)
(* lock, so that releasing its locks changes nothing.                      *)
LEMMA HoldsNothing ==
  ASSUME IInv, NEW t \in Tasks
  PROVE  /\ req[t].pc \notin {"client", "build"} => writer # t
         /\ req[t].pc # "run" => \A w \in Workers : store[w] # t
BY Parts DEF LocksInPlace

LEMMA NoDirectoryKeeps ==
  ASSUME IInv, NEW t \in Tasks, NoDirectory(t)
  PROVE  IInv'
<1>1. TypeOK /\ LookupInv /\ InHand(t)
  BY Parts
<1>2. req[t].pc = "dir" /\ Answer(t) /\ UNCHANGED <<lookupVars, dirVars, poolVars>>
  BY DEF NoDirectory
<1>3. LookupInv' /\ UNCHANGED <<disk, keep, mod, call>>
  BY <1>1, <1>2, LookupStays
<1>4. writer # t /\ \A w \in Workers : store[w] # t
  BY <1>2, HoldsNothing
<1>5. call[t].status = "idle"
  BY <1>1, <1>2 DEF InHand, Returned
<1>6. UNCHANGED <<dirVars, workers, worker, built, clients, halted, writer, store>>
  BY <1>2 DEF poolVars
<1>7. halted \in SUBSET built /\ store \in [Workers -> Tasks \cup {None}]
  BY <1>1 DEF TypeOK
<1> QED
  BY <1>2, <1>3, <1>4, <1>5, <1>6, <1>7, AnswerStep

LEMMA ModuleErrorKeeps ==
  ASSUME IInv, NEW t \in Tasks, ModuleError(t)
  PROVE  IInv'
<1>1. TypeOK /\ LookupInv /\ InHand(t)
  BY Parts
<1>2. GiveUp(t) /\ Answer(t) /\ UNCHANGED <<dirVars, poolVars>>
  BY DEF ModuleError
<1>3. LookupInv' /\ UNCHANGED <<disk, keep>> /\ \A c \in keep : mod'[c] = mod[c]
  BY <1>1, <1>2, EndedKeeps DEF GiveUp
<1>4. call[t].status = "waiting" /\ call'[t].status = "idle"
      /\ \A u \in Tasks : u # t => call'[u] = call[u]
  BY <1>1, <1>2, CallEffect DEF GiveUp
<1>5. writer # t /\ \A w \in Workers : store[w] # t
  BY <1>1, <1>4, HoldsNothing DEF InHand, Returned
<1>6. UNCHANGED <<dirVars, workers, worker, built, clients, halted, writer, store>>
  BY <1>2 DEF poolVars
<1>7. halted \in SUBSET built /\ store \in [Workers -> Tasks \cup {None}]
  BY <1>1 DEF TypeOK
<1> QED
  BY <1>2, <1>3, <1>4, <1>5, <1>6, <1>7, AnswerStep

LEMMA BuildFailKeepsIt ==
  ASSUME IInv, NEW t \in Tasks, BuildFail(t)
  PROVE  IInv'
<1>1. TypeOK /\ LookupInv /\ LocksInPlace(t)
  BY Parts
<1>2. /\ req[t].pc \in {"client", "build"} /\ writer' = None /\ Discard(t) /\ Answer(t)
      /\ UNCHANGED <<dirVars, clients, workers, worker, built, halted, store>>
  BY DEF BuildFail
<1>3. LookupInv' /\ UNCHANGED <<disk, keep>> /\ \A c \in keep : mod'[c] = mod[c]
  BY <1>1, <1>2, EndedKeeps DEF Discard
<1>4. call'[t].status = "idle" /\ \A u \in Tasks : u # t => call'[u] = call[u]
  BY <1>1, <1>2, CallEffect
<1>5. writer = t /\ \A w \in Workers : store[w] # t
  BY <1>1, <1>2, HoldsNothing DEF LocksInPlace
<1>6. halted \in SUBSET built /\ store \in [Workers -> Tasks \cup {None}]
  BY <1>1 DEF TypeOK
<1> QED
  BY <1>2, <1>3, <1>4, <1>5, <1>6, AnswerStep

LEMMA GuestDoneKeeps ==
  ASSUME IInv, NEW t \in Tasks, Respond(t) \/ Trap(t)
  PROVE  IInv'
<1>1. TypeOK /\ LookupInv /\ InHand(t) /\ LocksInPlace(t) /\ RequestInPlace(t)
  BY Parts
<1>2. /\ req[t].pc = "run" /\ Answer(t)
      /\ store' = [store EXCEPT ![req[t].worker] = None]
      /\ halted' \in {halted, halted \cup {req[t].worker}}
      /\ UNCHANGED <<lookupVars, dirVars, clients, workers, worker, built, writer>>
  BY DEF Respond, Trap
<1>3. LookupInv' /\ UNCHANGED <<disk, keep, mod, call>>
  BY <1>1, <1>2, LookupStays
<1>4. call[t].status = "idle"
  BY <1>1, <1>2 DEF InHand, Returned
<1>5. writer # t
  BY <1>2, HoldsNothing
<1>6. req[t].worker \in built /\ req[t].worker \in Workers /\ halted' \in SUBSET built
  BY <1>1, <1>2 DEF TypeOK, InHand, RequestInPlace
<1>7. \A w \in Workers : store[w] = t <=> req[t].worker = w
  BY <1>1, <1>2 DEF LocksInPlace
<1>8. /\ store' \in [Workers -> Tasks \cup {None}]
      /\ \A w \in Workers : store'[w] = IF store[w] = t THEN None ELSE store[w]
  BY <1>1, <1>2, <1>7 DEF TypeOK
<1> QED
  BY <1>2, <1>3, <1>4, <1>5, <1>6, <1>8, AnswerStep

LEMMA HangUpKeeps ==
  ASSUME IInv, NEW t \in Tasks, HangUp(t)
  PROVE  IInv'
<1>1. TypeOK /\ LookupInv /\ InHand(t) /\ RequestInPlace(t)
  BY Parts
<1>2. /\ Answer(t)
      /\ writer' = IF writer = t THEN None ELSE writer
      /\ store' = [w \in Workers |-> IF store[w] = t THEN None ELSE store[w]]
      /\ halted' = IF req[t].pc = "run" THEN halted \cup {req[t].worker} ELSE halted
      /\ UNCHANGED <<dirVars, clients, workers, worker, built>>
  BY DEF HangUp
<1>3. \/ GiveUp(t) \/ Discard(t)
      \/ UNCHANGED lookupVars /\ call[t].status \notin {"waiting", "returned"}
  BY DEF HangUp
<1>4. /\ LookupInv' /\ UNCHANGED <<disk, keep>> /\ \A c \in keep : mod'[c] = mod[c]
      /\ call'[t].status = "idle" /\ \A u \in Tasks : u # t => call'[u] = call[u]
  <2>1. CASE GiveUp(t) \/ Discard(t)
    BY <1>1, <2>1, EndedKeeps, CallEffect DEF GiveUp, Discard
  <2>2. CASE UNCHANGED lookupVars /\ call[t].status \notin {"waiting", "returned"}
    <3>1. LookupInv' /\ UNCHANGED <<disk, keep, mod, call>>
      BY <1>1, <2>2, LookupStays
    <3>2. call[t].status = "idle"
      BY <1>1, <2>2 DEF LookupInv, Calls, NoCall
    <3> QED
      BY <3>1, <3>2
  <2> QED
    BY <1>3, <2>1, <2>2
<1>5. halted' \in SUBSET built
  BY <1>1, <1>2 DEF TypeOK, InHand, RequestInPlace
<1>6. /\ store' \in [Workers -> Tasks \cup {None}]
      /\ \A w \in Workers : store'[w] = IF store[w] = t THEN None ELSE store[w]
  BY <1>1, <1>2 DEF TypeOK
<1> QED
  BY <1>2, <1>4, <1>5, <1>6, AnswerStep

(* A request goes on to its next point, with its call where it was.        *)
LEMMA MoveStep ==
  ASSUME IInv, NEW t \in Tasks,
         NEW pc \in {"write", "client", "build", "run"}, Goto(t, pc),
         UNCHANGED <<lookupVars, dirVars, workers, worker, built, halted>>,
         pc = "run" <=> req[t].pc = "store",
         pc \in Returned => call[t].status = "returned",
         clients' \in SUBSET Dbs,
         writer' \in Tasks \cup {None},
         store' \in [Workers -> Tasks \cup {None}],
         \A u \in Tasks : u # t =>
           /\ writer' = u <=> writer = u
           /\ \A w \in Workers : store'[w] = u <=> store[w] = u,
         writer' = t <=> pc \in {"client", "build"},
         \A w \in Workers : store'[w] = t <=> pc = "run" /\ req[t].worker = w,
         pc \in {"client", "build"} => ~ Current(t),
         req[t].pc \in {"module", "store"} \cup Returned
  PROVE  IInv'
<1>1. /\ TypeOK /\ LookupInv
      /\ InHand(t) /\ RequestInPlace(t) /\ LocksInPlace(t) /\ Served(t)
  BY Parts
<1>2. LookupInv' /\ UNCHANGED <<disk, keep, mod, call>>
  BY <1>1, LookupStays
<1>3. /\ req' \in [Tasks -> Request \cup {NoRequest}]
      /\ req'[t].pc = pc
      /\ req'[t].key = req[t].key
      /\ req'[t].worker = req[t].worker
      /\ req'[t].dirs = req[t].dirs
      /\ req'[t].since = req[t].since
      /\ \A u \in Tasks : u # t => req'[u] = req[u]
  BY <1>1, GotoEffect DEF Returned
<1>4. InHand(t)'
  BY <1>1, <1>2, <1>3 DEF InHand, Returned
<1>5. RequestInPlace(t)'
  BY <1>1, <1>2, <1>3 DEF RequestInPlace, dirVars, Returned
<1>6. LocksInPlace(t)'
  <2>1. Current(t)' <=> Current(t)
    BY <1>2, <1>3 DEF Current
  <2>2. writer' = t => ~ Current(t)'
    BY <2>1
  <2>3. \A w \in Workers : store'[w] = t <=> req'[t].pc = "run" /\ req'[t].worker = w
    BY <1>3
  <2> QED
    BY <1>3, <2>2, <2>3 DEF LocksInPlace
<1>7. Served(t)'
  BY <1>1, <1>2, <1>3 DEF Served, ServedFrom, ServedSince
<1>8. halted' \in SUBSET built
  BY <1>1 DEF TypeOK
<1>9. \A u \in Tasks : u # t =>
           /\ req'[u] = req[u] /\ call'[u] = call[u]
           /\ writer' = u <=> writer = u
           /\ \A w \in Workers : store'[w] = u <=> store[w] = u
  BY <1>2, <1>3
<1> QED
  BY <1>2, <1>3, <1>4, <1>5, <1>6, <1>7, <1>8, <1>9, TaskStep

(* The module a call has been answered with is fit to serve the request.   *)
LEMMA ModuleFits ==
  ASSUME IInv, NEW t \in Tasks, call[t].status = "returned"
  PROVE  LET m == mod[call[t].module]
         IN  /\ call[t].module \in Cells /\ m.path \in Paths
             /\ m.path[1] \in req[t].dirs
             /\ m.path[2] = req[t].key[2]
             /\ Mtime[req[t].since[m.path]] <= Mtime[m.src]
<1> DEFINE m == mod[call[t].module]
<1>1. TypeOK /\ LookupInv /\ InHand(t) /\ RequestInPlace(t)
  BY Parts
<1>2. Answered(t) /\ call[t].path \in Paths /\ call[t].since \in Versions
      /\ call[t].module \in Cells
  BY <1>1 DEF LookupInv, Calls, NoCall
<1>3. m.path = call[t].path /\ Mtime[call[t].since] <= Mtime[m.src] /\ m \in Modules
  BY <1>1, <1>2 DEF Answered, LookupInv, Live
<1>4. m.src \in Versions
  BY <1>3 DEF Modules
<1> HIDE DEF m
<1>5. req[t].pc # "idle"
  BY <1>1 DEF InHand, Returned
<1>6. req[t].since[m.path] \in Versions
  BY <1>1, <1>2, <1>3, <1>5, RequestTypes
<1>7. req[t].since[m.path] <= call[t].since
  BY <1>1, <1>3 DEF RequestInPlace
<1>8. Mtime[req[t].since[m.path]] <= Mtime[call[t].since]
  BY <1>2, <1>6, <1>7, MtimeMonotone
<1>9. Mtime[req[t].since[m.path]] <= Mtime[m.src]
  BY <1>2, <1>3, <1>4, <1>6, <1>8, MtimeMonotone
<1> QED
  BY <1>1, <1>2, <1>3, <1>9 DEF RequestInPlace, m

(* The worker in the map runs that module: the request takes it.           *)
LEMMA TakeWorkerKeeps ==
  ASSUME IInv, NEW t \in Tasks, req[t].pc \in {"module", "write"},
         call[t].status = "returned", Current(t),
         UseWorker(t, workers[req[t].key]), Discard(t),
         UNCHANGED <<dirVars, poolVars>>
  PROVE  IInv'
<1> DEFINE w == workers[req[t].key]
<1>1. TypeOK /\ LookupInv /\ InHand(t) /\ RequestInPlace(t) /\ LocksInPlace(t)
  BY Parts
<1>2. req[t].key \in Keys
  BY <1>1, RequestTypes
<1>3. /\ w \in Workers /\ w \in built /\ worker[w].key = req[t].key
      /\ worker[w].module = call[t].module
  BY <1>1, <1>2 DEF Current, IInv, Cached, TypeOK
<1>4. /\ req' \in [Tasks -> Request \cup {NoRequest}]
      /\ req'[t].pc = "store"
      /\ req'[t].key = req[t].key
      /\ req'[t].worker = w
      /\ req'[t].dirs = req[t].dirs
      /\ req'[t].since = req[t].since
      /\ \A u \in Tasks : u # t => req'[u] = req[u]
  BY <1>1, <1>3, UseWorkerEffect
<1>5. LookupInv' /\ UNCHANGED <<disk, keep>> /\ \A c \in keep : mod'[c] = mod[c]
  BY <1>1, EndedKeeps DEF Discard
<1>6. call'[t].status = "idle" /\ \A u \in Tasks : u # t => call'[u] = call[u]
  BY <1>1, CallEffect
<1>7. UNCHANGED <<directories, clients, workers, worker, built, halted, writer, store>>
  BY DEF poolVars, dirVars
<1>8. worker[w].module \in keep
  BY <1>1, <1>3 DEF TypeOK
<1> HIDE DEF w
<1>9. InHand(t)'
  BY <1>3, <1>4, <1>6, NoneApart DEF InHand, Returned
<1>10. RequestInPlace(t)'
  BY <1>1, <1>3, <1>4, <1>5, <1>6, <1>7 DEF RequestInPlace
<1>11. LocksInPlace(t)'
  BY <1>1, <1>4, <1>7 DEF LocksInPlace
<1>12. Served(t)'
  <2>1. mod'[worker'[w].module] = mod[call[t].module]
    BY <1>3, <1>5, <1>7, <1>8
  <2>2. ServedFrom(t)'
    BY <1>3, <1>4, <1>7, <2>1, ModuleFits DEF ServedFrom
  <2>3. ServedSince(t)'
    BY <1>4, <2>1, ModuleFits DEF ServedSince
  <2> QED
    BY <2>2, <2>3 DEF Served
<1>13. /\ clients' \in SUBSET Dbs /\ halted' \in SUBSET built
       /\ writer' \in Tasks \cup {None} /\ store' \in [Workers -> Tasks \cup {None}]
  BY <1>1, <1>7 DEF TypeOK
<1>14. \A u \in Tasks : u # t =>
           /\ req'[u] = req[u] /\ call'[u] = call[u]
           /\ writer' = u <=> writer = u
           /\ \A v \in Workers : store'[v] = u <=> store[v] = u
  BY <1>4, <1>6, <1>7
<1> QED
  BY <1>4, <1>5, <1>7, <1>9, <1>10, <1>11, <1>12, <1>13, <1>14, TaskStep

LEMMA ModuleFoundKeeps ==
  ASSUME IInv, NEW t \in Tasks, ModuleFound(t)
  PROVE  IInv'
<1>1. /\ TypeOK /\ LookupInv
      /\ InHand(t) /\ RequestInPlace(t) /\ LocksInPlace(t) /\ Served(t)
  BY Parts
<1>2. call[t].status = "waiting" /\ UNCHANGED <<disk, keep>> /\ UNCHANGED workerVars
  BY DEF ModuleFound, AnswerShared, AnswerLoaded
<1>3. LookupInv' /\ \A c \in keep : mod'[c] = mod[c]
  BY <1>1, AnswerSharedKeeps, AnswerLoadedKeeps DEF ModuleFound, AnswerShared
<1>4. PICK c \in Cells : call' = [call EXCEPT ![t].status = "returned", ![t].module = c]
  BY DEF ModuleFound, AnswerShared, AnswerLoaded, Live
<1>5. /\ call'[t].status = "returned"
      /\ call'[t].path = call[t].path
      /\ call'[t].since = call[t].since
      /\ \A u \in Tasks : u # t => call'[u] = call[u]
  BY <1>1, <1>2, <1>4, AnsweredEffect
<1>6. req[t].pc = "module" /\ req[t].worker = None
  BY <1>1, <1>2 DEF InHand, Returned
<1>7. UNCHANGED <<dirVars, directories, clients, workers, worker, built, halted, writer, store, req>>
  BY <1>2 DEF workerVars, dirVars
<1>8. InHand(t)'
  BY <1>1, <1>5, <1>6, <1>7 DEF InHand, Returned
<1>9. RequestInPlace(t)'
  BY <1>1, <1>2, <1>5, <1>6, <1>7 DEF RequestInPlace
<1>10. LocksInPlace(t)'
  BY <1>1, <1>6, <1>7 DEF LocksInPlace
<1>11. Served(t)'
  BY <1>6, <1>7 DEF Served
<1>12. /\ clients' \in SUBSET Dbs /\ halted' \in SUBSET built
       /\ writer' \in Tasks \cup {None} /\ store' \in [Workers -> Tasks \cup {None}]
       /\ req' \in [Tasks -> Request \cup {NoRequest}]
  BY <1>1, <1>7 DEF TypeOK
<1> QED
  BY <1>2, <1>3, <1>5, <1>7, <1>8, <1>9, <1>10, <1>11, <1>12, TaskStep

LEMMA ReadWorkersKeeps ==
  ASSUME IInv, NEW t \in Tasks, ReadWorkers(t)
  PROVE  IInv'
<1>1. /\ req[t].pc = "module" /\ call[t].status = "returned" /\ writer = None
      /\ UNCHANGED <<dirVars, poolVars>>
  BY DEF ReadWorkers
<1>2. CASE Current(t) /\ UseWorker(t, workers[req[t].key]) /\ Discard(t)
  BY <1>1, <1>2, TakeWorkerKeeps
<1>3. CASE Goto(t, "write") /\ UNCHANGED lookupVars
  <2>1. TypeOK
    BY Parts
  <2>2. UNCHANGED <<lookupVars, dirVars, workers, worker, built, halted, clients, writer, store>>
    BY <1>1, <1>3 DEF poolVars
  <2>3. /\ clients' \in SUBSET Dbs /\ writer' \in Tasks \cup {None}
        /\ store' \in [Workers -> Tasks \cup {None}]
    BY <2>1, <2>2 DEF TypeOK
  <2>4. writer' # t /\ \A w \in Workers : store'[w] # t
    BY <1>1, <2>2, HoldsNothing
  <2> QED
    BY <1>1, <1>3, <2>2, <2>3, <2>4, MoveStep DEF Returned
<1> QED
  BY <1>2, <1>3 DEF ReadWorkers

LEMMA LockWorkersKeeps ==
  ASSUME IInv, NEW t \in Tasks, LockWorkers(t)
  PROVE  IInv'
<1>1. /\ req[t].pc = "write" /\ writer = None
      /\ UNCHANGED <<dirVars, clients, workers, worker, built, halted, store>>
  BY DEF LockWorkers
<1>2. TypeOK /\ InHand(t)
  BY Parts
<1>3. call[t].status = "returned"
  BY <1>1, <1>2 DEF InHand, Returned
<1>4. CASE Current(t) /\ UseWorker(t, workers[req[t].key]) /\ Discard(t) /\ UNCHANGED writer
  <2>1. UNCHANGED <<dirVars, poolVars>>
    BY <1>1, <1>4 DEF poolVars
  <2> QED
    BY <1>1, <1>3, <1>4, <2>1, TakeWorkerKeeps
<1>5. CASE ~Current(t) /\ writer' = t /\ Goto(t, "client") /\ UNCHANGED lookupVars
  <2>1. /\ clients' \in SUBSET Dbs /\ writer' \in Tasks \cup {None}
        /\ store' \in [Workers -> Tasks \cup {None}]
    BY <1>1, <1>2, <1>5 DEF TypeOK
  <2>2. \A u \in Tasks : u # t => (writer' = u <=> writer = u)
    BY <1>1, <1>5, NoneApart
  <2>3. \A w \in Workers : store'[w] # t
    BY <1>1, HoldsNothing
  <2> QED
    BY <1>1, <1>3, <1>5, <2>1, <2>2, <2>3, MoveStep DEF Returned
<1> QED
  BY <1>4, <1>5 DEF LockWorkers

LEMMA GetClientKeeps ==
  ASSUME IInv, NEW t \in Tasks, GetClient(t)
  PROVE  IInv'
<1>1. /\ req[t].pc = "client" /\ clients' = clients \cup {req[t].key[1]} /\ Goto(t, "build")
      /\ UNCHANGED <<lookupVars, dirVars, workers, worker, built, halted, writer, store>>
  BY DEF GetClient
<1>2. TypeOK /\ InHand(t) /\ LocksInPlace(t)
  BY Parts
<1>3. call[t].status = "returned" /\ writer = t /\ ~ Current(t)
  BY <1>1, <1>2 DEF InHand, LocksInPlace, Returned
<1>4. clients' \in SUBSET Dbs
  BY <1>1, <1>2, RequestTypes DEF TypeOK
<1>5. writer' \in Tasks \cup {None} /\ store' \in [Workers -> Tasks \cup {None}]
  BY <1>1, <1>2 DEF TypeOK
<1>6. \A w \in Workers : store'[w] # t
  BY <1>1, HoldsNothing
<1> QED
  BY <1>1, <1>3, <1>4, <1>5, <1>6, MoveStep DEF Returned

LEMMA TakeStoreKeeps ==
  ASSUME IInv, NEW t \in Tasks, TakeStore(t)
  PROVE  IInv'
<1> DEFINE v == req[t].worker
<1>1. /\ req[t].pc = "store" /\ store[v] = None /\ store' = [store EXCEPT ![v] = t]
      /\ Goto(t, "run")
      /\ UNCHANGED <<lookupVars, dirVars, clients, workers, worker, built, halted, writer>>
  BY DEF TakeStore
<1>2. TypeOK /\ InHand(t)
  BY Parts
<1>3. v \in Workers
  BY <1>1, <1>2, RequestTypes DEF InHand, Request
<1>4. writer # t /\ \A w \in Workers : store[w] # t
  BY <1>1, HoldsNothing
<1> HIDE DEF v
<1>5. \A w \in Workers :
        /\ store'[w] = t <=> v = w
        /\ \A u \in Tasks : u # t => (store'[w] = u <=> store[w] = u)
  BY <1>1, <1>2, <1>3, <1>4, NoneApart DEF TypeOK
<1>6. /\ clients' \in SUBSET Dbs /\ writer' \in Tasks \cup {None}
      /\ store' \in [Workers -> Tasks \cup {None}]
  BY <1>1, <1>2 DEF TypeOK
<1>7. \A w \in Workers : store'[w] = t <=> "run" = "run" /\ req[t].worker = w
  BY <1>5 DEF v
<1> QED
  BY <1>1, <1>4, <1>5, <1>6, <1>7, MoveStep DEF Returned

(* A new worker takes the place of the one of its name.  It is built while *)
(* the others are locked out.                                              *)
LEMMA BuildWorkerKeeps ==
  ASSUME IInv, NEW t \in Tasks, BuildWorker(t)
  PROVE  IInv'
<1> DEFINE k == req[t].key
           w == CHOOSE v \in Workers : v \notin built
           c == call[t].module
<1>1. /\ TypeOK /\ LookupInv
      /\ InHand(t) /\ RequestInPlace(t) /\ LocksInPlace(t)
  BY Parts
<1>2. /\ req[t].pc = "build" /\ built # Workers
      /\ worker' = [worker EXCEPT ![w] = [key |-> k, module |-> c]]
      /\ built' = built \cup {w}
      /\ workers' = [workers EXCEPT ![k] = w]
      /\ UseWorker(t, w) /\ writer' = None /\ Adopt(t)
      /\ UNCHANGED <<dirVars, clients, halted, store>>
  BY DEF BuildWorker
<1>3. w \in Workers /\ w \notin built
  BY <1>1, <1>2 DEF TypeOK
<1>4. call[t].status = "returned" /\ writer = t /\ c \in Cells /\ k \in Keys
  BY <1>1, <1>2, ModuleFits, RequestTypes DEF Adopt, LocksInPlace
<1>5. /\ mod[c].path[1] \in req[t].dirs /\ mod[c].path[2] = k[2]
      /\ Mtime[req[t].since[mod[c].path]] <= Mtime[mod[c].src]
  BY <1>4, ModuleFits
<1>6. /\ req' \in [Tasks -> Request \cup {NoRequest}]
      /\ req'[t].pc = "store"
      /\ req'[t].key = k
      /\ req'[t].worker = w
      /\ req'[t].dirs = req[t].dirs
      /\ req'[t].since = req[t].since
      /\ \A u \in Tasks : u # t => req'[u] = req[u]
  BY <1>1, <1>2, <1>3, UseWorkerEffect
<1>7. LookupInv' /\ UNCHANGED <<disk, mod>> /\ keep' = keep \cup {c}
      /\ call'[t].status = "idle" /\ \A u \in Tasks : u # t => call'[u] = call[u]
  BY <1>1, <1>2, AdoptKeeps, CallEffect DEF Adopt
<1> HIDE DEF k, w, c
<1>8. /\ worker' \in [Workers -> [key : Keys \cup {None}, module : Cells \cup {None}]]
      /\ worker'[w].key = k /\ worker'[w].module = c
      /\ \A v \in Workers : v # w => worker'[v] = worker[v]
  BY <1>1, <1>2, <1>3, <1>4 DEF TypeOK
<1>9. /\ workers' \in [Keys -> Workers \cup {None}]
      /\ workers'[k] = w /\ \A j \in Keys : j # k => workers'[j] = workers[j]
  BY <1>1, <1>2, <1>3, <1>4 DEF TypeOK
<1>10. UNCHANGED <<mode, directories, setter, clients, halted, store>>
  BY <1>2 DEF dirVars
<1>11. built \in SUBSET Workers
  BY <1>1 DEF TypeOK
<1>12. InHand(t)' /\ RequestInPlace(t)' /\ LocksInPlace(t)' /\ Served(t)'
  <2>1. InHand(t)'
    BY <1>3, <1>6, <1>7, NoneApart DEF InHand, Returned
  <2>2. RequestInPlace(t)'
    BY <1>1, <1>2, <1>6, <1>7, <1>10 DEF RequestInPlace, k
  <2>3. \A v \in Workers : store[v] # t
    BY <1>2, HoldsNothing
  <2>4. LocksInPlace(t)'
    BY <1>2, <1>6, <1>10, <2>3, NoneApart DEF LocksInPlace
  <2>5. Served(t)'
    BY <1>5, <1>6, <1>7, <1>8 DEF Served, ServedFrom, ServedSince
  <2> QED
    BY <2>1, <2>2, <2>4, <2>5
<1>13. \A u \in Tasks : u # t => InHand(u)' /\ RequestInPlace(u)' /\ LocksInPlace(u)' /\ Served(u)'
  <2> TAKE u \in Tasks
  <2> HAVE u # t
  <2>1. InHand(u) /\ RequestInPlace(u) /\ LocksInPlace(u) /\ Served(u)
    BY Parts
  <2>2. req'[u] = req[u] /\ call'[u] = call[u]
    BY <1>6, <1>7
  <2>3. InHand(u)'
    BY <2>1, <2>2 DEF InHand
  <2>4. RequestInPlace(u)'
    BY <1>2, <1>7, <1>10, <2>1, <2>2 DEF RequestInPlace
  <2>5. LocksInPlace(u)'
    BY <1>2, <1>4, <1>10, <2>1, <2>2, NoneApart DEF LocksInPlace
  <2>6. req[u].worker # None => worker'[req[u].worker] = worker[req[u].worker]
    BY <1>3, <1>8, <1>11, <2>1 DEF RequestInPlace
  <2>7. Served(u)'
    BY <1>7, <2>1, <2>2, <2>6 DEF Served, ServedFrom, ServedSince
  <2> QED
    BY <2>3, <2>4, <2>5, <2>7
<1>14. TypeOK'
  <2>1. keep' = {worker'[v].module : v \in built'}
    <3>1. keep = {worker[v].module : v \in built}
      BY <1>1 DEF TypeOK
    <3>2. \A v \in built : worker'[v] = worker[v]
      BY <1>3, <1>8, <1>11
    <3> QED
      BY <1>2, <1>7, <1>8, <3>1, <3>2
  <2>2. halted' \in SUBSET built' /\ built' \in SUBSET Workers /\ writer' \in Tasks \cup {None}
    BY <1>1, <1>2, <1>3 DEF TypeOK
  <2>3. \A u \in Tasks : InHand(u)'
    BY <1>12, <1>13
  <2> QED
    BY <1>1, <1>6, <1>8, <1>9, <1>10, <2>1, <2>2, <2>3 DEF TypeOK
<1>15. \A v \in built' : WorkerInPlace(v)'
  <2>1. \A v \in Workers : v = w => WorkerInPlace(v)'
    BY <1>4, <1>5, <1>7, <1>8 DEF WorkerInPlace
  <2>2. \A v \in built : WorkerInPlace(v)'
    BY <1>3, <1>7, <1>8, <1>11 DEF IInv, WorkerInPlace
  <2> QED
    BY <1>2, <1>3, <2>1, <2>2
<1>16. \A j \in Keys : Cached(j)'
  BY <1>2, <1>3, <1>8, <1>9, <1>11 DEF IInv, Cached
<1> QED
  BY <1>7, <1>12, <1>13, <1>14, <1>15, <1>16 DEF IInv

(* Only what is in nobody's hands goes away.                               *)
LEMMA DropWorkerKeeps ==
  ASSUME IInv, NEW w \in Workers, DropWorker(w)
  PROVE  IInv'
<1> DEFINE c == worker[w].module
<1>1. TypeOK /\ LookupInv
  BY DEF IInv
<1>2. /\ w \in built /\ ~InMap(w) /\ ~Held(w)
      /\ built' = built \ {w} /\ halted' = halted \ {w}
      /\ worker' = [worker EXCEPT ![w] = [key |-> None, module |-> None]]
      /\ UNCHANGED <<dirVars, clients, workers, writer, store, req>>
  BY DEF DropWorker
<1>3. /\ worker' \in [Workers -> [key : Keys \cup {None}, module : Cells \cup {None}]]
      /\ \A v \in Workers : v # w => worker'[v] = worker[v]
  BY <1>1, <1>2 DEF TypeOK
<1>4. c \in Cells
  BY <1>2 DEF IInv, WorkerInPlace
<1>5. \/ (\E v \in built' : worker[v].module = c) /\ UNCHANGED lookupVars
      \/ (~\E v \in built' : worker[v].module = c) /\ Abandon(c)
  BY <1>2 DEF DropWorker
<1>6. LookupInv' /\ UNCHANGED <<disk, call>> /\ \A d \in keep' : mod'[d] = mod[d]
  BY <1>1, <1>4, <1>5, LookupStays, ForgetStep DEF Abandon
<1>7. keep' = {worker'[v].module : v \in built'}
  <2>1. keep = {worker[v].module : v \in built} /\ built \in SUBSET Workers
    BY <1>1 DEF TypeOK
  <2>2. \A v \in built' : v \in built /\ worker'[v] = worker[v]
    BY <1>2, <1>3, <2>1
  <2>3. CASE (\E v \in built' : worker[v].module = c) /\ UNCHANGED lookupVars
    BY <1>2, <2>1, <2>2, <2>3 DEF lookupVars
  <2>4. CASE (~\E v \in built' : worker[v].module = c) /\ Abandon(c)
    BY <1>2, <2>1, <2>2, <2>4 DEF Abandon
  <2> QED
    BY <1>5, <2>3, <2>4
<1> HIDE DEF c
<1>8. UNCHANGED <<mode, directories, setter, clients, workers, writer, store, req>>
  BY <1>2 DEF dirVars
<1>9. \A t \in Tasks : InHand(t)' /\ RequestInPlace(t)' /\ LocksInPlace(t)' /\ Served(t)'
  <2> TAKE t \in Tasks
  <2>1. InHand(t) /\ RequestInPlace(t) /\ LocksInPlace(t) /\ Served(t)
    BY Parts
  <2>2. InHand(t)'
    BY <1>6, <1>8, <2>1 DEF InHand
  <2>3. req[t].worker # None => req[t].worker \in built' /\ worker'[req[t].worker] = worker[req[t].worker]
    BY <1>1, <1>2, <1>3, <2>1 DEF RequestInPlace, Held, TypeOK
  <2>4. RequestInPlace(t)'
    BY <1>6, <1>8, <2>1, <2>3 DEF RequestInPlace
  <2>5. LocksInPlace(t)'
    <3>1. ASSUME writer = t  PROVE ~ Current(t)'
      <4>1. req[t].key \in Keys /\ ~ Current(t)
        BY <1>1, <2>1, <3>1, RequestTypes DEF LocksInPlace
      <4>2. workers[req[t].key] # None =>
              worker'[workers[req[t].key]] = worker[workers[req[t].key]]
        BY <1>1, <1>2, <1>3, <4>1 DEF IInv, Cached, InMap, TypeOK
      <4> QED
        BY <1>6, <1>8, <4>1, <4>2 DEF Current
    <3> QED
      BY <1>8, <2>1, <3>1 DEF LocksInPlace
  <2>6. req[t].worker # None =>
          mod'[worker[req[t].worker].module] = mod[worker[req[t].worker].module]
    BY <1>6, <1>7, <2>3
  <2>7. Served(t)'
    BY <1>8, <2>1, <2>3, <2>6 DEF Served, ServedFrom, ServedSince
  <2> QED
    BY <2>2, <2>4, <2>5, <2>7
<1>10. TypeOK'
  <2>1. halted' \in SUBSET built' /\ built' \in SUBSET Workers
    BY <1>1, <1>2 DEF TypeOK
  <2> QED
    BY <1>1, <1>3, <1>7, <1>8, <1>9, <2>1 DEF TypeOK
<1>11. \A v \in built' : WorkerInPlace(v)'
  <2> TAKE v \in built'
  <2>1. v \in built /\ WorkerInPlace(v) /\ worker'[v] = worker[v]
    BY <1>1, <1>2, <1>3 DEF IInv, TypeOK
  <2> QED
    BY <1>6, <1>7, <2>1 DEF WorkerInPlace
<1>12. \A j \in Keys : Cached(j)'
  BY <1>1, <1>2, <1>3, <1>8 DEF IInv, Cached, InMap, TypeOK
<1> QED
  BY <1>6, <1>9, <1>10, <1>11, <1>12 DEF IInv

(* Every request of the database may be served from the new directory.     *)
LEMMA SetDirectoryKeeps ==
  ASSUME IInv, NEW s \in Setters, NEW db \in Dbs, NEW dir \in Dirs, SetDirectory(s, db, dir)
  PROVE  IInv'
<1>1. TypeOK /\ LookupInv
  BY DEF IInv
<1>2. /\ directories' = [directories EXCEPT ![db] = dir]
      /\ setter' = [setter EXCEPT ![s] = [db |-> db, dir |-> dir]]
      /\ req' = [t \in Tasks |-> IF req[t].pc # "idle" /\ req[t].key[1] = db
                                   THEN [req[t] EXCEPT !.dirs = @ \cup {dir}] ELSE req[t]]
      /\ UNCHANGED <<lookupVars, mode, poolVars>>
  BY DEF SetDirectory
<1>3. LookupInv' /\ UNCHANGED <<disk, keep, mod, call>>
  BY <1>1, <1>2, LookupStays
<1>4. UNCHANGED <<clients, workers, worker, built, halted, writer, store>>
  BY <1>2 DEF poolVars
<1>5. \A t \in Tasks :
        /\ req'[t] \in Request \cup {NoRequest}
        /\ req'[t].pc = req[t].pc
        /\ req'[t].key = req[t].key
        /\ req'[t].worker = req[t].worker
        /\ req'[t].since = req[t].since
        /\ req[t].dirs \subseteq req'[t].dirs
        /\ req[t].pc # "idle" /\ req[t].key[1] = db => dir \in req'[t].dirs
  <2> TAKE t \in Tasks
  <2>1. CASE req[t].pc # "idle" /\ req[t].key[1] = db
    <3>1. req[t] \in Request
      BY <1>1, <2>1, RequestTypes
    <3>2. req'[t] = [req[t] EXCEPT !.dirs = req[t].dirs \cup {dir}]
      BY <1>2, <2>1
    <3> QED
      BY <3>1, <3>2 DEF Request
  <2>2. CASE ~(req[t].pc # "idle" /\ req[t].key[1] = db)
    BY <1>1, <1>2, <2>2 DEF TypeOK
  <2> QED
    BY <2>1, <2>2
<1>6. req' \in [Tasks -> Request \cup {NoRequest}]
  BY <1>2, <1>5
<1>7. /\ directories' \in [Dbs -> Dirs \cup {None}]
      /\ setter' \in [Setters -> [db : Dbs, dir : Dirs] \cup {NoSetter}]
      /\ directories'[db] = dir /\ \A d \in Dbs : d # db => directories'[d] = directories[d]
  BY <1>1, <1>2 DEF TypeOK
<1>8. \A t \in Tasks : InHand(t)' /\ RequestInPlace(t)' /\ LocksInPlace(t)' /\ Served(t)'
  <2> TAKE t \in Tasks
  <2>1. InHand(t) /\ RequestInPlace(t) /\ LocksInPlace(t) /\ Served(t)
    BY Parts
  <2>2. InHand(t)'
    BY <1>3, <1>5, <2>1 DEF InHand
  <2>3. req[t].pc # "idle" => directories'[req[t].key[1]] \in req'[t].dirs \cup {None}
    BY <1>1, <1>5, <1>7, <2>1, RequestTypes DEF RequestInPlace
  <2>4. RequestInPlace(t)'
    BY <1>3, <1>4, <1>5, <2>1, <2>3 DEF RequestInPlace
  <2>5. Current(t)' <=> Current(t)
    BY <1>3, <1>4, <1>5 DEF Current
  <2>6. LocksInPlace(t)'
    BY <1>4, <1>5, <2>1, <2>5 DEF LocksInPlace
  <2>7. Served(t)'
    BY <1>3, <1>4, <1>5, <2>1 DEF Served, ServedFrom, ServedSince
  <2> QED
    BY <2>2, <2>4, <2>6, <2>7
<1>9. mode' = mode
  BY <1>2
<1>10. TypeOK'
  BY <1>1, <1>3, <1>4, <1>6, <1>7, <1>8, <1>9 DEF TypeOK
<1>11. (\A w \in built' : WorkerInPlace(w)') /\ \A k \in Keys : Cached(k)'
  BY <1>3, <1>4 DEF IInv, WorkerInPlace, Cached
<1> QED
  BY <1>3, <1>8, <1>10, <1>11 DEF IInv

(* Nobody is about to replace a worker when the map is purged.             *)
LEMMA PurgeKeeps ==
  ASSUME IInv, NEW s \in Setters, Purge(s)
  PROVE  IInv'
<1>1. TypeOK /\ LookupInv
  BY DEF IInv
<1>2. /\ writer = None
      /\ setter' = [setter EXCEPT ![s] = NoSetter]
      /\ workers' \in [Keys -> Workers \cup {None}]
      /\ \A k \in Keys : workers'[k] \in {workers[k], None}
      /\ UNCHANGED <<lookupVars, mode, directories, clients, worker, built, halted, writer, store, req>>
  BY <1>1 DEF Purge, TypeOK
<1>3. LookupInv' /\ UNCHANGED <<disk, keep, mod, call>>
  BY <1>1, <1>2, LookupStays
<1>4. \A t \in Tasks : InHand(t)' /\ RequestInPlace(t)' /\ LocksInPlace(t)' /\ Served(t)'
  <2> TAKE t \in Tasks
  <2>1. InHand(t) /\ RequestInPlace(t) /\ LocksInPlace(t) /\ Served(t)
    BY Parts
  <2>2. InHand(t)' /\ RequestInPlace(t)'
    BY <1>2, <1>3, <2>1 DEF InHand, RequestInPlace
  <2>3. LocksInPlace(t)'
    BY <1>2, <2>1, NoneApart DEF LocksInPlace
  <2>4. Served(t)'
    BY <1>2, <1>3, <2>1 DEF Served, ServedFrom, ServedSince
  <2> QED
    BY <2>2, <2>3, <2>4
<1>5. TypeOK'
  BY <1>1, <1>2, <1>3, <1>4 DEF TypeOK
<1>6. (\A w \in built' : WorkerInPlace(w)') /\ \A k \in Keys : Cached(k)'
  BY <1>2, <1>3 DEF IInv, WorkerInPlace, Cached
<1> QED
  BY <1>3, <1>4, <1>5, <1>6 DEF IInv

(* Files only get newer, and the modules of workers stay.                  *)
LEMMA EnvironmentKeeps ==
  ASSUME IInv, Environment
  PROVE  IInv'
<1>1. TypeOK /\ LookupInv
  BY DEF IInv
<1>2. UNCHANGED <<mode, directories, clients, workers, worker, built, halted, writer, store, req, setter>>
  BY DEF Environment, workerVars
<1>3. /\ LookupInv' /\ UNCHANGED <<keep, call>> /\ \A c \in keep : mod'[c] = mod[c]
      /\ \A p \in Paths : disk[p] <= disk'[p]
  <2>1. CASE Expire
    <3>1. \A p \in Paths : disk[p] <= disk[p]
      BY <1>1, MtimeMonotone DEF LookupInv
    <3>2. UNCHANGED <<disk, keep, call>>
      BY <2>1 DEF Expire
    <3> QED
      BY <1>1, <2>1, <3>1, <3>2, ForgetStep
  <2>2. CASE \E p \in Paths : Install(p)
    BY <1>1, <2>2, InstallKeeps DEF Install
  <2> QED
    BY <2>1, <2>2 DEF Environment
<1>4. \A w \in built : worker[w].module \in keep
  BY <1>1 DEF TypeOK
<1>5. \A t \in Tasks : InHand(t)' /\ RequestInPlace(t)' /\ LocksInPlace(t)' /\ Served(t)'
  <2> TAKE t \in Tasks
  <2>1. InHand(t) /\ RequestInPlace(t) /\ LocksInPlace(t) /\ Served(t)
    BY Parts
  <2>2. InHand(t)'
    BY <1>2, <1>3, <2>1 DEF InHand
  <2>3. req[t].pc # "idle" => \A p \in Paths : req[t].since[p] <= disk'[p]
    <3> SUFFICES ASSUME req[t].pc # "idle", NEW p \in Paths  PROVE req[t].since[p] <= disk'[p]
      OBVIOUS
    <3>1. req[t].since[p] \in Nat /\ disk[p] \in Nat /\ disk'[p] \in Nat
      BY <1>1, <1>3, RequestTypes, MtimeMonotone DEF LookupInv
    <3> QED
      BY <1>3, <2>1, <3>1 DEF RequestInPlace
  <2>4. RequestInPlace(t)'
    BY <1>2, <1>3, <2>1, <2>3 DEF RequestInPlace
  <2>5. LocksInPlace(t)'
    BY <1>2, <1>3, <2>1 DEF LocksInPlace, Current
  <2>6. req[t].worker # None =>
          mod'[worker[req[t].worker].module] = mod[worker[req[t].worker].module]
    BY <1>3, <1>4, <2>1 DEF RequestInPlace
  <2>7. Served(t)'
    BY <1>2, <2>1, <2>6 DEF Served, ServedFrom, ServedSince
  <2> QED
    BY <2>2, <2>4, <2>5, <2>7
<1>6. TypeOK'
  BY <1>1, <1>2, <1>3, <1>5 DEF TypeOK
<1>7. (\A w \in built' : WorkerInPlace(w)') /\ \A k \in Keys : Cached(k)'
  BY <1>2, <1>3, <1>4 DEF IInv, WorkerInPlace, Cached
<1> QED
  BY <1>3, <1>5, <1>6, <1>7 DEF IInv

-----------------------------------------------------------------------------
LEMMA InitIInv == Init => IInv
<1> SUFFICES ASSUME Init  PROVE IInv
  OBVIOUS
<1>1. LookupInit
  BY DEF Init
<1>2. disk \in [Paths -> Versions]
  BY <1>1, LookupAssumption DEF LookupInit, LookupAssumption, Versions
<1>3. LookupInv
  BY <1>1, <1>2 DEF LookupInit, LookupInv, NoCall, Live
<1>4. \A t \in Tasks : req[t].pc = "idle" /\ req[t].worker = None /\ call[t].status = "idle"
  BY <1>1 DEF Init, LookupInit, NoRequest, NoCall
<1>5. \A t \in Tasks : InHand(t) /\ RequestInPlace(t) /\ LocksInPlace(t) /\ Served(t)
  <2> TAKE t \in Tasks
  <2>1. writer # t /\ \A w \in Workers : store[w] # t
    BY NoneApart DEF Init
  <2> QED
    BY <1>4, <2>1 DEF InHand, Returned, RequestInPlace, LocksInPlace, Served
<1>6. built = {} /\ keep = {}
  BY <1>1 DEF Init, LookupInit
<1>7. TypeOK
  <2>1. directories \in [Dbs -> Dirs \cup {None}]
    BY DEF Init
  <2>2. keep = {worker[w].module : w \in built}
    BY <1>6
  <2> QED
    BY <1>5, <2>1, <2>2 DEF Init, TypeOK
<1>8. (\A w \in built : WorkerInPlace(w)) /\ \A k \in Keys : Cached(k)
  BY <1>6 DEF Init, Cached
<1> QED
  BY <1>3, <1>5, <1>7, <1>8 DEF IInv

LEMMA NextIInv == IInv /\ [Next]_vars => IInv'
<1> SUFFICES ASSUME IInv, [Next]_vars  PROVE IInv'
  OBVIOUS
<1>1. CASE UNCHANGED vars
  <2>1. LookupInv' /\ UNCHANGED <<disk, keep, mod, call>>
    BY <1>1, LookupStays DEF vars, IInv
  <2>2. UNCHANGED <<mode, directories, clients, workers, worker, built, halted, writer, store, req, setter>>
    BY <1>1 DEF vars, workerVars
  <2>3. TypeOK'
    BY <2>1, <2>2 DEF IInv, TypeOK, InHand
  <2>4. \A t \in Tasks : RequestInPlace(t)' /\ LocksInPlace(t)' /\ Served(t)'
    <3> TAKE t \in Tasks
    <3>1. RequestInPlace(t) /\ LocksInPlace(t) /\ Served(t)
      BY DEF IInv
    <3>2. RequestInPlace(t)'
      BY <2>1, <2>2, <3>1 DEF RequestInPlace
    <3>3. LocksInPlace(t)'
      BY <2>1, <2>2, <3>1 DEF LocksInPlace, Current
    <3>4. Served(t)'
      BY <2>1, <2>2, <3>1 DEF Served, ServedFrom, ServedSince
    <3> QED
      BY <3>2, <3>3, <3>4
  <2>5. (\A w \in built' : WorkerInPlace(w)') /\ \A k \in Keys : Cached(k)'
    BY <2>1, <2>2 DEF IInv, WorkerInPlace, Cached
  <2> QED
    BY <2>1, <2>3, <2>4, <2>5 DEF IInv
<1>2. ASSUME NEW t \in Tasks, NEW k \in Keys, Handle(t, k)  PROVE IInv'
  BY <1>2, HandleKeeps
<1>3. ASSUME NEW t \in Tasks, Progress(t)  PROVE IInv'
  <2>1. CASE GetModule(t)
    BY <2>1, GetModuleKeeps
  <2>2. CASE NoDirectory(t)
    BY <2>2, NoDirectoryKeeps
  <2>3. CASE ModuleFound(t)
    BY <2>3, ModuleFoundKeeps
  <2>4. CASE ModuleError(t)
    BY <2>4, ModuleErrorKeeps
  <2>5. CASE ReadWorkers(t)
    BY <2>5, ReadWorkersKeeps
  <2>6. CASE LockWorkers(t)
    BY <2>6, LockWorkersKeeps
  <2>7. CASE GetClient(t)
    BY <2>7, GetClientKeeps
  <2>8. CASE BuildWorker(t)
    BY <2>8, BuildWorkerKeeps
  <2>9. CASE BuildFail(t)
    BY <2>9, BuildFailKeepsIt
  <2>10. CASE TakeStore(t)
    BY <2>10, TakeStoreKeeps
  <2>11. CASE Respond(t) \/ Trap(t)
    BY <2>11, GuestDoneKeeps
  <2> QED
    BY <1>3, <2>1, <2>2, <2>3, <2>4, <2>5, <2>6, <2>7, <2>8, <2>9, <2>10, <2>11 DEF Progress
<1>4. ASSUME NEW t \in Tasks, HangUp(t)  PROVE IInv'
  BY <1>4, HangUpKeeps
<1>5. ASSUME NEW w \in Workers, DropWorker(w)  PROVE IInv'
  BY <1>5, DropWorkerKeeps
<1>6. ASSUME NEW s \in Setters, Purge(s)  PROVE IInv'
  BY <1>6, PurgeKeeps
<1>7. ASSUME NEW s \in Setters, NEW db \in Dbs, NEW dir \in Dirs, SetDirectory(s, db, dir)
      PROVE  IInv'
  BY <1>7, SetDirectoryKeeps
<1>8. CASE Environment
  BY <1>8, EnvironmentKeeps
<1> QED
  BY <1>1, <1>2, <1>3, <1>4, <1>5, <1>6, <1>7, <1>8 DEF Next

(* IInv holds in every reachable state.                                    *)
THEOREM Invariant == Spec => []IInv
BY InitIInv, NextIInv, PTL DEF Spec

(* The variables have their types, and get_worker has called _get_module,  *)
(* or has its answer in hand, exactly where its code does.                 *)
THEOREM TypeCorrect == Spec => []TypeOK
<1>1. IInv => TypeOK
  BY DEF IInv
<1> QED
  BY <1>1, Invariant, PTL

(* A request runs in a worker of its own database and name, with a module  *)
(* from a directory that was in force since the request was made.          *)
THEOREM ServedFromConfiguredDirectoryHolds == Spec => []ServedFromConfiguredDirectory
<1>1. IInv => ServedFromConfiguredDirectory
  BY DEF IInv, Served, ServedFromConfiguredDirectory
<1> QED
  BY <1>1, Invariant, PTL

(* ... and no older than the file was when the request was made.           *)
THEOREM ServedFreshHolds == Spec => []ServedFresh
<1>1. IInv => ServedFresh
  BY DEF IInv, Served, ServedFresh
<1> QED
  BY <1>1, Invariant, PTL

(* One guest call at a time runs in a worker, which is there meanwhile.    *)
THEOREM OneCallPerStoreHolds == Spec => []OneCallPerStore
<1>1. IInv => OneCallPerStore
  <2> SUFFICES ASSUME IInv, NEW t \in Tasks, NEW u \in Tasks,
                      req[t].pc = "run", req[u].pc = "run", req[t].worker = req[u].worker
               PROVE  t = u /\ req[t].worker \in built
    BY DEF OneCallPerStore
  <2>1. InHand(t) /\ RequestInPlace(t) /\ LocksInPlace(t) /\ LocksInPlace(u) /\ built \in SUBSET Workers
    BY Parts DEF TypeOK
  <2>2. req[t].worker \in built
    BY <2>1 DEF InHand, RequestInPlace
  <2>3. store[req[t].worker] = t /\ store[req[t].worker] = u
    BY <2>1, <2>2 DEF LocksInPlace
  <2> QED
    BY <2>2, <2>3
<1> QED
  BY <1>1, Invariant, PTL

(* A cached worker is replaced only by one that runs another module: who   *)
(* replaces it has looked under the write lock, and has kept the lock.     *)
THEOREM ReplacedByOtherModuleHolds == Spec => ReplacedByOtherModule
<1> DEFINE Replaced(k) == workers[k] # None /\ workers'[k] # None /\ workers'[k] # workers[k]
           Other(k) == worker[workers[k]].module # worker'[workers'[k]].module
<1>1. ASSUME IInv, Next, NEW k \in Keys, Replaced(k)  PROVE Other(k)
  <2>1. ASSUME NEW t \in Tasks, BuildWorker(t)  PROVE Other(k)
    <3> DEFINE w == CHOOSE v \in Workers : v \notin built
    <3>1. TypeOK /\ LocksInPlace(t)
      BY <1>1, Parts
    <3>2. /\ req[t].pc = "build" /\ built # Workers
          /\ worker' = [worker EXCEPT ![w] = [key |-> req[t].key, module |-> call[t].module]]
          /\ workers' = [workers EXCEPT ![req[t].key] = w]
      BY <2>1 DEF BuildWorker
    <3>3. w \in Workers
      BY <3>1, <3>2 DEF TypeOK
    <3> HIDE DEF w
    <3>4. req[t].key = k /\ workers'[k] = w
      BY <1>1, <3>1, <3>2 DEF TypeOK
    <3>5. worker'[w].module = call[t].module
      BY <3>1, <3>2, <3>3 DEF TypeOK
    <3>6. ~ Current(t)
      BY <3>1, <3>2 DEF LocksInPlace
    <3> QED
      BY <1>1, <3>4, <3>5, <3>6 DEF Current
  <2>2. ASSUME NEW s \in Setters, Purge(s)  PROVE FALSE
    BY <1>1, <2>2 DEF Purge
  <2>3. \/ \E t \in Tasks : BuildWorker(t)
        \/ \E s \in Setters : Purge(s)
        \/ UNCHANGED workers
    BY <1>1 DEF Next, Progress, Handle, HangUp, GetModule, NoDirectory, ModuleFound, ModuleError,
               ReadWorkers, LockWorkers, GetClient, BuildFail, TakeStore, Respond, Trap,
               DropWorker, SetDirectory, Environment, poolVars, workerVars
  <2> QED
    BY <1>1, <2>1, <2>2, <2>3
<1>2. IInv /\ [Next]_vars =>
        [\A k \in Keys :
           /\ workers[k] # None /\ workers'[k] # None
           /\ workers'[k] # workers[k]
           => worker[workers[k]].module # worker'[workers'[k]].module]_vars
  BY <1>1
<1> QED
  BY <1>2, Invariant, PTL DEF Spec, ReplacedByOtherModule

-----------------------------------------------------------------------------
(* The refinement of TenantService: a step that changes what a request is  *)
(* for, or what serves it, is a step of handle or set_directory there.     *)

(* Every step is one of ModuleLookup, or leaves modules and calls alone.   *)
LEMMA LooksUp ==
  ASSUME Next
  PROVE  \/ UNCHANGED <<keep, mod>>
         \/ \E t \in Tasks : AnswerLoaded(t) \/ GiveUp(t) \/ Discard(t) \/ Adopt(t)
         \/ Expire \/ \E c \in Cells : Abandon(c)
         \/ \E w \in Workers : DropWorker(w)
<1>1. CASE \E t \in Tasks : (\E k \in Keys : Handle(t, k)) \/ Progress(t)
  BY <1>1 DEF Progress, Handle, GetModule, NoDirectory, ModuleFound, ModuleError,
              ReadWorkers, LockWorkers, GetClient, BuildWorker, BuildFail, TakeStore,
              Respond, Trap, Ask, AnswerShared, lookupVars
<1>2. CASE \E t \in Tasks : HangUp(t)
  BY <1>2 DEF HangUp, lookupVars
<1>3. CASE \E s \in Setters : Purge(s) \/ \E db \in Dbs, dir \in Dirs : SetDirectory(s, db, dir)
  BY <1>3 DEF Purge, SetDirectory, lookupVars
<1>4. CASE Environment
  BY <1>4 DEF Environment, Install
<1> QED
  BY <1>1, <1>2, <1>3, <1>4 DEF Next

(* What a worker is, and what its module is, does not change while it is   *)
(* there.                                                                  *)
LEMMA WorkersStay ==
  ASSUME IInv, IInv', Next, NEW w \in built, w \in built'
  PROVE  worker'[w] = worker[w] /\ mod'[worker[w].module] = mod[worker[w].module]
<1>1. TypeOK /\ LookupInv /\ TypeOK' /\ w \in Workers
  BY DEF IInv, TypeOK
<1>2. worker'[w] = worker[w]
  <2>1. ASSUME NEW t \in Tasks, BuildWorker(t)  PROVE worker'[w] = worker[w]
    <3> DEFINE v == CHOOSE x \in Workers : x \notin built
    <3>1. v \in Workers /\ v \notin built
      <4>1. built # Workers /\ built \in SUBSET Workers
        BY <1>1, <2>1 DEF BuildWorker, TypeOK
      <4> QED
        BY <4>1
    <3>2. worker' = [worker EXCEPT ![v] = [key |-> req[t].key, module |-> call[t].module]]
      BY <2>1 DEF BuildWorker
    <3> HIDE DEF v
    <3> QED
      BY <1>1, <3>1, <3>2 DEF TypeOK
  <2>2. ASSUME NEW v \in Workers, DropWorker(v)  PROVE worker'[w] = worker[w]
    BY <1>1, <2>2 DEF DropWorker, TypeOK
  <2>3. \/ \E t \in Tasks : BuildWorker(t)
        \/ \E v \in Workers : DropWorker(v)
        \/ UNCHANGED worker
    BY DEF Next, Progress, Handle, HangUp, GetModule, NoDirectory, ModuleFound, ModuleError,
           ReadWorkers, LockWorkers, GetClient, BuildFail, TakeStore, Respond, Trap,
           Purge, SetDirectory, Environment, poolVars, workerVars
  <2> QED
    BY <2>1, <2>2, <2>3
<1>3. worker[w].module \in keep /\ worker[w].module \in keep'
  BY <1>1, <1>2 DEF TypeOK
<1>4. mod'[worker[w].module] = mod[worker[w].module]
  <2>1. CASE UNCHANGED <<keep, mod>>
    BY <2>1
  <2>2. CASE \E t \in Tasks : AnswerLoaded(t)
    BY <1>1, <1>3, <2>2, AnswerLoadedKeeps
  <2>3. CASE \E t \in Tasks : GiveUp(t) \/ Discard(t)
    BY <1>1, <1>3, <2>3, EndedKeeps
  <2>4. CASE \E t \in Tasks : Adopt(t)
    BY <2>4 DEF Adopt
  <2>5. CASE Expire \/ \E c \in Cells : Abandon(c)
    BY <1>1, <1>3, <2>5, ForgetStep
  <2>6. ASSUME NEW v \in Workers, DropWorker(v)
        PROVE  mod'[worker[w].module] = mod[worker[w].module]
    <3>1. worker[v].module \in Cells
      BY <2>6 DEF DropWorker, IInv, WorkerInPlace
    <3>2. UNCHANGED lookupVars \/ Abandon(worker[v].module)
      BY <2>6 DEF DropWorker
    <3> QED
      BY <1>1, <1>3, <3>1, <3>2, ForgetStep DEF lookupVars
  <2> QED
    BY <2>1, <2>2, <2>3, <2>4, <2>5, <2>6, LooksUp
<1> QED
  BY <1>2, <1>4

(* A request whose record says the same stands for the same job.           *)
LEMMA JobStays ==
  ASSUME IInv, IInv', Next, NEW t \in Tasks,
         req'[t].pc = "idle" <=> req[t].pc = "idle",
         req'[t].key = req[t].key, req'[t].dirs = req[t].dirs, req'[t].worker = req[t].worker
  PROVE  JobOf(t)' = JobOf(t)
<1>1. req[t].worker # None => req[t].worker \in built /\ req[t].worker \in built'
  BY Parts DEF IInv, RequestInPlace
<1>2. req[t].worker # None =>
        /\ worker'[req[t].worker] = worker[req[t].worker]
        /\ mod'[worker[req[t].worker].module] = mod[worker[req[t].worker].module]
  BY <1>1, WorkersStay
<1> QED
  BY <1>2 DEF JobOf, By

LEMMA JobsStay ==
  ASSUME IInv, IInv', Next,
         \A t \in Tasks :
           /\ req'[t].pc = "idle" <=> req[t].pc = "idle"
           /\ req'[t].key = req[t].key /\ req'[t].dirs = req[t].dirs
           /\ req'[t].worker = req[t].worker
  PROVE  jobs' = jobs
<1>1. \A t \in Tasks : JobOf(t)' = JobOf(t)
  BY JobStays
<1> QED
  BY <1>1 DEF jobs

LEMMA JobChanges ==
  ASSUME IInv, IInv', Next, NEW t \in Tasks,
         \A u \in Tasks : u # t => req'[u] = req[u]
  PROVE  jobs' = [jobs EXCEPT ![t] = JobOf(t)']
<1>1. \A u \in Tasks : u # t => JobOf(u)' = JobOf(u)
  BY JobStays
<1> QED
  BY <1>1 DEF jobs

(* What tells a job from none.                                             *)
LEMMA JobApart ==
  ASSUME IInv, NEW t \in Tasks
  PROVE  /\ jobs[t] = JobOf(t)
         /\ req[t].pc = "idle" => jobs[t] = Service!NoJob
         /\ req[t].pc # "idle" =>
              /\ jobs[t] # Service!NoJob
              /\ jobs[t].key = req[t].key /\ jobs[t].dirs = req[t].dirs
              /\ jobs[t].by = None <=> req[t].worker = None
<1>1. jobs[t] = JobOf(t)
  BY DEF jobs
<1>2. req[t].pc # "idle" => req[t].key \in Keys /\ None \notin Keys
  BY Parts, RequestTypes, WorkerAssumption DEF WorkerAssumption
<1>3. ASSUME req[t].worker # None  PROVE By(req[t].worker) # None
  <2>1. Served(t) /\ InHand(t) /\ TypeOK
    BY Parts
  <2>2. req[t].pc # "idle"
    BY <1>3, <2>1 DEF InHand
  <2>3. req[t] \in Request
    BY <2>1, <2>2, RequestTypes
  <2>4. By(req[t].worker) \in [key : Keys, dir : Dirs]
    BY <1>3, <2>1, <2>3 DEF By, Served, ServedFrom, Request
  <2> QED
    BY <2>4, WorkerAssumption DEF WorkerAssumption
<1> QED
  BY <1>1, <1>2, <1>3 DEF JobOf, Service!NoJob

(* One lemma per step of the service.                                      *)
LEMMA HandleMaps ==
  ASSUME IInv, IInv', Next, NEW t \in Tasks, NEW k \in Keys, Handle(t, k)
  PROVE  Service!Call(t, k)
<1> DEFINE r == [pc |-> "dir", key |-> k, worker |-> None,
                 dirs |-> {directories[k[1]]} \ {None}, since |-> disk]
<1>1. req[t].pc = "idle" /\ req' = [req EXCEPT ![t] = r] /\ UNCHANGED dirVars
  BY DEF Handle
<1>2. TypeOK
  BY Parts
<1>3. req'[t] = r /\ \A u \in Tasks : u # t => req'[u] = req[u]
  BY <1>1, <1>2 DEF TypeOK
<1>4. JobOf(t)' = [key |-> k, dirs |-> {directories[k[1]]} \ {None}, by |-> None]
  BY <1>3 DEF JobOf
<1>5. jobs' = [jobs EXCEPT ![t] = JobOf(t)']
  BY <1>3, JobChanges
<1>6. jobs[t] = Service!NoJob
  BY <1>1, JobApart
<1> QED
  BY <1>1, <1>4, <1>5, <1>6 DEF Service!Call, dirVars

(* Taking a worker, found or made, is what serves a request.               *)
LEMMA UseWorkerMaps ==
  ASSUME IInv, IInv', Next, NEW t \in Tasks, NEW w \in Workers,
         req[t].pc # "idle", req[t].worker = None, UseWorker(t, w), UNCHANGED dirVars
  PROVE  Service!Serve(t)
<1>1. TypeOK
  BY Parts
<1>2. /\ req'[t].pc = "store"
      /\ req'[t].key = req[t].key
      /\ req'[t].worker = w
      /\ req'[t].dirs = req[t].dirs
      /\ \A u \in Tasks : u # t => req'[u] = req[u]
  BY <1>1, UseWorkerEffect
<1>3. Served(t)' /\ w # None
  BY NoneApart DEF IInv
<1> DEFINE dir == mod'[worker'[w].module].path[1]
<1>4. worker'[w].key = req[t].key /\ dir \in req[t].dirs
  BY <1>2, <1>3 DEF Served, ServedFrom
<1>5. JobOf(t)' = [key |-> req[t].key, dirs |-> req[t].dirs,
                   by |-> [key |-> req[t].key, dir |-> dir]]
  BY <1>2, <1>3, <1>4 DEF JobOf, By
<1> HIDE DEF dir
<1>6. jobs[t] = [key |-> req[t].key, dirs |-> req[t].dirs, by |-> None]
  BY JobApart DEF JobOf
<1>7. jobs[t] # Service!NoJob /\ jobs[t].by = None
  BY <1>6, JobApart
<1>8. JobOf(t)' = [jobs[t] EXCEPT !.by = [key |-> jobs[t].key, dir |-> dir]]
  BY <1>5, <1>6
<1>9. jobs' = [jobs EXCEPT ![t] = JobOf(t)']
  BY <1>2, JobChanges
<1>10. jobs' = [jobs EXCEPT ![t].by = [key |-> jobs[t].key, dir |-> dir]]
  BY <1>8, <1>9
<1>11. dir \in jobs[t].dirs
  BY <1>4, <1>6
<1>12. \E d \in jobs[t].dirs :
         jobs' = [jobs EXCEPT ![t].by = [key |-> jobs[t].key, dir |-> d]]
  BY <1>10, <1>11
<1> QED
  BY <1>7, <1>12 DEF Service!Serve, dirVars

(* An answer ends a job, one way or the other.                             *)
LEMMA AnswerMaps ==
  ASSUME IInv, IInv', Next, NEW t \in Tasks,
         req[t].pc # "idle", Answer(t), UNCHANGED dirVars
  PROVE  Service!Finish(t) \/ Service!Refuse(t)
<1>1. req'[t].pc = "idle" /\ \A u \in Tasks : u # t => req'[u] = req[u]
  BY Parts, AnswerEffect
<1>2. JobOf(t)' = Service!NoJob
  BY <1>1 DEF JobOf, Service!NoJob
<1>3. jobs' = [jobs EXCEPT ![t] = Service!NoJob]
  BY <1>1, <1>2, JobChanges
<1>4. jobs[t] # Service!NoJob
  BY JobApart
<1> QED
  BY <1>3, <1>4 DEF Service!Finish, Service!Refuse, dirVars

LEMMA SetDirectoryMaps ==
  ASSUME IInv, IInv', Next, NEW s \in Setters, NEW db \in Dbs, NEW dir \in Dirs,
         SetDirectory(s, db, dir)
  PROVE  Service!Configure(s, db, dir)
<1>1. TypeOK
  BY DEF IInv
<1>2. /\ setter[s] = NoSetter
      /\ directories' = [directories EXCEPT ![db] = dir]
      /\ setter' = [setter EXCEPT ![s] = [db |-> db, dir |-> dir]]
      /\ req' = [t \in Tasks |-> IF req[t].pc # "idle" /\ req[t].key[1] = db
                                   THEN [req[t] EXCEPT !.dirs = @ \cup {dir}] ELSE req[t]]
      /\ UNCHANGED <<lookupVars, poolVars>>
  BY DEF SetDirectory
<1>3. UNCHANGED <<worker, mod>>
  BY <1>2 DEF poolVars, lookupVars
<1>4. ASSUME NEW t \in Tasks
      PROVE  JobOf(t)' = IF jobs[t] # Service!NoJob /\ jobs[t].key[1] = db
                           THEN [jobs[t] EXCEPT !.dirs = @ \cup {dir}] ELSE jobs[t]
  <2>1. CASE req[t].pc # "idle" /\ req[t].key[1] = db
    <3>1. req[t] \in Request
      BY <1>1, <2>1, RequestTypes
    <3>2. req'[t] = [req[t] EXCEPT !.dirs = req[t].dirs \cup {dir}]
      BY <1>2, <2>1
    <3>3. /\ req'[t].pc = req[t].pc /\ req'[t].key = req[t].key
          /\ req'[t].worker = req[t].worker
          /\ req'[t].dirs = req[t].dirs \cup {dir}
      BY <3>1, <3>2 DEF Request
    <3>4. jobs[t] = JobOf(t) /\ jobs[t] # Service!NoJob /\ jobs[t].key[1] = db
      BY <2>1, JobApart
    <3>5. JobOf(t)' = [JobOf(t) EXCEPT !.dirs = @ \cup {dir}]
      BY <1>3, <2>1, <3>3 DEF JobOf, By
    <3> QED
      BY <3>4, <3>5
  <2>2. CASE ~(req[t].pc # "idle" /\ req[t].key[1] = db)
    <3>1. req'[t] = req[t]
      BY <1>2, <2>2
    <3>2. JobOf(t)' = JobOf(t)
      BY <1>3, <3>1 DEF JobOf, By
    <3>3. ~(jobs[t] # Service!NoJob /\ jobs[t].key[1] = db)
      BY <2>2, JobApart
    <3> QED
      BY <3>2, <3>3, JobApart
  <2> QED
    BY <2>1, <2>2
<1>5. jobs' = [t \in Tasks |-> IF jobs[t] # Service!NoJob /\ jobs[t].key[1] = db
                                 THEN [jobs[t] EXCEPT !.dirs = @ \cup {dir}] ELSE jobs[t]]
  BY <1>4 DEF jobs
<1> QED
  BY <1>2, <1>5 DEF Service!Configure, Service!NotSetting, NoSetter

LEMMA PurgeMaps ==
  ASSUME IInv, IInv', Next, NEW s \in Setters, Purge(s)
  PROVE  Service!Configured(s)
<1>1. jobs' = jobs
  BY JobsStay DEF Purge
<1> QED
  BY <1>1 DEF Purge, Service!Configured, Service!NotSetting, NoSetter

(* Inside get_worker, and around the requests, nothing happens.            *)
LEMMA MoveMaps ==
  ASSUME IInv, IInv', Next, NEW t \in Tasks, req[t].pc # "idle",
         NEW pc \in {"module", "write", "client", "build", "run"}, Goto(t, pc)
  PROVE  jobs' = jobs
<1>1. /\ req'[t].pc = pc
      /\ req'[t].key = req[t].key
      /\ req'[t].worker = req[t].worker
      /\ req'[t].dirs = req[t].dirs
      /\ \A u \in Tasks : u # t => req'[u] = req[u]
  BY Parts, GotoEffect
<1> QED
  BY <1>1, JobsStay

(* What a request in progress does.                                        *)
LEMMA ProgressMaps ==
  ASSUME IInv, IInv', Next, NEW t \in Tasks, Progress(t)
  PROVE  \/ Service!Serve(t) \/ Service!Finish(t) \/ Service!Refuse(t)
         \/ UNCHANGED <<directories, jobs, setter>>
<1>1. TypeOK /\ LookupInv /\ InHand(t)
  BY Parts
<1>2. CASE GetModule(t) \/ GetClient(t) \/ TakeStore(t)
  BY <1>2, MoveMaps DEF GetModule, GetClient, TakeStore, dirVars
<1>3. CASE NoDirectory(t) \/ BuildFail(t) \/ Respond(t) \/ Trap(t)
  BY <1>3, AnswerMaps DEF NoDirectory, BuildFail, Respond, Trap
<1>4. CASE ModuleFound(t)
  <2>1. req' = req /\ UNCHANGED <<directories, setter>>
    BY <1>4 DEF ModuleFound, workerVars
  <2> QED
    BY <2>1, JobsStay
<1>5. CASE ModuleError(t)
  <2>1. req[t].pc # "idle"
    BY <1>1, <1>5 DEF ModuleError, GiveUp, InHand, Returned
  <2> QED
    BY <1>5, <2>1, AnswerMaps DEF ModuleError
<1>6. CASE ReadWorkers(t) \/ LockWorkers(t)
  <2>1. req[t].pc \in {"module", "write"} /\ UNCHANGED dirVars
    BY <1>6 DEF ReadWorkers, LockWorkers
  <2>2. req[t].worker = None
    BY <1>1, <2>1 DEF InHand
  <2>3. CASE Goto(t, "write") \/ Goto(t, "client")
    BY <2>1, <2>3, MoveMaps DEF dirVars
  <2>4. CASE Current(t) /\ UseWorker(t, workers[req[t].key])
    <3>1. workers[req[t].key] \in Workers
      BY <1>1, <2>1, <2>4, RequestTypes DEF Current, TypeOK
    <3> QED
      BY <2>1, <2>2, <2>4, <3>1, UseWorkerMaps
  <2> QED
    BY <1>6, <2>3, <2>4 DEF ReadWorkers, LockWorkers
<1>7. CASE BuildWorker(t)
  <2> DEFINE w == CHOOSE v \in Workers : v \notin built
  <2>1. req[t].pc = "build" /\ built # Workers /\ UseWorker(t, w) /\ UNCHANGED dirVars
    BY <1>7 DEF BuildWorker
  <2>2. w \in Workers
    BY <1>1, <2>1 DEF TypeOK
  <2>3. req[t].worker = None
    BY <1>1, <2>1 DEF InHand
  <2> HIDE DEF w
  <2> QED
    BY <2>1, <2>2, <2>3, UseWorkerMaps
<1> QED
  BY <1>2, <1>3, <1>4, <1>5, <1>6, <1>7 DEF Progress

LEMMA NextMaps ==
  IInv /\ IInv' /\ [Next]_vars => [Service!ServiceNext]_(Service!serviceVars)
<1> SUFFICES ASSUME IInv, IInv', [Next]_vars
             PROVE  Service!ServiceNext \/ UNCHANGED <<directories, jobs, setter>>
  BY DEF Service!serviceVars
<1>1. CASE UNCHANGED vars
  BY <1>1 DEF vars, lookupVars, workerVars, jobs, JobOf, By
<1>2. ASSUME Next, NEW t \in Tasks, NEW k \in Keys, Handle(t, k)
      PROVE  Service!ServiceNext
  BY <1>2, HandleMaps DEF Service!ServiceNext, Service!ServiceKeys, Keys
<1>3. ASSUME Next, NEW t \in Tasks, Progress(t)
      PROVE  Service!ServiceNext \/ UNCHANGED <<directories, jobs, setter>>
  BY <1>3, ProgressMaps DEF Service!ServiceNext
<1>4. ASSUME Next, NEW t \in Tasks, HangUp(t)  PROVE Service!ServiceNext
  BY <1>4, AnswerMaps DEF HangUp, Service!ServiceNext
<1>5. ASSUME Next, NEW w \in Workers, DropWorker(w)
      PROVE  UNCHANGED <<directories, jobs, setter>>
  BY <1>5, JobsStay DEF DropWorker, dirVars
<1>6. ASSUME Next, NEW s \in Setters, Purge(s)  PROVE Service!ServiceNext
  BY <1>6, PurgeMaps DEF Service!ServiceNext
<1>7. ASSUME Next, NEW s \in Setters, NEW db \in Dbs, NEW dir \in Dirs, SetDirectory(s, db, dir)
      PROVE  Service!ServiceNext
  BY <1>7, SetDirectoryMaps DEF Service!ServiceNext
<1>8. ASSUME Next, Environment  PROVE UNCHANGED <<directories, jobs, setter>>
  BY <1>8, JobsStay DEF Environment, workerVars
<1> QED
  BY <1>1, <1>2, <1>3, <1>4, <1>5, <1>6, <1>7, <1>8 DEF Next

(* Tenant, with its workers and locks, keeps the promise the front ends    *)
(* rely on.                                                                *)
THEOREM KeepsThePromise == Spec => ImplementsService
<1>1. Init => Service!ServiceInit
  <2> SUFFICES ASSUME Init  PROVE Service!ServiceInit
    OBVIOUS
  <2>1. directories \in [Dbs -> Dirs \cup {None}]
    BY DEF Init
  <2>2. \A t \in Tasks : JobOf(t) = Service!NoJob
    BY DEF Init, NoRequest, JobOf, Service!NoJob
  <2>3. jobs = [t \in Tasks |-> Service!NoJob]
    BY <2>2 DEF jobs
  <2> QED
    BY <2>1, <2>3 DEF Init, Service!ServiceInit, Service!NotSetting, NoSetter
<1> QED
  BY <1>1, Invariant, NextMaps, PTL DEF Spec, ImplementsService, Service!ServiceSpec
=============================================================================
