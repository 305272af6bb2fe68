--------------------------- MODULE GuestInit_proofs ---------------------------
(***************************************************************************)
(* Proofs about GuestInit: for any set of hooks, any module made with them *)
(* and any filter of the host, through any number of guests and requests.  *)
(*                                                                         *)
(* The plan of a start (what call_init and _start come to) is a sequence   *)
(* with None where there is nothing to call; PlanShape says what is where. *)
(* IInv relates what has run to the part of the plan that is done.         *)
(***************************************************************************)
EXTENDS GuestInit, SequenceTheorems, FiniteSetTheorems, TLAPS

-----------------------------------------------------------------------------
(* The inductive invariant: what has run is what the start of the plan     *)
(* has, in its order, and what is registered and logged is what that has   *)
(* done.                                                                   *)
Plan == Append(CallInit(exports), Main)
Done == Len(Plan) - Len(todo)
Comes(f, g) == \E i, j \in DOMAIN Plan : i < j /\ Plan[i] = f /\ Plan[j] = g

FileKept ==
  /\ IsInjective(exports)
  /\ deed[PreInit] \in {"nothing", "wrong_type"}

Started ==
  stage # "none" =>
    /\ Len(todo) <= Len(Plan)
    /\ \A i \in DOMAIN todo : todo[i] = Plan[Done + i]
    /\ Range(ran) = {Plan[i] : i \in 1 .. Done} \ {None}
    /\ \A i, j \in DOMAIN ran : i < j => Comes(ran[i], ran[j])

LoggerSet ==
  PreInit \in Range(exports) =>
    IF PreInit \in Range(ran) THEN logger = filter ELSE record = NoRecord

Registered == {f \in Range(ran) : deed[f] = "register"} = {handler} \ {None}

IInv ==
  /\ TypeOK /\ FileKept /\ Started /\ LoggerSet /\ Registered
  /\ NoRecordLost /\ AnsweredByTheHandler

-----------------------------------------------------------------------------
(* Names.                                                                  *)
LEMMA Apart ==
  /\ None \notin Functions /\ None \notin LevelNames /\ None # "Off"
  /\ PreInit \notin Hooks /\ PostInit \notin Hooks /\ Main \notin Hooks
  /\ PreInit # PostInit /\ PreInit # Main /\ PostInit # Main
  /\ Functions = Hooks \cup {PreInit, PostInit, Main}
BY GuestAssumption DEF GuestAssumption, PreInit, PostInit, Main, Functions, Filters

(* Each of the four matches, arm by arm.                                   *)
LEMMA Tables ==
  /\ LevelNames = {"Error", "Warn", "Info", "Debug", "Trace"}
  /\ WitLevel["Error"] = "error" /\ HostLevel["error"] = "Error"
  /\ WitLevel["Warn"] = "warn" /\ HostLevel["warn"] = "Warn"
  /\ WitLevel["Info"] = "info" /\ HostLevel["info"] = "Info"
  /\ WitLevel["Debug"] = "debug" /\ HostLevel["debug"] = "Debug"
  /\ WitLevel["Trace"] = "trace" /\ HostLevel["trace"] = "Trace"
  /\ ConvertLevel["Off"] = None /\ ConvertFilter[None] = "Off"
  /\ ConvertLevel["Error"] = "error" /\ ConvertFilter["error"] = "Error"
  /\ ConvertLevel["Warn"] = "warn" /\ ConvertFilter["warn"] = "Warn"
  /\ ConvertLevel["Info"] = "info" /\ ConvertFilter["info"] = "Info"
  /\ ConvertLevel["Debug"] = "debug" /\ ConvertFilter["debug"] = "Debug"
  /\ ConvertLevel["Trace"] = "trace" /\ ConvertFilter["trace"] = "Trace"
<1>1. LevelNames = {"Error", "Warn", "Info", "Debug", "Trace"}
  BY DEF LevelNames, Levels, Range
<1>2. /\ WitLevel["Error"] = "error" /\ WitLevel["Warn"] = "warn" /\ WitLevel["Info"] = "info"
      /\ WitLevel["Debug"] = "debug" /\ WitLevel["Trace"] = "trace"
  BY <1>1 DEF WitLevel
<1>3. /\ HostLevel["error"] = "Error" /\ HostLevel["warn"] = "Warn" /\ HostLevel["info"] = "Info"
      /\ HostLevel["debug"] = "Debug" /\ HostLevel["trace"] = "Trace"
  BY DEF HostLevel, WitLevels
<1>4. /\ ConvertLevel["Off"] = None /\ ConvertLevel["Error"] = "error"
      /\ ConvertLevel["Warn"] = "warn" /\ ConvertLevel["Info"] = "info"
      /\ ConvertLevel["Debug"] = "debug" /\ ConvertLevel["Trace"] = "trace"
  BY <1>1 DEF ConvertLevel, Filters
<1>5. \A w \in WitLevels : w # None
  BY GuestAssumption DEF GuestAssumption
<1>6. /\ ConvertFilter[None] = "Off" /\ ConvertFilter["error"] = "Error"
      /\ ConvertFilter["warn"] = "Warn" /\ ConvertFilter["info"] = "Info"
      /\ ConvertFilter["debug"] = "Debug" /\ ConvertFilter["trace"] = "Trace"
  BY <1>5 DEF ConvertFilter, WitLevels
<1> QED
  BY <1>1, <1>2, <1>3, <1>4, <1>6

(* Levels and filters survive the border between guest and host: the       *)
(* matches of the two sides agree.                                         *)
LEMMA LevelsSurvive ==
  /\ \A l \in LevelNames : HostLevel[WitLevel[l]] = l
  /\ \A f \in Filters : ConvertFilter[ConvertLevel[f]] = f
<1>1. ASSUME NEW l \in LevelNames
      PROVE  HostLevel[WitLevel[l]] = l
  BY Tables
<1>2. ASSUME NEW f \in Filters
      PROVE  ConvertFilter[ConvertLevel[f]] = f
  BY Tables DEF Filters
<1> QED
  BY <1>1, <1>2

(* The guest's filter is the host's.                                       *)
LEMMA MaxLevelIsFilter ==
  ASSUME filter \in HostFilters
  PROVE  MaxLevel = filter /\ filter \in Filters /\ filter # None
BY LevelsSurvive, GuestAssumption DEF MaxLevel, GuestAssumption

-----------------------------------------------------------------------------
(* What is where in the plan: pre_init first, then the hooks as they are   *)
(* exported, then post_init, then main.                                    *)
LEMMA PlanShape ==
  ASSUME exports \in Seq(Functions \ {Main})
  PROVE  /\ Len(exports) \in Nat /\ DOMAIN exports = 1 .. Len(exports)
         /\ Plan \in Seq(Functions \cup {None}) /\ Len(Plan) = Len(exports) + 3
         /\ DOMAIN Plan = 1 .. Len(exports) + 3
         /\ Plan[1] = IF PreInit \in Range(exports) THEN PreInit ELSE None
         /\ \A i \in 1 .. Len(exports) :
              Plan[i + 1] = IF exports[i] \in Hooks THEN exports[i] ELSE None
         /\ Plan[Len(exports) + 2] = IF PostInit \in Range(exports) THEN PostInit ELSE None
         /\ Plan[Len(exports) + 3] = Main
<1> DEFINE n == Len(exports)
           F == Functions \cup {None}
           E(f) == IF f \in Range(exports) THEN f ELSE None
           hooks == [i \in DOMAIN exports |-> IF exports[i] \in Hooks THEN exports[i] ELSE None]
           a == <<E(PreInit)>>
           z == <<E(PostInit)>>
<1>1. n \in Nat /\ DOMAIN exports = 1 .. n /\ \A i \in 1 .. n : exports[i] \in Functions
  BY LenProperties, ElementOfSeq
<1>2. hooks \in Seq(F) /\ Len(hooks) = n /\ \A i \in 1 .. n : hooks[i] = IF exports[i] \in Hooks THEN exports[i] ELSE None
  <2>1. hooks \in [1 .. n -> F]
    BY <1>1
  <2>2. hooks \in Seq(F)
    BY <1>1, <2>1, SeqDef
  <2>3. Len(hooks) = n
    BY <1>1, <2>1, <2>2, LenProperties
  <2> QED
    BY <1>1, <2>2, <2>3
<1>3. /\ a \in Seq(F) /\ Len(a) = 1 /\ a[1] = E(PreInit)
      /\ z \in Seq(F) /\ Len(z) = 1 /\ z[1] = E(PostInit)
  BY Apart
<1>4. CallInit(exports) = (a \o hooks) \o z
  BY DEF CallInit
<1> HIDE DEF a, z, hooks, E, F
<1>5. /\ a \o hooks \in Seq(F) /\ Len(a \o hooks) = n + 1
      /\ (a \o hooks)[1] = a[1]
      /\ \A i \in 1 .. n : (a \o hooks)[i + 1] = hooks[i]
  <2>1. /\ a \o hooks \in Seq(F) /\ Len(a \o hooks) = Len(a) + Len(hooks)
        /\ \A i \in 1 .. Len(a) + Len(hooks) : (a \o hooks)[i] = IF i <= Len(a) THEN a[i] ELSE hooks[i - Len(a)]
    BY <1>2, <1>3, ConcatProperties
  <2> QED
    BY <1>1, <1>2, <1>3, <2>1
<1> DEFINE b == a \o hooks
<1> HIDE DEF b
<1>6. b \in Seq(F) /\ Len(b) = n + 1 /\ b[1] = a[1] /\ \A i \in 1 .. n : b[i + 1] = hooks[i]
  BY <1>5 DEF b
<1>7. /\ b \o z \in Seq(F) /\ Len(b \o z) = n + 2
      /\ \A i \in 1 .. n + 1 : (b \o z)[i] = b[i]
      /\ (b \o z)[n + 2] = z[1]
  <2>1. /\ b \o z \in Seq(F) /\ Len(b \o z) = Len(b) + Len(z)
        /\ \A i \in 1 .. Len(b) + Len(z) : (b \o z)[i] = IF i <= Len(b) THEN b[i] ELSE z[i - Len(b)]
    BY <1>3, <1>6, ConcatProperties
  <2> QED
    BY <1>1, <1>3, <1>6, <2>1
<1> DEFINE c == b \o z
<1> HIDE DEF c
<1>8. c \in Seq(F) /\ Len(c) = n + 2 /\ Main \in F /\ Plan = Append(c, Main)
      /\ \A i \in 1 .. n + 1 : c[i] = b[i]
      /\ c[n + 2] = z[1]
  BY <1>4, <1>7, Apart DEF b, c, F, Plan
<1>9. /\ Plan \in Seq(F) /\ Len(Plan) = n + 3
      /\ \A i \in 1 .. n + 2 : Plan[i] = c[i]
      /\ Plan[n + 3] = Main
  <2>1. /\ Plan \in Seq(F) /\ Len(Plan) = Len(c) + 1
        /\ \A i \in 1 .. Len(c) : Plan[i] = c[i]
        /\ Plan[Len(c) + 1] = Main
    BY <1>8, AppendProperties
  <2> QED
    BY <1>1, <1>8, <2>1
<1>10. DOMAIN Plan = 1 .. n + 3
  BY <1>1, <1>9, LenProperties
<1>11. Plan[1] = a[1] /\ Plan[n + 2] = z[1] /\ \A i \in 1 .. n : Plan[i + 1] = hooks[i]
  BY <1>1, <1>6, <1>8, <1>9
<1> QED
  BY <1>1, <1>2, <1>3, <1>9, <1>10, <1>11 DEF E, F

LEMMA PlanFacts ==
  ASSUME exports \in Seq(Functions \ {Main}), IsInjective(exports)
  PROVE  /\ \A i, j \in DOMAIN Plan : Plan[i] = Plan[j] /\ Plan[i] # None => i = j
         /\ {Plan[i] : i \in DOMAIN Plan} \ {None} = Range(exports) \cup {Main}
         /\ \A i \in DOMAIN Plan : Plan[i] \in Functions \cup {None}
<1> DEFINE n == Len(exports)
<1>1. /\ n \in Nat /\ DOMAIN exports = 1 .. n
      /\ Plan \in Seq(Functions \cup {None}) /\ Len(Plan) = n + 3
      /\ DOMAIN Plan = 1 .. n + 3
      /\ Plan[1] = IF PreInit \in Range(exports) THEN PreInit ELSE None
      /\ \A i \in 1 .. n : Plan[i + 1] = IF exports[i] \in Hooks THEN exports[i] ELSE None
      /\ Plan[n + 2] = IF PostInit \in Range(exports) THEN PostInit ELSE None
      /\ Plan[n + 3] = Main
  BY PlanShape
<1>2. \A i \in 1 .. n : exports[i] \in Functions \ {Main}
  BY ElementOfSeq
<1>3. \A i, j \in 1 .. n : exports[i] = exports[j] => i = j
  BY <1>1 DEF IsInjective
<1> HIDE DEF n
<1>4. \A i \in 1 .. n + 3 : i = 1 \/ i = n + 2 \/ i = n + 3 \/ \E j \in 1 .. n : i = j + 1
  <2> TAKE i \in 1 .. n + 3
  <2>1. i - 1 \in 1 .. n \/ i = 1 \/ i = n + 2 \/ i = n + 3
    BY <1>1
  <2>2. i = (i - 1) + 1
    BY <1>1
  <2> QED
    BY <2>1, <2>2
<1>5. \A i \in 1 .. n + 3 :
        /\ Plan[i] = PreInit => i = 1
        /\ Plan[i] = PostInit => i = n + 2
        /\ Plan[i] = Main => i = n + 3
        /\ Plan[i] \in Hooks => \E j \in 1 .. n : i = j + 1 /\ Plan[i] = exports[j]
        /\ Plan[i] \in Functions \cup {None}
  <2> TAKE i \in 1 .. n + 3
  <2>1. CASE i = 1
    BY <1>1, <2>1, Apart
  <2>2. CASE i = n + 2
    BY <1>1, <2>2, Apart
  <2>3. CASE i = n + 3
    BY <1>1, <2>3, Apart
  <2>4. CASE \E j \in 1 .. n : i = j + 1
    <3>1. PICK j \in 1 .. n : i = j + 1
      BY <2>4
    <3>2. Plan[i] = IF exports[j] \in Hooks THEN exports[j] ELSE None
      BY <1>1, <3>1
    <3> QED
      BY <3>1, <3>2, Apart
  <2> QED
    BY <1>4, <2>1, <2>2, <2>3, <2>4
<1>6. ASSUME NEW i \in 1 .. n + 3, NEW j \in 1 .. n + 3, Plan[i] = Plan[j], Plan[i] # None
      PROVE  i = j
  <2>1. CASE Plan[i] \in Hooks
    <3>1. PICK p \in 1 .. n : i = p + 1 /\ Plan[i] = exports[p]
      BY <1>5, <2>1
    <3>2. PICK q \in 1 .. n : j = q + 1 /\ Plan[j] = exports[q]
      BY <1>5, <1>6, <2>1
    <3>3. p = q
      BY <1>3, <1>6, <3>1, <3>2
    <3> QED
      BY <3>1, <3>2, <3>3
  <2>2. CASE Plan[i] \notin Hooks
    <3>1. Plan[i] = PreInit \/ Plan[i] = PostInit \/ Plan[i] = Main
      BY <1>5, <1>6, <2>2, Apart
    <3>2. (Plan[i] = PreInit => i = 1 /\ j = 1) /\ (Plan[i] = PostInit => i = n + 2 /\ j = n + 2)
          /\ (Plan[i] = Main => i = n + 3 /\ j = n + 3)
      BY <1>5, <1>6
    <3> QED
      BY <3>1, <3>2
  <2> QED
    BY <2>1, <2>2
<1>7. Range(exports) = {exports[i] : i \in 1 .. n}
  BY <1>1 DEF Range
<1>8. ASSUME NEW f \in Range(exports) \cup {Main}
      PROVE  f # None /\ \E i \in 1 .. n + 3 : Plan[i] = f
  <2>1. CASE f = Main
    BY <1>1, <2>1, Apart
  <2>2. CASE f \in Range(exports)
    <3>1. PICK j \in 1 .. n : exports[j] = f
      BY <1>7, <2>2
    <3>2. f \in Functions \ {Main} /\ f # None
      BY <1>2, <3>1, Apart
    <3>3. CASE f \in Hooks
      <4>1. j + 1 \in 1 .. n + 3 /\ Plan[j + 1] = f
        BY <1>1, <3>1, <3>3
      <4> QED
        BY <3>2, <4>1
    <3>4. CASE f = PreInit
      <4>1. 1 \in 1 .. n + 3 /\ Plan[1] = f
        BY <1>1, <2>2, <3>4
      <4> QED
        BY <3>2, <4>1
    <3>5. CASE f = PostInit
      <4>1. n + 2 \in 1 .. n + 3 /\ Plan[n + 2] = f
        BY <1>1, <2>2, <3>5
      <4> QED
        BY <3>2, <4>1
    <3> QED
      BY <3>2, <3>3, <3>4, <3>5, Apart
  <2> QED
    BY <2>1, <2>2
<1>9. ASSUME NEW i \in 1 .. n + 3, Plan[i] # None
      PROVE  Plan[i] \in Range(exports) \cup {Main}
  <2>1. CASE \E j \in 1 .. n : i = j + 1
    <3>1. PICK j \in 1 .. n : i = j + 1
      BY <2>1
    <3>2. Plan[i] = exports[j]
      BY <1>1, <1>9, <3>1
    <3> QED
      BY <1>7, <3>2
  <2>2. CASE ~ \E j \in 1 .. n : i = j + 1
    BY <1>1, <1>4, <1>9, <2>2
  <2> QED
    BY <2>1, <2>2
<1>10. {Plan[i] : i \in 1 .. n + 3} \ {None} = Range(exports) \cup {Main}
  <2>1. \A f : f \in {Plan[i] : i \in 1 .. n + 3} \ {None} <=> f \in Range(exports) \cup {Main}
    BY <1>8, <1>9
  <2> QED
    BY <2>1
<1>11. \A i, j \in 1 .. n + 3 : Plan[i] = Plan[j] /\ Plan[i] # None => i = j
  BY <1>6
<1>12. \A i \in 1 .. n + 3 : Plan[i] \in Functions \cup {None}
  BY <1>5
<1> QED
  BY <1>1, <1>10, <1>11, <1>12

-----------------------------------------------------------------------------
(* What a function of the guest does.                                      *)
Records == [level : LevelNames \cup {None}, host : LevelNames \cup {None}]
Heard(r, f) == r.host = IF Passes(r.level, f) THEN r.level ELSE None

LEMMA LogEffect ==
  ASSUME NEW l \in RecordLevels, Log(l)
  PROVE  record' \in Records /\ (logger # None => Heard(record', logger))
<1>1. l \in LevelNames /\ HostLevel[WitLevel[l]] = l
  BY LevelsSurvive, GuestAssumption DEF GuestAssumption
<1> DEFINE h == IF logger # None /\ Passes(l, logger) THEN l ELSE None
<1>2. record' = [level |-> l, host |-> h]
  BY <1>1 DEF Log, Enabled
<1>3. h \in LevelNames \cup {None}
  BY <1>1
<1>4. logger # None => h = IF Passes(l, logger) THEN l ELSE None
  OBVIOUS
<1> HIDE DEF h
<1>5. record' \in Records /\ record'.level = l /\ record'.host = h
  BY <1>1, <1>2, <1>3 DEF Records
<1> QED
  BY <1>4, <1>5 DEF Heard

LEMMA RunEffect ==
  ASSUME TypeOK, NEW f \in Functions, Run(f)
  PROVE  /\ ran' = Append(ran, f)
         /\ logger' \in Filters \cup {None} /\ handler' \in Functions \cup {None}
         /\ record' \in Records
         /\ f = PreInit => logger' = filter /\ record' = record /\ handler' = handler
         /\ f # PreInit =>
              /\ logger' = logger
              /\ record' = record \/ (logger # None => Heard(record', logger))
              /\ \/ deed[f] = "register" /\ handler = None /\ handler' = f
                 \/ deed[f] # "register" /\ handler' = handler
<1>1. /\ logger \in Filters \cup {None} /\ handler \in Functions \cup {None}
      /\ record \in Records /\ filter \in HostFilters
  BY DEF TypeOK, Records
<1>2. CASE f = PreInit
  <2>1. RunPreInit /\ ran' = Append(ran, f)
    BY <1>2 DEF Run
  <2> QED
    BY <1>1, <1>2, <2>1, MaxLevelIsFilter DEF RunPreInit
<1>3. CASE f # PreInit
  <2>1. RunFunction(f) /\ ran' = Append(ran, f)
    BY <1>3 DEF Run
  <2>2. CASE deed[f] = "nothing" /\ UNCHANGED memoryVars
    BY <1>1, <1>3, <2>1, <2>2 DEF memoryVars
  <2>3. CASE deed[f] = "log" /\ (\E l \in RecordLevels : Log(l)) /\ UNCHANGED <<logger, handler>>
    <3>1. record' \in Records /\ (logger # None => Heard(record', logger))
      BY <2>3, LogEffect
    <3> QED
      BY <1>1, <1>3, <2>1, <2>3, <3>1
  <2>4. CASE deed[f] = "register" /\ Register(f) /\ UNCHANGED <<logger, record>>
    BY <1>1, <1>3, <2>1, <2>4 DEF Register
  <2> QED
    BY <2>1, <2>2, <2>3, <2>4 DEF RunFunction
<1> QED
  BY <1>2, <1>3

-----------------------------------------------------------------------------
(* What holds of a start as far as it has come.                            *)
LEMMA StartFacts ==
  ASSUME IInv, stage # "none"
  PROVE  /\ exports \in Seq(Functions \ {Main}) /\ IsInjective(exports)
         /\ Len(Plan) \in Nat /\ DOMAIN Plan = 1 .. Len(Plan) /\ Len(Plan) >= 3
         /\ Len(todo) \in Nat /\ Done \in 0 .. Len(Plan) /\ Len(Plan) = Done + Len(todo)
         /\ \A i \in 1 .. Len(todo) : todo[i] = Plan[Done + i]
         /\ \A i \in 1 .. Len(Plan) : Plan[i] \in Functions \cup {None}
         /\ \A f : f \in Range(ran) <=> f # None /\ \E i \in 1 .. Done : Plan[i] = f
         /\ PreInit \in Range(exports) => Plan[1] = PreInit
         /\ PreInit \in Range(exports) /\ Done > 0 => PreInit \in Range(ran)
<1>1. exports \in Seq(Functions \ {Main}) /\ IsInjective(exports) /\ todo \in Seq(Functions \cup {None})
  BY DEF IInv, TypeOK, FileKept
<1>2. /\ Len(exports) \in Nat /\ Plan \in Seq(Functions \cup {None}) /\ Len(Plan) = Len(exports) + 3
      /\ DOMAIN Plan = 1 .. Len(exports) + 3
      /\ Plan[1] = IF PreInit \in Range(exports) THEN PreInit ELSE None
      /\ \A i \in 1 .. Len(exports) + 3 : Plan[i] \in Functions \cup {None}
  BY <1>1, PlanShape, PlanFacts
<1>3. Len(todo) \in Nat /\ DOMAIN todo = 1 .. Len(todo)
  BY <1>1, LenProperties
<1>4. /\ Len(todo) <= Len(Plan)
      /\ \A i \in DOMAIN todo : todo[i] = Plan[Done + i]
      /\ Range(ran) = {Plan[i] : i \in 1 .. Done} \ {None}
  BY DEF IInv, Started
<1>5. Done \in 0 .. Len(Plan) /\ Len(Plan) = Done + Len(todo)
  BY <1>2, <1>3, <1>4 DEF Done
<1>6. \A f : f \in Range(ran) <=> f # None /\ \E i \in 1 .. Done : Plan[i] = f
  BY <1>4
<1>7. ASSUME PreInit \in Range(exports), Done > 0
      PROVE  PreInit \in Range(ran)
  <2>1. 1 \in 1 .. Done /\ Plan[1] = PreInit /\ PreInit # None
    BY <1>2, <1>5, <1>7, Apart
  <2> QED
    BY <1>6, <2>1
<1>8. Len(Plan) \in Nat /\ Len(Plan) >= 3 /\ DOMAIN Plan = 1 .. Len(Plan)
  BY <1>2
<1>9. \A i \in 1 .. Len(Plan) : Plan[i] \in Functions \cup {None}
  BY <1>2
<1>10. \A i \in 1 .. Len(todo) : todo[i] = Plan[Done + i]
  BY <1>3, <1>4
<1>11. PreInit \in Range(exports) => Plan[1] = PreInit
  BY <1>2
<1> QED
  BY <1>1, <1>3, <1>5, <1>6, <1>7, <1>8, <1>9, <1>10, <1>11

LEMMA PlanStays ==
  ASSUME UNCHANGED exports
  PROVE  Plan' = Plan
BY DEF Plan, CallInit, Range

(* What has run, and what the guest knows, when nothing of it changes.     *)
LEMMA StartStays ==
  ASSUME IInv, UNCHANGED <<exports, deed, todo, ran>>, stage # "none"
  PROVE  Started'
<1>1. Plan' = Plan
  BY PlanStays
<1>2. Done' = Done
  BY <1>1 DEF Done
<1>3. \A f, g : Comes(f, g)' <=> Comes(f, g)
  BY <1>1 DEF Comes
<1>4. Started
  BY DEF IInv
<1> QED
  BY <1>1, <1>2, <1>3, <1>4 DEF Started

LEMMA CallNextKeepsStarted ==
  ASSUME IInv, CallNext
  PROVE  /\ Started' /\ todo' \in Seq(Functions \cup {None}) /\ ran' \in Seq(Functions)
         /\ Head(todo) # None =>
              /\ Head(todo) \in Functions /\ Run(Head(todo))
              /\ \A g : g \in Range(ran') <=> g \in Range(ran) \/ g = Head(todo)
              /\ PreInit \in Range(exports) /\ Head(todo) # PreInit => PreInit \in Range(ran)
         /\ Head(todo) = None => UNCHANGED <<ran, memoryVars>>
<1> DEFINE f == Head(todo)
           k == Done
           n == Len(Plan)
<1>1. /\ stage = "starting" /\ todo # <<>>
      /\ IF f = None THEN UNCHANGED <<ran, memoryVars>> ELSE Run(f)
      /\ todo' = Tail(todo)
      /\ UNCHANGED <<exports, deed, filter, stage, answer>>
  BY DEF CallNext, fileVars
<1>2. /\ exports \in Seq(Functions \ {Main}) /\ IsInjective(exports)
      /\ n \in Nat /\ DOMAIN Plan = 1 .. n
      /\ Len(todo) \in Nat /\ k \in 0 .. n /\ n = k + Len(todo)
      /\ \A i \in 1 .. Len(todo) : todo[i] = Plan[k + i]
      /\ \A i \in 1 .. n : Plan[i] \in Functions \cup {None}
      /\ \A g : g \in Range(ran) <=> g # None /\ \E i \in 1 .. k : Plan[i] = g
      /\ PreInit \in Range(exports) => Plan[1] = PreInit
      /\ PreInit \in Range(exports) /\ k > 0 => PreInit \in Range(ran)
  BY <1>1, StartFacts
<1>3. /\ todo' \in Seq(Functions \cup {None}) /\ Len(todo') = Len(todo) - 1 /\ Len(todo) >= 1
      /\ \A i \in 1 .. Len(todo') : todo'[i] = todo[i + 1]
      /\ f = todo[1] /\ ran \in Seq(Functions)
  <2>1. todo \in Seq(Functions \cup {None}) /\ ran \in Seq(Functions)
    BY DEF IInv, TypeOK
  <2> QED
    BY <1>1, <2>1, HeadTailProperties, EmptySeq
<1>4. f = Plan[k + 1] /\ k + 1 \in 1 .. n
  BY <1>2, <1>3
<1>5. Plan' = Plan
  BY <1>1, PlanStays
<1>6. Done' = k + 1
  BY <1>2, <1>3, <1>5 DEF Done
<1> HIDE DEF f, k, n
<1>7. Len(todo') <= n /\ \A i \in 1 .. Len(todo') : todo'[i] = Plan[k + 1 + i]
  <2>1. Len(todo') \in Nat /\ Len(todo') <= n
    BY <1>2, <1>3
  <2>2. ASSUME NEW i \in 1 .. Len(todo')
        PROVE  todo'[i] = Plan[k + 1 + i]
    <3>1. i + 1 \in 1 .. Len(todo) /\ k + (i + 1) = k + 1 + i
      BY <1>2, <1>3
    <3> QED
      BY <1>2, <1>3, <3>1
  <2> QED
    BY <2>1, <2>2
<1>8. DOMAIN todo' = 1 .. Len(todo')
  BY <1>3, LenProperties
<1>9. \A i : i \in 1 .. k + 1 <=> i \in 1 .. k \/ i = k + 1
  BY <1>2
<1>10. DOMAIN ran = 1 .. Len(ran) /\ Len(ran) \in Nat
  BY <1>3, LenProperties
<1>11. \A i, j \in DOMAIN ran : i < j => Comes(ran[i], ran[j])
  BY <1>1 DEF IInv, Started
<1>12. \A g, h : Comes(g, h)' <=> Comes(g, h)
  BY <1>5 DEF Comes
<1>13. CASE f = None
  <2>1. UNCHANGED <<ran, memoryVars>>
    BY <1>1, <1>13
  <2>2. \A g : g \in Range(ran') <=> g # None /\ \E i \in 1 .. k + 1 : Plan[i] = g
    BY <1>2, <1>4, <1>9, <1>13, <2>1
  <2>3. Range(ran') = {Plan[i] : i \in 1 .. k + 1} \ {None}
    BY <2>2
  <2>4. Started'
    BY <1>5, <1>6, <1>7, <1>8, <1>11, <1>12, <2>1, <2>3 DEF Started, n
  <2> QED
    BY <1>3, <1>13, <2>1, <2>4 DEF f
<1>14. CASE f # None
  <2>1. Run(f) /\ ran' = Append(ran, f) /\ f \in Functions
    BY <1>1, <1>2, <1>4, <1>14 DEF Run
  <2>2. /\ ran' \in Seq(Functions) /\ Len(ran') = Len(ran) + 1
        /\ \A i \in 1 .. Len(ran) : ran'[i] = ran[i]
        /\ ran'[Len(ran) + 1] = f
    BY <1>3, <2>1, AppendProperties
  <2>3. DOMAIN ran' = 1 .. Len(ran) + 1
    BY <2>2, LenProperties
  <2>4. \A g : g \in Range(ran') <=> g \in Range(ran) \/ g = f
    BY <1>10, <2>2, <2>3 DEF Range
  <2>5. \A g : g \in Range(ran') <=> g # None /\ \E i \in 1 .. k + 1 : Plan[i] = g
    BY <1>2, <1>4, <1>9, <1>14, <2>4
  <2>6. Range(ran') = {Plan[i] : i \in 1 .. k + 1} \ {None}
    BY <2>5
  <2>7. ASSUME NEW i \in DOMAIN ran', NEW j \in DOMAIN ran', i < j
        PROVE  Comes(ran'[i], ran'[j])
    <3>1. i \in 1 .. Len(ran) /\ ran'[i] = ran[i]
      BY <1>10, <2>2, <2>3, <2>7
    <3>2. CASE j \in 1 .. Len(ran)
      BY <1>10, <1>11, <2>2, <2>7, <3>1, <3>2
    <3>3. CASE j = Len(ran) + 1
      <4>1. ran[i] \in Range(ran)
        BY <1>10, <3>1 DEF Range
      <4>2. PICK p \in 1 .. k : Plan[p] = ran[i]
        BY <1>2, <4>1
      <4>3. p \in DOMAIN Plan /\ k + 1 \in DOMAIN Plan /\ p < k + 1 /\ Plan[k + 1] = f
        BY <1>2, <1>4
      <4>4. Comes(ran[i], f)
        BY <4>2, <4>3 DEF Comes
      <4> QED
        BY <2>2, <3>1, <3>3, <4>4
    <3> QED
      BY <1>10, <2>3, <3>2, <3>3
  <2>8. Started'
    BY <1>5, <1>6, <1>7, <1>8, <1>12, <2>6, <2>7 DEF Started, n
  <2>9. PreInit \in Range(exports) /\ f # PreInit => PreInit \in Range(ran)
    <3>1. k > 0 \/ f = Plan[1]
      BY <1>2, <1>4
    <3> QED
      BY <1>2, <3>1
  <2> QED
    BY <1>3, <1>14, <2>1, <2>2, <2>4, <2>8, <2>9 DEF f
<1> QED
  BY <1>13, <1>14

-----------------------------------------------------------------------------
(* One lemma per action, or for those alike.                               *)
LEMMA CallNextKeeps ==
  ASSUME IInv, CallNext
  PROVE  IInv'
<1> DEFINE f == Head(todo)
<1>1. /\ stage = "starting" /\ todo # <<>>
      /\ UNCHANGED <<exports, deed, filter, stage, answer>>
  BY DEF CallNext, fileVars
<1>2. /\ Started' /\ todo' \in Seq(Functions \cup {None}) /\ ran' \in Seq(Functions)
      /\ f # None =>
           /\ f \in Functions /\ Run(f)
           /\ \A g : g \in Range(ran') <=> g \in Range(ran) \/ g = f
           /\ PreInit \in Range(exports) /\ f # PreInit => PreInit \in Range(ran)
      /\ f = None => UNCHANGED <<ran, memoryVars>>
  BY CallNextKeepsStarted
<1> HIDE DEF f
<1>3. TypeOK /\ FileKept /\ LoggerSet /\ Registered /\ NoRecordLost /\ AnsweredByTheHandler
  BY DEF IInv
<1>4. FileKept' /\ AnsweredByTheHandler'
  BY <1>1, <1>3 DEF FileKept, AnsweredByTheHandler, IsInjective, Range
<1>5. CASE f = None
  <2>1. UNCHANGED <<ran, logger, handler, record>>
    BY <1>2, <1>5 DEF memoryVars
  <2>2. TypeOK'
    BY <1>1, <1>2, <1>3, <2>1 DEF TypeOK
  <2>3. LoggerSet' /\ Registered' /\ NoRecordLost'
    BY <1>1, <1>3, <2>1 DEF LoggerSet, Registered, NoRecordLost, Range, Passes, Levels
  <2> QED
    BY <1>2, <1>4, <2>2, <2>3 DEF IInv
<1>6. CASE f # None
  <2>1. /\ f \in Functions /\ Run(f)
        /\ \A g : g \in Range(ran') <=> g \in Range(ran) \/ g = f
        /\ PreInit \in Range(exports) /\ f # PreInit => PreInit \in Range(ran)
    BY <1>2, <1>6
  <2>2. /\ logger' \in Filters \cup {None} /\ handler' \in Functions \cup {None}
        /\ record' \in Records
        /\ f = PreInit => logger' = filter /\ record' = record /\ handler' = handler
        /\ f # PreInit =>
             /\ logger' = logger
             /\ record' = record \/ (logger # None => Heard(record', logger))
             /\ \/ deed[f] = "register" /\ handler = None /\ handler' = f
                \/ deed[f] # "register" /\ handler' = handler
    BY <1>3, <2>1, RunEffect
  <2>3. TypeOK'
    BY <1>1, <1>2, <1>3, <2>2 DEF TypeOK, Records
  <2>4. Range(exports') = Range(exports) /\ PreInit # None
    BY <1>1, Apart
  <2>5. filter # None
    BY <1>3, MaxLevelIsFilter DEF TypeOK
  <2>6. LoggerSet'
    <3> SUFFICES ASSUME PreInit \in Range(exports')
                 PROVE  PreInit \in Range(ran') /\ logger' = filter
      BY <1>1, <2>4 DEF LoggerSet
    <3>1. CASE f = PreInit
      BY <2>1, <2>2, <3>1
    <3>2. CASE f # PreInit
      <4>1. PreInit \in Range(ran) /\ logger = filter
        BY <1>3, <2>1, <2>4, <3>2 DEF LoggerSet
      <4> QED
        BY <2>1, <2>2, <3>2, <4>1
    <3> QED
      BY <3>1, <3>2
  <2>7. ASSUME PreInit \in Range(exports), record' # NoRecord
        PROVE  Heard(record', filter)
    <3>1. CASE record' = record
      BY <1>3, <2>7, <3>1 DEF NoRecordLost, Heard
    <3>2. CASE record' # record
      <4>1. f # PreInit /\ PreInit \in Range(ran)
        BY <2>1, <2>2, <2>7, <3>2
      <4>2. logger = filter
        BY <1>3, <2>7, <4>1 DEF LoggerSet
      <4> QED
        BY <2>2, <2>5, <3>2, <4>1, <4>2
    <3> QED
      BY <3>1, <3>2
  <2>8. NoRecordLost'
    BY <1>1, <2>4, <2>7 DEF NoRecordLost, Heard, NoRecord
  <2>9. Registered'
    <3> DEFINE R == {g \in Range(ran) : deed[g] = "register"}
    <3>1. R = {handler} \ {None} /\ deed[PreInit] # "register"
      BY <1>3 DEF Registered, FileKept
    <3>2. CASE deed[f] = "register"
      <4>1. handler = None /\ handler' = f
        BY <2>2, <3>1, <3>2
      <4>2. {g \in Range(ran') : deed[g] = "register"} = {f}
        BY <2>1, <3>1, <3>2, <4>1
      <4> QED
        BY <1>1, <1>6, <4>1, <4>2 DEF Registered
    <3>3. CASE deed[f] # "register"
      <4>1. handler' = handler
        BY <2>2, <3>3
      <4>2. {g \in Range(ran') : deed[g] = "register"} = R
        BY <2>1, <3>3
      <4> QED
        BY <1>1, <3>1, <4>1, <4>2 DEF Registered
    <3> QED
      BY <3>2, <3>3
  <2> QED
    BY <1>2, <1>4, <2>3, <2>6, <2>8, <2>9 DEF IInv
<1> QED
  BY <1>5, <1>6

(* A start that fails, and a worker that is dropped, leave no guest.       *)
LEMMA GoneKeeps ==
  ASSUME IInv, StartFail \/ Drop
  PROVE  IInv'
<1>1. /\ stage' = "none" /\ todo' = <<>> /\ ran' = <<>>
      /\ logger' = None /\ handler' = None /\ record' = NoRecord
      /\ answer' \in {Error500, NoAnswer}
      /\ UNCHANGED <<exports, deed, filter>>
  BY DEF StartFail, Drop, NoGuest, fileVars
<1>2. TypeOK /\ FileKept
  BY DEF IInv
<1>3. Range(<<>>) = {}
  BY DEF Range
<1>4. TypeOK'
  BY <1>1, <1>2 DEF TypeOK, NoRecord, Error500, NoAnswer, Answer
<1>5. FileKept' /\ Started' /\ LoggerSet' /\ Registered'
  BY <1>1, <1>2, <1>3, Apart DEF FileKept, Started, LoggerSet, Registered, IsInjective
<1>6. NoRecordLost' /\ AnsweredByTheHandler'
  BY <1>1 DEF NoRecordLost, AnsweredByTheHandler, Error500, NoAnswer, Answer, NoRecord
<1> QED
  BY <1>4, <1>5, <1>6 DEF IInv

LEMMA NewKeeps ==
  ASSUME IInv, New
  PROVE  IInv'
<1>1. /\ stage = "none" /\ stage' = "starting" /\ todo' = Plan /\ answer' = NoAnswer
      /\ UNCHANGED <<exports, deed, filter, ran, logger, handler, record>>
  BY DEF New, fileVars, memoryVars, Plan
<1>2. TypeOK /\ FileKept /\ LoggerSet /\ Registered /\ NoRecordLost /\ ran = <<>>
  BY <1>1 DEF IInv, TypeOK
<1>3. Plan \in Seq(Functions \cup {None}) /\ Len(Plan) \in Nat /\ DOMAIN Plan = 1 .. Len(Plan)
  <2>1. exports \in Seq(Functions \ {Main})
    BY <1>2 DEF TypeOK
  <2> QED
    BY <2>1, PlanShape, LenProperties
<1>4. TypeOK'
  BY <1>1, <1>2, <1>3 DEF TypeOK, NoAnswer, Answer
<1>5. Started'
  <2>1. Plan' = Plan
    BY <1>1, PlanStays
  <2>2. Done' = 0
    BY <1>1, <1>3, <2>1 DEF Done
  <2>3. Range(<<>>) = {} /\ DOMAIN <<>> = {} /\ 1 .. 0 = {}
    BY DEF Range
  <2> QED
    BY <1>1, <1>2, <1>3, <2>1, <2>2, <2>3 DEF Started
<1>6. FileKept' /\ LoggerSet' /\ Registered' /\ NoRecordLost'
  BY <1>1, <1>2 DEF FileKept, LoggerSet, Registered, NoRecordLost, IsInjective, Range, NoRecord, Passes, Levels
<1>7. AnsweredByTheHandler'
  BY <1>1 DEF AnsweredByTheHandler, NoAnswer, Answer
<1> QED
  BY <1>4, <1>5, <1>6, <1>7 DEF IInv

(* A worker that is ready has the whole plan behind it.                    *)
LEMMA ReadyFacts ==
  ASSUME IInv, stage = "ready"
  PROVE  /\ todo = <<>> /\ Done = Len(Plan)
         /\ Range(ran) = Range(exports) \cup {Main}
         /\ {f \in Range(exports) \cup {Main} : deed[f] = "register"} = {handler} \ {None}
         /\ handler \in Functions \cup {None}
         /\ PreInit \in Range(exports) => logger = filter /\ filter # None
<1>1. TypeOK /\ FileKept /\ Started /\ LoggerSet /\ Registered
  BY DEF IInv
<1>2. todo = <<>> /\ handler \in Functions \cup {None} /\ exports \in Seq(Functions \ {Main})
      /\ filter \in HostFilters
  BY <1>1 DEF TypeOK
<1>3. Done = Len(Plan) /\ DOMAIN Plan = 1 .. Len(Plan)
  <2>1. Len(Plan) = Done + Len(todo) /\ Done \in 0 .. Len(Plan) /\ DOMAIN Plan = 1 .. Len(Plan)
    BY StartFacts
  <2>2. Len(<<>>) = 0
    OBVIOUS
  <2> QED
    BY <1>2, <2>1, <2>2
<1>4. Range(ran) = {Plan[i] : i \in DOMAIN Plan} \ {None}
  BY <1>1, <1>3 DEF Started
<1>5. Range(ran) = Range(exports) \cup {Main}
  BY <1>1, <1>2, <1>4, PlanFacts DEF FileKept
<1> QED
  BY <1>1, <1>2, <1>3, <1>5, MaxLevelIsFilter DEF LoggerSet, Registered

LEMMA RequestKeeps ==
  ASSUME IInv, Built \/ NoHandler \/ HandlerResponds \/ HandlerTraps
  PROVE  IInv'
<1>1. /\ UNCHANGED <<exports, deed, filter, todo, ran, logger, handler>>
      /\ stage \in {"starting", "ready"} /\ stage' = "ready" /\ todo = <<>>
  BY ReadyFacts DEF Built, NoHandler, HandlerResponds, HandlerTraps, fileVars, memoryVars
<1>2. TypeOK /\ FileKept /\ LoggerSet /\ Registered /\ NoRecordLost /\ AnsweredByTheHandler
  BY DEF IInv
<1>3. \/ UNCHANGED record
      \/ stage = "ready" /\ record' \in Records /\ (logger # None => Heard(record', logger))
  <2>1. ASSUME NEW l \in RecordLevels, Log(l)
        PROVE  record' \in Records /\ (logger # None => Heard(record', logger))
    BY <2>1, LogEffect
  <2> QED
    BY <2>1 DEF Built, NoHandler, HandlerResponds, HandlerTraps, memoryVars
<1>4. \/ answer' = answer
      \/ stage = "ready" /\ handler = None /\ answer' = Answer("404", None)
      \/ stage = "ready" /\ handler # None /\ answer' = Answer("page", handler)
      \/ answer' = Error500
  BY DEF Built, NoHandler, HandlerResponds, HandlerTraps
<1>5. TypeOK'
  <2>1. record' \in Records
    BY <1>2, <1>3 DEF TypeOK, Records
  <2>2. answer' \in [status : {"none", "404", "500", "page"}, by : Functions \cup {None}]
    BY <1>2, <1>4 DEF TypeOK, Answer, Error500
  <2> QED
    BY <1>1, <1>2, <2>1, <2>2 DEF TypeOK, Records
<1>6. Started'
  BY <1>1, StartStays
<1>7. FileKept' /\ Registered'
  BY <1>1, <1>2 DEF FileKept, Registered, IsInjective, Range
<1>8. Range(exports') = Range(exports) /\ Range(ran') = Range(ran)
  BY <1>1
<1>9. LoggerSet' /\ NoRecordLost'
  <2>1. CASE UNCHANGED record
    BY <1>1, <1>2, <1>8, <2>1 DEF LoggerSet, NoRecordLost, NoRecord, Passes, Levels
  <2>2. CASE stage = "ready" /\ (logger # None => Heard(record', logger))
    <3>1. PreInit \in Range(exports) => PreInit \in Range(ran) /\ logger = filter /\ filter # None
      BY <2>2, ReadyFacts
    <3>2. PreInit \in Range(exports) => Heard(record', filter)
      BY <2>2, <3>1
    <3> QED
      BY <1>1, <1>8, <3>1, <3>2 DEF LoggerSet, NoRecordLost, Heard
  <2> QED
    BY <1>3, <2>1, <2>2
<1>10. AnsweredByTheHandler'
  <2> DEFINE R == {f \in Range(exports) \cup {Main} : deed[f] = "register"}
  <2>1. {f \in Range(exports') \cup {Main} : deed'[f] = "register"} = R
    BY <1>1, <1>8
  <2>2. /\ answer'.status = "page" => R = {answer'.by}
        /\ answer'.status = "404" => R = {}
    <3>1. CASE answer' = answer \/ answer' = Error500
      BY <1>2, <3>1 DEF AnsweredByTheHandler, Error500, Answer
    <3>2. CASE stage = "ready" /\ handler = None /\ answer' = Answer("404", None)
      <4>1. R = {handler} \ {None}
        BY <3>2, ReadyFacts
      <4> QED
        BY <3>2, <4>1 DEF Answer
    <3>3. CASE stage = "ready" /\ handler # None /\ answer' = Answer("page", handler)
      <4>1. R = {handler} \ {None}
        BY <3>3, ReadyFacts
      <4>2. answer'.status = "page" /\ answer'.by = handler
        BY <3>3 DEF Answer
      <4> QED
        BY <3>3, <4>1, <4>2
    <3> QED
      BY <1>4, <3>1, <3>2, <3>3
  <2> QED
    BY <2>1, <2>2 DEF AnsweredByTheHandler
<1> QED
  BY <1>5, <1>6, <1>7, <1>9, <1>10 DEF IInv

-----------------------------------------------------------------------------
LEMMA InitIInv == Init => IInv
<1> SUFFICES ASSUME Init PROVE IInv
  OBVIOUS
<1>1. /\ deed \in [Functions -> Deeds] /\ deed[PreInit] \in {"nothing", "wrong_type"}
      /\ filter \in HostFilters /\ stage = "none" /\ todo = <<>> /\ ran = <<>>
      /\ logger = None /\ handler = None /\ record = NoRecord /\ answer = NoAnswer
  BY DEF Init
<1>2. exports \in Seq(Functions \ {Main}) /\ IsInjective(exports)
  <2>1. PICK S \in SUBSET (Functions \ {Main}) : exports \in SetToSeqs(S)
    BY DEF Init
  <2> DEFINE n == Cardinality(S)
  <2>2. exports \in [1 .. n -> S] /\ \A i, j \in 1 .. n : i # j => exports[i] # exports[j]
    BY <2>1 DEF SetToSeqs
  <2>3. n \in Nat
    <3>1. IsFiniteSet(Hooks) /\ IsFiniteSet({PreInit, PostInit, Main})
      <4>1. IsFiniteSet({} \cup {PreInit})
        BY FS_EmptySet, FS_AddElement
      <4>2. IsFiniteSet(({} \cup {PreInit}) \cup {PostInit})
        BY <4>1, FS_AddElement
      <4>3. IsFiniteSet((({} \cup {PreInit}) \cup {PostInit}) \cup {Main})
        BY <4>2, FS_AddElement
      <4>4. (({} \cup {PreInit}) \cup {PostInit}) \cup {Main} = {PreInit, PostInit, Main}
        OBVIOUS
      <4> QED
        BY <4>3, <4>4, GuestAssumption DEF GuestAssumption
    <3>2. IsFiniteSet(Functions)
      BY <3>1, FS_Union DEF Functions
    <3>3. IsFiniteSet(S)
      BY <3>2, FS_Subset
    <3> QED
      BY <3>3, FS_CardinalityType
  <2> HIDE DEF n
  <2>4. exports \in Seq(Functions \ {Main})
    <3>1. exports \in [1 .. n -> Functions \ {Main}]
      BY <2>2
    <3> QED
      BY <2>3, <3>1, SeqDef
  <2> QED
    BY <2>2, <2>4 DEF IsInjective
<1>3. TypeOK
  BY <1>1, <1>2 DEF TypeOK, NoRecord, NoAnswer, Answer
<1>4. Range(ran) = {}
  BY <1>1 DEF Range
<1>5. FileKept /\ Started /\ LoggerSet /\ Registered
  BY <1>1, <1>2, <1>4 DEF FileKept, Started, LoggerSet, Registered
<1>6. NoRecordLost /\ AnsweredByTheHandler
  BY <1>1 DEF NoRecordLost, AnsweredByTheHandler, NoAnswer, Answer
<1> QED
  BY <1>3, <1>5, <1>6 DEF IInv

LEMMA NextIInv == IInv /\ [Next]_vars => IInv'
<1> SUFFICES ASSUME IInv, [Next]_vars PROVE IInv'
  OBVIOUS
<1>1. CASE UNCHANGED vars
  <2>1. UNCHANGED <<exports, deed, filter, stage, todo, ran, logger, handler, record, answer>>
    BY <1>1 DEF vars, fileVars, memoryVars
  <2>2. TypeOK'
    BY <2>1 DEF IInv, TypeOK
  <2>3. Range(exports') = Range(exports) /\ Range(ran') = Range(ran)
    BY <2>1
  <2>4. FileKept' /\ Registered' /\ LoggerSet'
    BY <2>1, <2>3 DEF IInv, FileKept, Registered, LoggerSet, IsInjective, NoRecord
  <2>5. Started'
    <3>1. CASE stage = "none"
      BY <2>1, <3>1 DEF Started
    <3>2. CASE stage # "none"
      BY <2>1, <3>2, StartStays
    <3> QED
      BY <3>1, <3>2
  <2>6. NoRecordLost' /\ AnsweredByTheHandler'
    BY <2>1, <2>3 DEF IInv, NoRecordLost, AnsweredByTheHandler, NoRecord, Passes, Levels
  <2> QED
    BY <2>2, <2>4, <2>5, <2>6 DEF IInv
<1> QED
  BY <1>1, NewKeeps, GoneKeeps, CallNextKeeps, RequestKeeps DEF Next

-----------------------------------------------------------------------------
(* What has run is what the plan has up to where the start is, and what is *)
(* registered and logged is what that has done.                            *)
THEOREM Invariant == Spec => []IInv
BY InitIInv, NextIInv, PTL DEF Spec

(* A guest that is no more leaves nothing: the next one starts with an     *)
(* empty memory, and only a start has functions left to call.              *)
THEOREM TypeCorrect == Spec => []TypeOK
<1>1. IInv => TypeOK
  BY DEF IInv
<1> QED
  BY <1>1, Invariant, PTL

(* A worker is cached only after its functions have returned, each once    *)
(* and in the order of call_init, whatever the order of its exports.       *)
THEOREM StartedInOrderHolds == Spec => []StartedInOrder
<1>1. ASSUME IInv, stage = "ready"
      PROVE  StartedInOrder
  <2> DEFINE n == Len(exports)
             At(f) == CHOOSE i \in DOMAIN ran : ran[i] = f
  <2>1. exports \in Seq(Functions \ {Main}) /\ IsInjective(exports) /\ ran \in Seq(Functions)
    BY <1>1 DEF IInv, TypeOK, FileKept
  <2>2. /\ n \in Nat /\ DOMAIN exports = 1 .. n
        /\ DOMAIN Plan = 1 .. n + 3
        /\ Plan[1] = IF PreInit \in Range(exports) THEN PreInit ELSE None
        /\ \A i \in 1 .. n : Plan[i + 1] = IF exports[i] \in Hooks THEN exports[i] ELSE None
        /\ Plan[n + 2] = IF PostInit \in Range(exports) THEN PostInit ELSE None
        /\ Plan[n + 3] = Main
    BY <2>1, PlanShape
  <2>3. \A i, j \in DOMAIN Plan : Plan[i] = Plan[j] /\ Plan[i] # None => i = j
    BY <2>1, PlanFacts
  <2>4. Range(ran) = Range(exports) \cup {Main}
    BY <1>1, ReadyFacts
  <2>5. /\ Len(ran) \in Nat /\ DOMAIN ran = 1 .. Len(ran)
        /\ \A i \in DOMAIN ran : ran[i] \in Functions /\ ran[i] # None
    BY <2>1, LenProperties, ElementOfSeq, Apart
  <2> HIDE DEF n
  <2>6. ASSUME NEW i \in DOMAIN ran, NEW j \in DOMAIN ran, i < j
        PROVE  \E p, q \in DOMAIN Plan : p < q /\ Plan[p] = ran[i] /\ Plan[q] = ran[j]
    BY <1>1, <2>6 DEF IInv, Started, Comes
  <2>7. IsInjective(ran)
    <3>1. ASSUME NEW i \in DOMAIN ran, NEW j \in DOMAIN ran, i < j
          PROVE  ran[i] # ran[j]
      <4>1. PICK p \in DOMAIN Plan, q \in DOMAIN Plan : p < q /\ Plan[p] = ran[i] /\ Plan[q] = ran[j]
        BY <2>6, <3>1
      <4>2. p # q
        BY <2>2, <4>1
      <4> QED
        BY <2>3, <2>5, <4>1, <4>2
    <3>2. \A i, j \in DOMAIN ran : i < j \/ j < i \/ i = j
      BY <2>5
    <3> QED
      BY <3>1, <3>2 DEF IsInjective
  <2>8. ran[Len(ran)] = Main
    <3>1. PICK i \in DOMAIN ran : ran[i] = Main
      BY <2>4 DEF Range
    <3>2. CASE i < Len(ran)
      <4>1. Len(ran) \in DOMAIN ran
        BY <2>5, <3>1
      <4>2. PICK p \in DOMAIN Plan, q \in DOMAIN Plan : p < q /\ Plan[p] = Main
        BY <2>6, <3>1, <3>2, <4>1
      <4>3. p = n + 3
        BY <2>2, <2>3, <4>2, Apart
      <4> QED
        BY <2>2, <4>2, <4>3
    <3> QED
      BY <2>5, <3>1, <3>2
  <2>9. ASSUME NEW f \in Range(exports), NEW g \in Range(exports),
               \E p, q \in DOMAIN Plan : p < q /\ Plan[p] = f /\ Plan[q] = g
        PROVE  At(f) < At(g)
    <3>1. PICK p \in DOMAIN Plan, q \in DOMAIN Plan : p < q /\ Plan[p] = f /\ Plan[q] = g
      BY <2>9
    <3>2. /\ At(f) \in DOMAIN ran /\ ran[At(f)] = f
          /\ At(g) \in DOMAIN ran /\ ran[At(g)] = g
      BY <2>4 DEF Range
    <3>3. f # None /\ g # None
      BY <2>5, <3>2
    <3> HIDE DEF At
    <3>4. CASE At(g) < At(f)
      <4>1. PICK r \in DOMAIN Plan, s \in DOMAIN Plan : r < s /\ Plan[r] = g /\ Plan[s] = f
        BY <2>6, <3>2, <3>4
      <4>2. r = q /\ s = p
        BY <2>3, <3>1, <3>3, <4>1
      <4> QED
        BY <2>2, <3>1, <4>1, <4>2
    <3>5. CASE At(g) = At(f)
      <4>1. f = g
        BY <3>2, <3>5
      <4>2. p = q
        BY <2>3, <3>1, <3>3, <4>1
      <4> QED
        BY <2>2, <3>1, <4>2
    <3> QED
      BY <2>5, <3>2, <3>4, <3>5
  <2>10. ASSUME NEW f \in Range(exports)
         PROVE  /\ f \in Functions \ {Main}
                /\ f = PreInit => Plan[1] = f
                /\ f = PostInit => Plan[n + 2] = f
                /\ f \in Hooks => \E i \in 1 .. n : exports[i] = f /\ Plan[i + 1] = f
    <3>1. PICK i \in 1 .. n : exports[i] = f
      BY <2>2 DEF Range
    <3>2. f \in Functions \ {Main}
      BY <2>1, <3>1, ElementOfSeq DEF n
    <3> QED
      BY <2>2, <3>1, <3>2
  <2>11. ASSUME NEW f \in Range(exports), NEW g \in Range(exports),
                \/ f = PreInit /\ g # PreInit
                \/ g = PostInit /\ f # PostInit
                \/ f \in Hooks /\ g \in Hooks
                     /\ \E i, j \in DOMAIN exports : i < j /\ exports[i] = f /\ exports[j] = g
         PROVE  At(f) < At(g)
    <3> HIDE DEF At
    <3>1. CASE f = PreInit /\ g # PreInit
      <4>1. PICK q \in DOMAIN Plan : q > 1 /\ Plan[q] = g
        <5>1. CASE g = PostInit
          BY <2>2, <2>10, <5>1
        <5>2. CASE g \in Hooks
          <6>1. PICK i \in 1 .. n : Plan[i + 1] = g
            BY <2>10, <5>2
          <6>2. i + 1 \in DOMAIN Plan /\ i + 1 > 1
            BY <2>2
          <6> QED
            BY <6>1, <6>2
        <5> QED
          BY <2>10, <3>1, <5>1, <5>2, Apart
      <4>2. 1 \in DOMAIN Plan /\ Plan[1] = f /\ 1 < q
        BY <2>2, <2>10, <3>1, <4>1
      <4> QED
        BY <2>9, <4>1, <4>2
    <3>2. CASE g = PostInit /\ f # PostInit
      <4>1. PICK p \in DOMAIN Plan : p < n + 2 /\ Plan[p] = f
        <5>1. CASE f = PreInit
          BY <2>2, <2>10, <5>1
        <5>2. CASE f \in Hooks
          <6>1. PICK i \in 1 .. n : Plan[i + 1] = f
            BY <2>10, <5>2
          <6>2. i + 1 \in DOMAIN Plan /\ i + 1 < n + 2
            BY <2>2
          <6> QED
            BY <6>1, <6>2
        <5> QED
          BY <2>10, <3>2, <5>1, <5>2, Apart
      <4>2. n + 2 \in DOMAIN Plan /\ Plan[n + 2] = g
        BY <2>2, <2>10, <3>2
      <4> QED
        BY <2>9, <4>1, <4>2
    <3>3. CASE f \in Hooks /\ g \in Hooks
                 /\ \E i, j \in DOMAIN exports : i < j /\ exports[i] = f /\ exports[j] = g
      <4>1. PICK i \in 1 .. n, j \in 1 .. n : i < j /\ exports[i] = f /\ exports[j] = g
        BY <2>2, <3>3
      <4>2. /\ i + 1 \in DOMAIN Plan /\ j + 1 \in DOMAIN Plan /\ i + 1 < j + 1
            /\ Plan[i + 1] = f /\ Plan[j + 1] = g
        BY <2>2, <3>3, <4>1
      <4> QED
        BY <2>9, <4>2
    <3> QED
      BY <2>11, <3>1, <3>2, <3>3
  <2> QED
    BY <2>4, <2>7, <2>8, <2>11 DEF StartedInOrder
<1>2. IInv => StartedInOrder
  BY <1>1 DEF StartedInOrder
<1> QED
  BY <1>2, Invariant, PTL

(* No record of a guest made with the SDK is lost or changes its level on  *)
(* the way to the host's logger, whatever the filter of the host is.       *)
THEOREM NoRecordLostHolds == Spec => []NoRecordLost
<1>1. IInv => NoRecordLost
  BY DEF IInv
<1> QED
  BY <1>1, Invariant, PTL

(* The page of a module comes from the one function that registers a       *)
(* handler, and "not found" from a module that registers none.             *)
THEOREM AnsweredByTheHandlerHolds == Spec => []AnsweredByTheHandler
<1>1. IInv => AnsweredByTheHandler
  BY DEF IInv
<1> QED
  BY <1>1, Invariant, PTL
=============================================================================
