-------------------------------- MODULE ClientTx --------------------------------
(***************************************************************************)
(* How a guest changes the database: the transaction loop and the queries  *)
(* of the SDK (sdk/src/client.rs, sdk/src/client/transaction.rs) on the    *)
(* host functions of edgedb_client_v1 (server/src/abi/client_v1.rs), a     *)
(* connection pool and EdgeDB.                                             *)
(*                                                                         *)
(* The guests are the workers of one database: they share its pool.  A     *)
(* guest makes one call at a time; one action is a round trip to EdgeDB,   *)
(* or what the guest does between two.  A body runs Queries statements,    *)
(* each of which adds one to a counter; a query on the client is one such  *)
(* statement outside of any transaction.                                   *)
(***************************************************************************)
EXTENDS Naturals, FiniteSets

CONSTANTS
  Guests,         \* the workers that share the pool
  Conns,          \* the connections of the pool
  None,
  MAX_ITERATIONS,
  Queries,        \* how many statements a transaction body runs
  MaxCounter,     \* bound: no call is made that could take the counter further
  Careless        \* what else bodies may do

(* "ignore": go on after a query has failed.  "panic".  "control": run a   *)
(* statement that starts or ends a transaction, and ask for every          *)
(* capability there is (which the SDK does not, but the host functions     *)
(* are there for any guest).                                               *)
Carelessness == {"ignore", "panic", "control"}

ASSUME ClientAssumption ==
  /\ IsFiniteSet(Guests)
  /\ MAX_ITERATIONS \in Nat
  /\ Queries \in Nat \ {0}
  /\ MaxCounter \in Nat
  /\ None \notin Guests \cup Conns
  /\ Careless \subseteq Carelessness

VARIABLES
  counter,  \* the database: what has been committed
  conn,     \* conn[c]: who has the connection c, and its session in EdgeDB
  guest,    \* guest[g]: where guest g is with its call
  reply     \* reply[g]: how its last call was answered

vars == <<counter, conn, guest, reply>>

(* user: None when the connection is idle in the pool.  session: outside   *)
(* of a transaction, in one, or in one that has failed.  seen and pending: *)
(* the counter when the transaction began, and what it has added since.    *)
ConnState == [user : Guests \cup {None}, session : {"none", "open", "failed"},
              seen : 0 .. MaxCounter, pending : 0 .. Queries]
FreshConn == [user |-> None, session |-> "none", seen |-> 0, pending |-> 0]

(* What a statement does, and so needs the permission for: "transaction"   *)
(* stands for all that leave something behind in the session.              *)
Capabilities == {"modifications", "transaction"}

(* tx: the connection in Transaction::transaction; held: the one acquired  *)
(* for a transaction that has not begun, or for a query on the client.     *)
TxPc == {"body", "acquire", "start", "prepare", "execute",
         "commit", "committed", "rollback", "decide"}
QueryPc == {"query_acquire", "query_prepare", "query_execute", "query_done"}
GuestState == [pc : {"idle"} \cup TxPc \cup QueryPc,
               iteration : 0 .. MAX_ITERATIONS, ran : 0 .. Queries,
               error : {"none", "retry", "fatal"},
               tx : Conns \cup {None}, held : Conns \cup {None},
               needs : Capabilities]
IdleGuest == [pc |-> "idle", iteration |-> 0, ran |-> 0, error |-> "none",
              tx |-> None, held |-> None, needs |-> "modifications"]

(* What guest g has in hand is what its call needs, and is its own.        *)
Handles(g) ==
  /\ guest[g].needs # "modifications" => "control" \in Careless
  /\ guest[g].pc \in {"prepare", "execute", "commit", "committed", "rollback"}
       => guest[g].tx # None
  /\ guest[g].held # None <=>
       guest[g].pc \in {"start", "query_prepare", "query_execute", "query_done"}
  /\ \A c \in {guest[g].tx, guest[g].held} \ {None} : conn[c].user = g

TypeOK ==
  /\ counter \in 0 .. MaxCounter
  /\ conn \in [Conns -> ConnState]
  /\ guest \in [Guests -> GuestState]
  /\ reply \in [Guests -> {"none", "ok", "nothing", "err"}]
  /\ \A g \in Guests : Handles(g)

-----------------------------------------------------------------------------
Goto(g, pc) == guest' = [guest EXCEPT ![g].pc = pc]

(* The call ends with r; the handles of the guest are dropped.             *)
Return(g, r) ==
  /\ guest' = [guest EXCEPT ![g] = IdleGuest]
  /\ reply' = [reply EXCEPT ![g] = r]

(* The query in the body fails: the body has an error in its hands.        *)
BodyGets(g, e) ==
  guest' = [guest EXCEPT ![g] = [@ EXCEPT !.pc = "body", !.error = e, !.held = None,
                                          !.needs = "modifications"]]

(* The pool takes a connection back as it is, and replaces one that has    *)
(* lost its peer (on which EdgeDB rolls back whatever was open).           *)
Released(c) == [conn[c] EXCEPT !.user = None]
Release(c) == conn' = [conn EXCEPT ![c] = Released(c)]
Discard(c) == conn' = [conn EXCEPT ![c] = FreshConn]

(* What execute_query and its kin ask for, or a guest on its own.          *)
Flags == IF "control" \in Careless THEN Capabilities ELSE {"modifications"}

(* Mutation of Allowed: the guest gets what it asks for.                   *)
AllowedAsAsked(flags) == flags

(* What the host lets through to EdgeDB, which refuses to prepare a        *)
(* statement that needs more.                                              *)
Allowed(flags) == flags \cap {"modifications"}

(* The session after a statement that EdgeDB has run.                      *)
After(needs, session) ==
  IF needs = "modifications" THEN session
  ELSE IF session = "none" THEN "open" ELSE "none"

(* What the statement adds to the counter.                                 *)
Added(needs) == IF needs = "modifications" THEN 1 ELSE 0

Errors == {"retry", "fatal"}  \* whether the error has the tag SHOULD_RETRY

-----------------------------------------------------------------------------
(* The bound of the model.                                                 *)
Room ==
  counter + Queries * (1 + Cardinality({g \in Guests : guest[g].pc # "idle"})) <= MaxCounter

Transaction(g) ==
  /\ guest[g].pc = "idle"
  /\ Room
  /\ Goto(g, "body")
  /\ UNCHANGED <<counter, conn, reply>>

(* The body runs its next statement: the first one, or one after a START   *)
(* TRANSACTION that failed, has to acquire a connection.                   *)
BodyQuery(g) ==
  /\ guest[g].pc = "body"
  /\ guest[g].error = "none"
  /\ guest[g].ran < Queries
  /\ \E needs \in Flags :
       guest' = [guest EXCEPT ![g] =
         [@ EXCEPT !.pc = IF guest[g].tx = None THEN "acquire" ELSE "prepare",
                   !.needs = needs]]
  /\ UNCHANGED <<counter, conn, reply>>

(* Pool::acquire waits for an idle connection.                             *)
Acquire(g) ==
  /\ guest[g].pc \in {"acquire", "query_acquire"}
  /\ \E c \in Conns :
       /\ conn[c].user = None
       /\ conn' = [conn EXCEPT ![c].user = g]
       /\ guest' = [guest EXCEPT ![g] =
            [@ EXCEPT !.held = c,
                      !.pc = IF guest[g].pc = "acquire" THEN "start" ELSE "query_prepare"]]
  /\ UNCHANGED <<counter, reply>>

AcquireFail(g) ==
  /\ \/ guest[g].pc = "acquire" /\ UNCHANGED reply /\ \E e \in Errors : BodyGets(g, e)
     \/ guest[g].pc = "query_acquire" /\ Return(g, "err")
  /\ UNCHANGED <<counter, conn>>

Start(g) ==
  LET c == guest[g].held
  IN  /\ guest[g].pc = "start"
      /\ conn[c].session = "none"
      /\ conn' = [conn EXCEPT ![c] = [@ EXCEPT !.session = "open", !.seen = counter,
                                               !.pending = 0]]
      /\ guest' = [guest EXCEPT ![g] = [@ EXCEPT !.pc = "prepare", !.tx = c, !.held = None]]
      /\ UNCHANGED <<counter, reply>>

(* Mutation of StartFail: the connection is kept, though not remembered.   *)
StartFailKeeps(g) ==
  /\ guest[g].pc = "start"
  /\ \E e \in Errors : BodyGets(g, e)
  /\ UNCHANGED <<counter, conn, reply>>

(* START TRANSACTION fails: the connection is dropped, and                 *)
(* Transaction::transaction stays None.                                    *)
StartFail(g) ==
  LET c == guest[g].held
  IN  /\ guest[g].pc = "start"
      /\ \E e \in Errors : BodyGets(g, e)
      /\ Release(c) \/ Discard(c)
      /\ UNCHANGED <<counter, reply>>

Prepare(g) ==
  /\ guest[g].pc = "prepare"
  /\ conn[guest[g].tx].session = "open"
  /\ guest[g].needs \in Allowed(Flags)
  /\ Goto(g, "execute")
  /\ UNCHANGED <<counter, conn, reply>>

Execute(g) ==
  LET c == guest[g].tx
  IN  /\ guest[g].pc = "execute"
      /\ conn[c].session = "open"
      /\ conn' = [conn EXCEPT ![c] =
           [@ EXCEPT !.pending = conn[c].pending + Added(guest[g].needs),
                     !.session = After(guest[g].needs, conn[c].session)]]
      /\ guest' = [guest EXCEPT ![g] = [@ EXCEPT !.pc = "body", !.ran = guest[g].ran + 1,
                                               !.needs = "modifications"]]
      /\ UNCHANGED <<counter, reply>>

(* The statement fails: in EdgeDB, which fails the transaction with it; or *)
(* in the host, which converts flags and capabilities, or in the SDK,      *)
(* which encodes arguments before it and decodes data after; the           *)
(* connection may be lost, and the transaction with it.                    *)
QueryFail(g) ==
  LET c == guest[g].tx
  IN  /\ guest[g].pc \in {"prepare", "execute"}
      /\ \E e \in Errors : BodyGets(g, e)
      /\ \/ conn' = [conn EXCEPT ![c] = [@ EXCEPT !.session = "failed", !.pending = 0]]
         \/ /\ conn[c].session = "open"
            /\ \E more \in {0, IF guest[g].pc = "execute" THEN Added(guest[g].needs) ELSE 0} :
                 conn' = [conn EXCEPT ![c].pending = @ + more]
      /\ UNCHANGED <<counter, reply>>

(* A body that does not pass the error on with `?'.                        *)
BodyIgnores(g) ==
  /\ "ignore" \in Careless
  /\ guest[g].pc = "body"
  /\ guest[g].error # "none"
  /\ guest[g].ran < Queries
  /\ guest' = [guest EXCEPT ![g] = [@ EXCEPT !.error = "none", !.ran = guest[g].ran + 1]]
  /\ UNCHANGED <<counter, conn, reply>>

(* The body returns Ok: there is a transaction to commit if it has begun   *)
(* one.                                                                    *)
BodyOk(g) ==
  /\ guest[g].pc = "body"
  /\ guest[g].error = "none"
  /\ guest[g].ran = Queries \/ guest[g].tx = None
  /\ IF guest[g].tx # None THEN Goto(g, "commit") /\ UNCHANGED reply
                           ELSE Return(g, "nothing")
  /\ UNCHANGED <<counter, conn>>

(* Mutation of BodyErr: a body that fails with an error of its own, and    *)
(* not with a query's, leaves its transaction as it is.                    *)
BodyErrNoRollback(g) ==
  /\ guest[g].pc = "body"
  /\ IF guest[g].error = "none" /\ guest[g].tx # None
       THEN /\ Release(guest[g].tx)
            /\ guest' = [guest EXCEPT ![g] =
                 [@ EXCEPT !.pc = "decide", !.error = "fatal", !.tx = None]]
       ELSE /\ guest' = [guest EXCEPT ![g] =
                 [@ EXCEPT !.pc = IF guest[g].tx # None THEN "rollback" ELSE "decide",
                           !.error = IF @ = "none" THEN "fatal" ELSE @]]
            /\ UNCHANGED conn
  /\ UNCHANGED <<counter, reply>>

(* The body returns Err, the query's or one of its own.                    *)
BodyErr(g) ==
  /\ guest[g].pc = "body"
  /\ \E e \in {guest[g].error, "fatal"} \ {"none"} :
       guest' = [guest EXCEPT ![g] =
         [@ EXCEPT !.pc = IF guest[g].tx # None THEN "rollback" ELSE "decide", !.error = e]]
  /\ UNCHANGED <<counter, conn, reply>>

-----------------------------------------------------------------------------
(* EdgeDB commits: only if no other transaction did since this one began.  *)
Commit(g) ==
  LET c == guest[g].tx
  IN  /\ guest[g].pc = "commit"
      /\ conn[c].session = "open"
      /\ conn[c].seen = counter
      /\ counter' = counter + conn[c].pending
      /\ conn' = [conn EXCEPT ![c].session = "none"]
      /\ Goto(g, "committed")
      /\ UNCHANGED reply

Committed(g) ==
  /\ guest[g].pc = "committed"
  /\ Release(guest[g].tx)
  /\ Return(g, "ok")
  /\ UNCHANGED counter

(* EdgeDB refuses: it rolls a transaction that conflicts back, and leaves  *)
(* one that has already failed as it is.  The SDK does not try again.      *)
CommitFail(g) ==
  LET c == guest[g].tx
  IN  /\ guest[g].pc = "commit"
      /\ \/ conn[c].session = "open"
              /\ conn' = [conn EXCEPT ![c] = [Released(c) EXCEPT !.session = "none"]]
         \/ conn[c].session = "failed" /\ Release(c)
      /\ Return(g, "err")
      /\ UNCHANGED counter

(* Mutation of CommitLost: a lost connection counts as an error to retry.  *)
CommitLostRetried(g) ==
  /\ guest[g].pc \in {"commit", "committed"}
  /\ Discard(guest[g].tx)
  /\ guest' = [guest EXCEPT ![g] = [@ EXCEPT !.pc = "decide", !.error = "retry", !.tx = None]]
  /\ UNCHANGED <<counter, reply>>

(* The connection is lost before or after EdgeDB has committed: the SDK    *)
(* cannot tell which.                                                      *)
CommitLost(g) ==
  /\ guest[g].pc \in {"commit", "committed"}
  /\ Discard(guest[g].tx)
  /\ Return(g, "err")
  /\ UNCHANGED counter

Rollback(g) ==
  LET c == guest[g].tx
  IN  /\ guest[g].pc = "rollback"
      /\ conn' = [conn EXCEPT ![c] = [Released(c) EXCEPT !.session = "none"]]
      /\ guest' = [guest EXCEPT ![g] = [@ EXCEPT !.pc = "decide", !.tx = None]]
      /\ UNCHANGED <<counter, reply>>

(* The error of the rollback is returned, the body's is forgotten.         *)
RollbackFail(g) ==
  /\ guest[g].pc = "rollback"
  /\ Discard(guest[g].tx)
  /\ Return(g, "err")
  /\ UNCHANGED counter

(* Mutations of Retry: one iteration too many; iterations not counted.     *)
RetryOnceMore(g) ==
  /\ guest[g].pc = "decide"
  /\ guest[g].error = "retry"
  /\ guest[g].iteration <= MAX_ITERATIONS
  /\ guest' = [guest EXCEPT ![g] =
       [IdleGuest EXCEPT !.pc = "body", !.iteration = guest[g].iteration + 1]]
  /\ UNCHANGED <<counter, conn, reply>>

RetryUncounted(g) ==
  /\ guest[g].pc = "decide"
  /\ guest[g].error = "retry"
  /\ guest[g].iteration < MAX_ITERATIONS
  /\ guest' = [guest EXCEPT ![g] = [IdleGuest EXCEPT !.pc = "body"]]
  /\ UNCHANGED <<counter, conn, reply>>

Retry(g) ==
  /\ guest[g].pc = "decide"
  /\ guest[g].error = "retry"
  /\ guest[g].iteration < MAX_ITERATIONS
  /\ guest' = [guest EXCEPT ![g] =
       [IdleGuest EXCEPT !.pc = "body", !.iteration = guest[g].iteration + 1]]
  /\ UNCHANGED <<counter, conn, reply>>

GiveUp(g) ==
  /\ guest[g].pc = "decide"
  /\ guest[g].error = "fatal" \/ guest[g].iteration >= MAX_ITERATIONS
  /\ Return(g, "err")
  /\ UNCHANGED <<counter, conn>>

(* The body panics.  The worker and its store stay, and with the store the *)
(* table of handles: the connection of a transaction is not dropped.       *)
Trap(g) ==
  /\ "panic" \in Careless
  /\ guest[g].pc = "body"
  /\ Return(g, "err")
  /\ UNCHANGED <<counter, conn>>

-----------------------------------------------------------------------------
(* Client::query and its kin, outside of a transaction.                    *)
Query(g) ==
  /\ guest[g].pc = "idle"
  /\ Room
  /\ \E needs \in Flags :
       guest' = [guest EXCEPT ![g] = [@ EXCEPT !.pc = "query_acquire", !.needs = needs]]
  /\ UNCHANGED <<counter, conn, reply>>

QueryPrepare(g) ==
  /\ guest[g].pc = "query_prepare"
  /\ guest[g].needs \in Allowed(Flags)
  /\ Goto(g, "query_execute")
  /\ UNCHANGED <<counter, conn, reply>>

QueryExecute(g) ==
  LET c == guest[g].held
  IN  /\ guest[g].pc = "query_execute"
      /\ conn[c].session = "none"
      /\ counter' = counter + Added(guest[g].needs)
      /\ conn' = [conn EXCEPT ![c].session = After(guest[g].needs, conn[c].session)]
      /\ Goto(g, "query_done")
      /\ UNCHANGED reply

QueryDone(g) ==
  /\ guest[g].pc = "query_done"
  /\ Release(guest[g].held)
  /\ \E r \in {"ok", "err"} : Return(g, r)   \* Err: the data cannot be decoded
  /\ UNCHANGED counter

(* It fails, or its answer is lost: it is not tried again.                 *)
ClientQueryFail(g) ==
  LET c == guest[g].held
  IN  /\ guest[g].pc \in QueryPc \ {"query_acquire"}
      /\ Release(c) \/ Discard(c)
      /\ Return(g, "err")
      /\ UNCHANGED counter

-----------------------------------------------------------------------------
Init ==
  /\ counter = 0
  /\ conn = [c \in Conns |-> FreshConn]
  /\ guest = [g \in Guests |-> IdleGuest]
  /\ reply = [g \in Guests |-> "none"]

Step(g) ==
  \/ BodyQuery(g) \/ Start(g) \/ StartFail(g)
  \/ Prepare(g) \/ Execute(g) \/ QueryFail(g)
  \/ BodyIgnores(g) \/ BodyOk(g) \/ BodyErr(g)
  \/ Commit(g) \/ Committed(g) \/ CommitFail(g) \/ CommitLost(g)
  \/ Rollback(g) \/ RollbackFail(g) \/ Retry(g) \/ GiveUp(g)
  \/ QueryPrepare(g) \/ QueryExecute(g) \/ QueryDone(g) \/ ClientQueryFail(g)

Next ==
  \E g \in Guests :
    \/ Transaction(g) \/ Query(g)
    \/ Acquire(g) \/ AcquireFail(g) \/ Step(g) \/ Trap(g)

Spec == Init /\ [][Next]_vars

(* EdgeDB answers, or its connection breaks, and bodies end; the pool      *)
(* serves whoever waits for a connection in turn.  Nothing makes a wait    *)
(* for a connection fail.                                                  *)
FairSpec == Spec /\ \A g \in Guests : SF_vars(Step(g) \/ Acquire(g))

-----------------------------------------------------------------------------
(* An idle connection is outside of any transaction, for whoever gets it   *)
(* next: nobody's statement runs in, or is refused because of, a           *)
(* transaction another guest left behind.                                  *)
IdleConnectionsClean ==
  \A c \in Conns : conn[c].user = None => conn[c].session = "none"

Leaked(c) ==
  LET g == conn[c].user
  IN  g # None /\ c \notin {guest[g].tx, guest[g].held}

(* A connection is out of the pool only for a call that is on: a guest     *)
(* that is done, however it ended, has none.                               *)
NoConnectionLeak == \A c \in Conns : ~ Leaked(c)

(* Every call returns: retries come to an end, and nobody starves for a    *)
(* connection, or waits for one with one in hand, as long as bodies that   *)
(* panic have left one in the pool.                                        *)
EveryCallReturns ==
  \A g \in Guests :
    guest[g].pc # "idle" ~> guest[g].pc = "idle" \/ \A c \in Conns : Leaked(c)

-----------------------------------------------------------------------------
(* What the promise sees of a guest.                                       *)
CallOf(x) ==
  [state |-> IF x.pc = "idle" THEN "idle"
             ELSE IF x.pc \in {"committed", "query_done"} THEN "applied" ELSE "running",
   kind  |-> IF x.pc = "idle" THEN "none"
             ELSE IF x.pc \in QueryPc THEN "query" ELSE "transaction"]

calls == [g \in Guests |-> CallOf(guest[g])]

(* All or nothing, unless the body ignores that a query has failed.        *)
Promised == [transaction |-> IF "ignore" \in Careless THEN 0 .. Queries ELSE {Queries},
             query       |-> {1}]

Outer == INSTANCE Transactions WITH Amounts <- Promised, call <- calls

(* The loop, its retries and its lost answers keep to the promise: at most *)
(* once, all or nothing, Ok only if done.                                  *)
ImplementsTransactions == Outer!TxSpec
=============================================================================
