----------------------------- MODULE ClientTx_proofs -----------------------------
(***************************************************************************)
(* Proofs about ClientTx: its invariants, and that it keeps the promise of *)
(* Transactions, for any number of guests and connections, any bound of    *)
(* retries and any length of bodies.                                       *)
(***************************************************************************)
EXTENDS ClientTx, FiniteSetTheorems, TLAPS

-----------------------------------------------------------------------------
(* The inductive invariant.  RoomKept: the bound of the model leaves room  *)
(* for every call that has yet to take effect.                             *)
Unapplied(g) == guest[g].pc \notin {"idle", "committed", "query_done"}
RoomKept == counter + Queries * Cardinality({g \in Guests : Unapplied(g)}) <= MaxCounter

(* Where a guest is in the loop says what it has done and may still do.    *)
InLoop(g) ==
  /\ guest[g].pc = "idle" => guest[g] = IdleGuest
  /\ guest[g].pc \in {"idle", "acquire", "start", "decide"} \cup QueryPc => guest[g].tx = None
  /\ guest[g].pc \notin {"body", "rollback", "decide"} => guest[g].error = "none"
  /\ \/ guest[g].pc \in {"acquire", "start", "prepare", "execute"}
     \/ guest[g].pc = "body" /\ guest[g].error # "none"
     => guest[g].ran < Queries
  /\ guest[g].pc = "commit" => guest[g].ran = Queries
  /\ guest[g].pc \in {"execute", "query_execute"} => guest[g].needs = "modifications"

(* The session has what the body has run since the transaction began, and  *)
(* nothing of it when the connection is not in a transaction.              *)
InSession(g) ==
  /\ guest[g].tx # None /\ guest[g].pc \in {"body", "prepare", "execute", "commit"} =>
       LET c == guest[g].tx
       IN  /\ conn[c].pending <= guest[g].ran + (IF guest[g].error = "none" THEN 0 ELSE 1)
           /\ "ignore" \notin Careless /\ guest[g].error = "none" =>
                conn[c].pending = guest[g].ran /\ conn[c].session = "open"
  /\ guest[g].pc = "committed" => conn[guest[g].tx].session = "none"
  /\ "ignore" \notin Careless =>
       /\ guest[g].tx = None /\ guest[g].pc \in {"body", "acquire", "start"} => guest[g].ran = 0
       /\ guest[g].held # None => conn[guest[g].held].session = "none"

(* IdleConnectionsClean and NoConnectionLeak, and the bodies they hold for.*)
Pooled(c) ==
  /\ "ignore" \notin Careless /\ conn[c].user = None => conn[c].session = "none"
  /\ "panic" \notin Careless => ~ Leaked(c)

IInv ==
  /\ TypeOK
  /\ RoomKept
  /\ \A g \in Guests : InLoop(g) /\ InSession(g)
  /\ \A c \in Conns : Pooled(c)

Replies == {"none", "ok", "nothing", "err"}

-----------------------------------------------------------------------------
(* The bound.  A guest's step that leaves the counter alone leaves room.   *)
LEMMA UnappliedFinite ==
  ASSUME NEW S \in SUBSET Guests
  PROVE  IsFiniteSet(S) /\ Cardinality(S) \in Nat
BY ClientAssumption, FS_Subset, FS_CardinalityType

LEMMA RoomMoves ==
  ASSUME RoomKept, counter \in Nat, counter' = counter,
         \A h \in Guests : Unapplied(h)' => Unapplied(h)
  PROVE  RoomKept'
<1> DEFINE S == {h \in Guests : Unapplied(h)}
           T == {h \in Guests : Unapplied(h)'}
<1>1. T \subseteq S
  OBVIOUS
<1>2. Cardinality(T) <= Cardinality(S) /\ Cardinality(T) \in Nat /\ Cardinality(S) \in Nat
  BY <1>1, UnappliedFinite, FS_Subset
<1>3. \A a, b, q \in Nat : a <= b => q * a <= q * b
  OBVIOUS
<1>4. Queries * Cardinality(T) <= Queries * Cardinality(S)
  BY <1>2, <1>3, ClientAssumption
<1> QED
  BY <1>2, <1>4, ClientAssumption DEF RoomKept

(* A call takes effect: what it adds is within the room it had.            *)
LEMMA RoomApplies ==
  ASSUME RoomKept, counter \in Nat, NEW g \in Guests, NEW n \in 0 .. Queries,
         counter' = counter + n, Unapplied(g), ~ Unapplied(g)',
         \A h \in Guests \ {g} : Unapplied(h)' => Unapplied(h)
  PROVE  RoomKept' /\ counter' \in 0 .. MaxCounter
<1> DEFINE S == {h \in Guests : Unapplied(h)}
           T == {h \in Guests : Unapplied(h)'}
<1>1. T \subseteq S \ {g} /\ g \in S
  OBVIOUS
<1>2. Cardinality(S \ {g}) = Cardinality(S) - 1
  BY <1>1, UnappliedFinite, FS_RemoveElement
<1>3. Cardinality(T) <= Cardinality(S) - 1 /\ Cardinality(T) \in Nat /\ Cardinality(S) \in Nat
  BY <1>1, <1>2, UnappliedFinite, FS_Subset
<1>4. \A a, b, q \in Nat : a <= b - 1 => q * a + q <= q * b /\ q * a \in Nat
  OBVIOUS
<1>5. Queries * Cardinality(T) + Queries <= Queries * Cardinality(S) /\ Queries * Cardinality(T) \in Nat
  BY <1>3, <1>4, ClientAssumption
<1> HIDE DEF S, T
<1>6. Queries * Cardinality(S) \in Nat
  BY <1>3, ClientAssumption
<1>7. counter + Queries * Cardinality(S) <= MaxCounter
  BY DEF RoomKept, S
<1>8. counter' + Queries * Cardinality(T) <= MaxCounter /\ counter' \in 0 .. MaxCounter
  BY <1>5, <1>6, <1>7, ClientAssumption
<1> QED
  BY <1>8 DEF RoomKept, T

(* A call begins when there is room for it and for all that are on.        *)
LEMMA RoomBegins ==
  ASSUME RoomKept, Room, counter \in Nat, NEW g \in Guests, counter' = counter,
         guest[g].pc = "idle", \A h \in Guests \ {g} : Unapplied(h)' => Unapplied(h)
  PROVE  RoomKept'
<1> DEFINE S == {h \in Guests : guest[h].pc # "idle"}
           T == {h \in Guests : Unapplied(h)'}
<1>1. T \subseteq S \cup {g} /\ g \notin S
  BY DEF Unapplied
<1>2. IsFiniteSet(S \cup {g}) /\ Cardinality(S \cup {g}) = Cardinality(S) + 1
  BY <1>1, UnappliedFinite, FS_AddElement
<1>3. Cardinality(T) <= 1 + Cardinality(S) /\ Cardinality(T) \in Nat /\ Cardinality(S) \in Nat
  BY <1>1, <1>2, UnappliedFinite, FS_Subset
<1>4. \A a, b, q \in Nat : a <= b => q * a <= q * b
  OBVIOUS
<1>5. Queries * Cardinality(T) <= Queries * (1 + Cardinality(S))
  BY <1>3, <1>4, ClientAssumption
<1> HIDE DEF S, T
<1>6. counter + Queries * (1 + Cardinality(S)) <= MaxCounter
  BY DEF Room, S
<1>7. Queries * Cardinality(T) \in Nat /\ Queries * (1 + Cardinality(S)) \in Nat
  BY <1>3, ClientAssumption
<1>8. counter' + Queries * Cardinality(T) <= MaxCounter
  BY <1>5, <1>6, <1>7, ClientAssumption
<1> QED
  BY <1>8 DEF RoomKept, T

-----------------------------------------------------------------------------
(* A step of g leaves what is said of another guest as it was: it takes    *)
(* nothing from it, and does not touch its connections.                    *)
LEMMA OthersUndisturbed ==
  ASSUME IInv, NEW g \in Guests, NEW h \in Guests \ {g}, guest'[h] = guest[h],
         \A c \in Conns : conn'[c] = conn[c] \/ conn[c].user \in {g, None}
  PROVE  Handles(h)' /\ InLoop(h)' /\ InSession(h)' /\ (Unapplied(h)' <=> Unapplied(h))
<1>1. h # None
  BY ClientAssumption
<1>2. guest[h].tx \in Conns \cup {None} /\ guest[h].held \in Conns \cup {None}
  BY DEF IInv, TypeOK, GuestState
<1>3. \A c \in {guest[h].tx, guest[h].held} \ {None} : conn[c].user = h /\ conn'[c] = conn[c]
  BY <1>1, <1>2 DEF IInv, TypeOK, Handles
<1>4. Handles(h)'
  BY <1>3 DEF IInv, TypeOK, Handles
<1>5. InLoop(h)' /\ (Unapplied(h)' <=> Unapplied(h))
  BY DEF IInv, InLoop, Unapplied
<1>6. guest[h].pc = "committed" => guest[h].tx # None
  BY DEF IInv, TypeOK, Handles
<1>7. InSession(h)'
  BY <1>3, <1>6 DEF IInv, InSession
<1> QED
  BY <1>4, <1>5, <1>7

(* A step of g keeps the invariant if it does for g and for the            *)
(* connections it touches.                                                 *)
LEMMA StepKeeps ==
  ASSUME IInv, NEW g \in Guests, NEW r \in GuestState,
         guest' = [guest EXCEPT ![g] = r],
         conn' \in [Conns -> ConnState],
         \A c \in Conns : conn'[c] = conn[c] \/ conn[c].user \in {g, None},
         reply' \in [Guests -> Replies],
         counter' \in 0 .. MaxCounter, RoomKept',
         Handles(g)', InLoop(g)', InSession(g)',
         \A c \in Conns : conn'[c] # conn[c] \/ conn[c].user = g => Pooled(c)'
  PROVE  IInv'
<1>1. guest' \in [Guests -> GuestState] /\ \A h \in Guests \ {g} : guest'[h] = guest[h]
  BY DEF IInv, TypeOK
<1>2. \A h \in Guests : Handles(h)' /\ InLoop(h)' /\ InSession(h)'
  BY <1>1, OthersUndisturbed
<1>3. TypeOK'
  BY <1>1, <1>2 DEF TypeOK, Replies
<1>4. ASSUME NEW c \in Conns, conn'[c] = conn[c], conn[c].user # g
      PROVE  Pooled(c)'
  <2>1. conn[c].user \in Guests \cup {None} /\ Pooled(c)
    BY DEF IInv, TypeOK, ConnState
  <2>2. CASE conn[c].user = None
    BY <1>4, <2>1, <2>2 DEF Pooled, Leaked
  <2>3. CASE conn[c].user # None
    <3>1. guest'[conn[c].user] = guest[conn[c].user]
      BY <1>1, <1>4, <2>1, <2>3
    <3> QED
      BY <1>4, <2>1, <3>1 DEF Pooled, Leaked
  <2> QED
    BY <2>2, <2>3
<1> QED
  BY <1>2, <1>3, <1>4 DEF IInv

(* The room that is left, when g is still to apply its call if it was.     *)
LEMMA RoomStays ==
  ASSUME IInv, NEW g \in Guests, NEW r \in GuestState,
         guest' = [guest EXCEPT ![g] = r], counter' = counter,
         guest[g].pc \in {"idle", "committed", "query_done"}
           => r.pc \in {"idle", "committed", "query_done"}
  PROVE  RoomKept' /\ counter' \in 0 .. MaxCounter
<1>1. \A h \in Guests : Unapplied(h)' => Unapplied(h)
  BY DEF IInv, TypeOK, Unapplied
<1> QED
  BY <1>1, RoomMoves, ClientAssumption DEF IInv, TypeOK

(* A step that moves g on and leaves it what it has in hand.               *)
LEMMA MoveKeeps ==
  ASSUME IInv, NEW g \in Guests, NEW r \in GuestState,
         guest' = [guest EXCEPT ![g] = r], conn' = conn,
         reply' \in [Guests -> Replies],
         r.tx = guest[g].tx, r.held = guest[g].held,
         counter' \in 0 .. MaxCounter, RoomKept',
         Handles(g)', InLoop(g)', InSession(g)'
  PROVE  IInv'
<1>1. guest'[g] = r
  BY DEF IInv, TypeOK
<1>2. \A c \in Conns : conn[c].user = g => Pooled(c)'
  BY <1>1 DEF IInv, Pooled, Leaked
<1> QED
  BY <1>1, <1>2, StepKeeps DEF IInv, TypeOK

(* A step that changes the connection g has in hand and keeps it there, or *)
(* puts one there.                                                         *)
LEMMA HoldKeeps ==
  ASSUME IInv, NEW g \in Guests, NEW r \in GuestState, NEW c \in Conns, NEW k \in ConnState,
         guest' = [guest EXCEPT ![g] = r], conn' = [conn EXCEPT ![c] = k],
         reply' \in [Guests -> Replies],
         conn[c].user \in {g, None}, k.user = g, c \in {r.tx, r.held},
         {guest[g].tx, guest[g].held} \subseteq {c, None},
         counter' \in 0 .. MaxCounter, RoomKept',
         Handles(g)', InLoop(g)', InSession(g)'
  PROVE  IInv'
<1>1. guest'[g] = r /\ conn' \in [Conns -> ConnState] /\ conn'[c] = k /\ \A d \in Conns \ {c} : conn'[d] = conn[d]
  BY DEF IInv, TypeOK
<1>2. Pooled(c)'
  BY <1>1, ClientAssumption DEF Pooled, Leaked
<1>3. ASSUME NEW d \in Conns, d # c, conn[d].user = g
      PROVE  Pooled(d)'
  BY <1>1, <1>3, ClientAssumption DEF IInv, Pooled, Leaked
<1>4. \A d \in Conns : conn'[d] # conn[d] \/ conn[d].user = g => Pooled(d)'
  BY <1>1, <1>2, <1>3
<1>5. \A d \in Conns : conn'[d] = conn[d] \/ conn[d].user \in {g, None}
  BY <1>1
<1> QED
  BY <1>1, <1>4, <1>5, StepKeeps

(* A step that gives the connection g has in hand back to the pool.        *)
LEMMA GiveBackKeeps ==
  ASSUME IInv, NEW g \in Guests, NEW r \in GuestState, NEW c \in Conns, NEW k \in ConnState,
         guest' = [guest EXCEPT ![g] = r], conn' = [conn EXCEPT ![c] = k],
         reply' \in [Guests -> Replies],
         conn[c].user = g, k.user = None, "ignore" \notin Careless => k.session = "none",
         {guest[g].tx, guest[g].held} \subseteq {c, None},
         counter' \in 0 .. MaxCounter, RoomKept',
         Handles(g)', InLoop(g)', InSession(g)'
  PROVE  IInv'
<1>1. conn' \in [Conns -> ConnState] /\ conn'[c] = k /\ \A d \in Conns \ {c} : conn'[d] = conn[d]
  BY DEF IInv, TypeOK
<1>2. Pooled(c)'
  BY <1>1 DEF Pooled, Leaked
<1>3. ASSUME NEW d \in Conns, d # c, conn[d].user = g
      PROVE  Pooled(d)'
  BY <1>1, <1>3, ClientAssumption DEF IInv, Pooled, Leaked
<1>4. \A d \in Conns : conn'[d] # conn[d] \/ conn[d].user = g => Pooled(d)'
  BY <1>1, <1>2, <1>3
<1>5. \A d \in Conns : conn'[d] = conn[d] \/ conn[d].user \in {g, None}
  BY <1>1
<1> QED
  BY <1>1, <1>4, <1>5, StepKeeps

LEMMA IdleGuestType == IdleGuest \in GuestState
BY ClientAssumption DEF IdleGuest, GuestState, Capabilities

LEMMA FlagsType == Flags \subseteq Capabilities
BY DEF Flags, Capabilities

LEMMA TransactionKeeps ==
  ASSUME IInv, NEW g \in Guests, Transaction(g)
  PROVE  IInv'
<1> DEFINE r == [IdleGuest EXCEPT !.pc = "body"]
<1>1. guest[g] = IdleGuest
  BY DEF IInv, InLoop, Transaction
<1>2. r \in GuestState /\ guest' = [guest EXCEPT ![g] = r]
  BY <1>1, ClientAssumption DEF Transaction, Goto, IdleGuest, GuestState, TxPc, Capabilities
<1>3. guest'[g] = r /\ \A h \in Guests \ {g} : guest'[h] = guest[h]
  BY <1>2 DEF IInv, TypeOK
<1>4. RoomKept' /\ counter' \in 0 .. MaxCounter
  BY <1>3, RoomBegins DEF IInv, TypeOK, Transaction, Unapplied
<1>5. Handles(g)' /\ InLoop(g)' /\ InSession(g)'
  BY <1>3, ClientAssumption DEF Handles, InLoop, InSession, IdleGuest, QueryPc
<1> QED
  BY <1>1, <1>2, <1>4, <1>5, MoveKeeps DEF Transaction, IdleGuest, IInv, TypeOK, Replies

LEMMA QueryKeeps ==
  ASSUME IInv, NEW g \in Guests, Query(g)
  PROVE  IInv'
<1>1. guest[g] = IdleGuest
  BY DEF IInv, InLoop, Query
<1>2. PICK needs \in Flags :
        guest' = [guest EXCEPT ![g] = [IdleGuest EXCEPT !.pc = "query_acquire", !.needs = needs]]
  BY <1>1 DEF Query
<1> DEFINE r == [IdleGuest EXCEPT !.pc = "query_acquire", !.needs = needs]
<1>3. r \in GuestState
  BY IdleGuestType, FlagsType DEF GuestState, QueryPc
<1>4. guest'[g] = r /\ \A h \in Guests \ {g} : guest'[h] = guest[h]
  BY <1>2 DEF IInv, TypeOK
<1>5. RoomKept' /\ counter' \in 0 .. MaxCounter
  BY <1>4, RoomBegins DEF IInv, TypeOK, Query, Unapplied
<1>6. Handles(g)' /\ InLoop(g)' /\ InSession(g)'
  BY <1>4, ClientAssumption DEF Handles, InLoop, InSession, IdleGuest, QueryPc, Flags, Capabilities
<1> QED
  BY <1>1, <1>2, <1>3, <1>5, <1>6, MoveKeeps DEF Query, IdleGuest, IInv, TypeOK, Replies

LEMMA BodyQueryKeeps ==
  ASSUME IInv, NEW g \in Guests, BodyQuery(g)
  PROVE  IInv'
<1>1. PICK needs \in Flags :
        guest' = [guest EXCEPT ![g] =
          [guest[g] EXCEPT !.pc = IF guest[g].tx = None THEN "acquire" ELSE "prepare",
                           !.needs = needs]]
  BY DEF BodyQuery, IInv, TypeOK
<1> DEFINE r == [guest[g] EXCEPT !.pc = IF guest[g].tx = None THEN "acquire" ELSE "prepare",
                                 !.needs = needs]
<1>2. guest[g] \in GuestState /\ r \in GuestState
  BY DEF IInv, TypeOK, GuestState, TxPc, Capabilities, Flags
<1>3. guest'[g] = r
  BY <1>1 DEF IInv, TypeOK
<1>4. RoomKept' /\ counter' \in 0 .. MaxCounter
  BY <1>1, <1>2, RoomStays DEF BodyQuery
<1>5. Handles(g)' /\ InLoop(g)' /\ InSession(g)'
  BY <1>2, <1>3 DEF IInv, TypeOK, BodyQuery, Handles, InLoop, InSession, QueryPc, Flags, Capabilities, GuestState
<1> QED
  BY <1>1, <1>2, <1>4, <1>5, MoveKeeps DEF BodyQuery, GuestState, IInv, TypeOK, Replies

LEMMA AcquireKeeps ==
  ASSUME IInv, NEW g \in Guests, Acquire(g)
  PROVE  IInv'
<1>1. PICK c \in Conns :
        /\ conn[c].user = None
        /\ conn' = [conn EXCEPT ![c].user = g]
        /\ guest' = [guest EXCEPT ![g] =
             [guest[g] EXCEPT !.held = c,
                              !.pc = IF guest[g].pc = "acquire" THEN "start" ELSE "query_prepare"]]
  BY DEF Acquire
<1> DEFINE r == [guest[g] EXCEPT !.held = c,
                                 !.pc = IF guest[g].pc = "acquire" THEN "start" ELSE "query_prepare"]
<1>2. guest[g] \in GuestState /\ r \in GuestState
  BY DEF IInv, TypeOK, GuestState, TxPc, QueryPc
<1>3. guest'[g] = r
  BY <1>1 DEF IInv, TypeOK
<1>4. /\ conn' \in [Conns -> ConnState]
      /\ conn'[c] = [conn[c] EXCEPT !.user = g] /\ conn[c] \in ConnState
      /\ \A d \in Conns \ {c} : conn'[d] = conn[d]
  BY <1>1 DEF IInv, TypeOK, ConnState
<1>5. RoomKept' /\ counter' \in 0 .. MaxCounter
  BY <1>1, <1>2, RoomStays DEF Acquire
<1>6. guest[g].tx = None /\ guest[g].held = None
  BY DEF IInv, TypeOK, InLoop, Handles, Acquire, QueryPc
<1>7. Handles(g)'
  BY <1>2, <1>3, <1>4, <1>6, ClientAssumption DEF IInv, TypeOK, Acquire, Handles, GuestState, ConnState
<1>8. InLoop(g)'
  BY <1>2, <1>3, <1>6 DEF IInv, Acquire, InLoop, GuestState, QueryPc
<1>9. "ignore" \notin Careless => conn[c].session = "none"
  BY <1>1 DEF IInv, Pooled
<1>10. InSession(g)'
  <2>1. guest'[g].held = c /\ guest'[g].tx = None /\ guest'[g].ran = guest[g].ran
    BY <1>2, <1>3, <1>6 DEF GuestState
  <2>2. guest'[g].pc \in {"start", "query_prepare"} /\ (guest'[g].pc = "start" <=> guest[g].pc = "acquire")
    BY <1>2, <1>3 DEF GuestState, Acquire
  <2>3. conn'[c].session = conn[c].session
    BY <1>4 DEF ConnState
  <2> QED
    BY <1>6, <1>9, <2>1, <2>2, <2>3 DEF IInv, InSession
<1>11. reply' \in [Guests -> Replies]
  BY DEF Acquire, IInv, TypeOK, Replies
<1>12. conn'[c] \in ConnState /\ conn' = [conn EXCEPT ![c] = conn'[c]]
       /\ conn'[c].user = g /\ c = r.held
  BY <1>1, <1>2, <1>4 DEF IInv, TypeOK, ConnState, GuestState
<1>13. /\ c \in {r.tx, r.held} /\ conn[c].user \in {g, None}
       /\ {guest[g].tx, guest[g].held} \subseteq {c, None}
       /\ guest' = [guest EXCEPT ![g] = r]
  BY <1>1, <1>6, <1>12
<1> HIDE DEF r
<1> QED
  BY <1>2, <1>5, <1>7, <1>8, <1>10, <1>11, <1>12, <1>13, HoldKeeps

-----------------------------------------------------------------------------
(* A call that returns leaves its guest with nothing.                      *)
LEMMA Returns ==
  ASSUME IInv, NEW g \in Guests, NEW a \in Replies, Return(g, a), counter' = counter
  PROVE  /\ guest' = [guest EXCEPT ![g] = IdleGuest] /\ guest'[g] = IdleGuest
         /\ reply' \in [Guests -> Replies]
         /\ RoomKept' /\ counter' \in 0 .. MaxCounter
         /\ Handles(g)' /\ InLoop(g)' /\ InSession(g)'
<1>1. guest' = [guest EXCEPT ![g] = IdleGuest] /\ guest'[g] = IdleGuest
  BY DEF Return, IInv, TypeOK
<1>2. reply' \in [Guests -> Replies]
  BY DEF Return, IInv, TypeOK, Replies
<1>3. RoomKept' /\ counter' \in 0 .. MaxCounter
  BY <1>1, RoomStays, IdleGuestType DEF IdleGuest
<1>4. Handles(g)' /\ InLoop(g)' /\ InSession(g)'
  BY <1>1, ClientAssumption DEF Handles, InLoop, InSession, IdleGuest, QueryPc
<1> QED
  BY <1>1, <1>2, <1>3, <1>4

LEMMA ReturnKeeps ==
  ASSUME IInv, NEW g \in Guests, NEW a \in Replies, Return(g, a), counter' = counter,
         conn' = conn, guest[g].tx = None, guest[g].held = None
  PROVE  IInv'
<1>1. IdleGuest.tx = None /\ IdleGuest.held = None
  BY DEF IdleGuest
<1> QED
  BY <1>1, Returns, IdleGuestType, MoveKeeps

LEMMA ReturnGivesBack ==
  ASSUME IInv, NEW g \in Guests, NEW a \in Replies, Return(g, a), counter' = counter,
         NEW c \in Conns, NEW k \in ConnState, conn' = [conn EXCEPT ![c] = k],
         conn[c].user = g, k.user = None, "ignore" \notin Careless => k.session = "none",
         {guest[g].tx, guest[g].held} \subseteq {c, None}
  PROVE  IInv'
BY Returns, IdleGuestType, GiveBackKeeps

(* A body that gets an error still has what it had of its transaction.     *)
LEMMA BodyGetsKeeps ==
  ASSUME IInv, NEW g \in Guests, NEW e \in Errors, BodyGets(g, e), counter' = counter,
         guest[g].pc \in {"acquire", "start", "prepare", "execute"}
  PROVE  /\ guest'[g] \in GuestState
         /\ guest' = [guest EXCEPT ![g] = guest'[g]]
         /\ guest'[g].pc = "body" /\ guest'[g].error = e
         /\ guest'[g].ran = guest[g].ran
         /\ guest'[g].tx = guest[g].tx /\ guest'[g].held = None
         /\ RoomKept' /\ counter' \in 0 .. MaxCounter
         /\ InLoop(g)'
<1> DEFINE r == [guest[g] EXCEPT !.pc = "body", !.error = e, !.held = None,
                                 !.needs = "modifications"]
<1>1. guest[g] \in GuestState /\ r \in GuestState
  BY DEF IInv, TypeOK, GuestState, TxPc, Capabilities, Errors
<1>2. guest' = [guest EXCEPT ![g] = r] /\ guest'[g] = r
  BY DEF IInv, TypeOK, BodyGets
<1>3. RoomKept' /\ counter' \in 0 .. MaxCounter
  BY <1>1, <1>2, RoomStays
<1>4. /\ r.pc = "body" /\ r.error = e /\ r.ran = guest[g].ran
      /\ r.tx = guest[g].tx /\ r.held = None
  BY <1>1 DEF GuestState
<1>5. InLoop(g)'
  BY <1>2, <1>4 DEF IInv, InLoop, QueryPc
<1> QED
  BY <1>1, <1>2, <1>3, <1>4, <1>5

LEMMA ConnTypes ==
  ASSUME IInv, NEW c \in Conns
  PROVE  /\ FreshConn \in ConnState /\ FreshConn.user = None /\ FreshConn.session = "none"
         /\ Released(c) \in ConnState /\ Released(c).user = None
         /\ Released(c).session = conn[c].session
         /\ conn[c] \in ConnState
BY ClientAssumption DEF IInv, TypeOK, ConnState, FreshConn, Released

LEMMA AcquireFailKeeps ==
  ASSUME IInv, NEW g \in Guests, AcquireFail(g)
  PROVE  IInv'
<1>1. guest[g].tx = None /\ guest[g].held = None /\ guest[g] \in GuestState
  BY DEF IInv, TypeOK, InLoop, Handles, AcquireFail, QueryPc
<1>2. CASE guest[g].pc = "acquire" /\ UNCHANGED reply /\ \E e \in Errors : BodyGets(g, e)
  <2>1. PICK e \in Errors : BodyGets(g, e)
    BY <1>2
  <2>2. Handles(g)'
    <3>1. guest'[g].needs = "modifications"
      BY <1>1, <2>1 DEF BodyGets, IInv, TypeOK, GuestState
    <3> QED
      BY <1>1, <1>2, <2>1, <3>1, BodyGetsKeeps DEF AcquireFail, Handles
  <2>3. InSession(g)'
    BY <1>1, <1>2, <2>1, BodyGetsKeeps DEF AcquireFail, IInv, InSession
  <2>4. reply' \in [Guests -> Replies]
    BY <1>2 DEF IInv, TypeOK, Replies
  <2> QED
    BY <1>1, <1>2, <2>1, <2>2, <2>3, <2>4, BodyGetsKeeps, MoveKeeps DEF AcquireFail
<1>3. CASE guest[g].pc = "query_acquire" /\ Return(g, "err")
  BY <1>1, <1>3, ReturnKeeps DEF AcquireFail, Replies
<1> QED
  BY <1>2, <1>3 DEF AcquireFail

LEMMA StartKeeps ==
  ASSUME IInv, NEW g \in Guests, Start(g)
  PROVE  IInv'
<1> DEFINE c == guest[g].held
           r == [guest[g] EXCEPT !.pc = "prepare", !.tx = c, !.held = None]
           k == [conn[c] EXCEPT !.session = "open", !.seen = counter, !.pending = 0]
<1>1. /\ guest[g] \in GuestState /\ c \in Conns /\ conn[c].user = g /\ guest[g].tx = None
      /\ conn[c] \in ConnState
  BY DEF IInv, TypeOK, InLoop, Handles, Start, GuestState
<1>2. r \in GuestState /\ k \in ConnState
  <2>1. counter \in 0 .. MaxCounter /\ 0 \in 0 .. Queries
    BY ClientAssumption DEF IInv, TypeOK
  <2>2. r \in GuestState
    BY <1>1 DEF GuestState, TxPc
  <2>3. k \in ConnState
    BY <1>1, <2>1 DEF ConnState
  <2> QED
    BY <2>2, <2>3
<1>3. guest' = [guest EXCEPT ![g] = r] /\ guest'[g] = r /\ conn' = [conn EXCEPT ![c] = k] /\ conn'[c] = k
  BY <1>1 DEF Start, IInv, TypeOK
<1>4. RoomKept' /\ counter' \in 0 .. MaxCounter
  BY <1>2, <1>3, RoomStays DEF Start
<1>5. /\ r.pc = "prepare" /\ r.tx = c /\ r.held = None /\ r.needs = guest[g].needs
      /\ r.ran = guest[g].ran /\ r.error = guest[g].error
      /\ k.user = g /\ k.session = "open" /\ k.pending = 0
  BY <1>1 DEF GuestState, ConnState
<1>6. Handles(g)'
  BY <1>1, <1>3, <1>5, ClientAssumption DEF IInv, TypeOK, Handles
<1>7. InLoop(g)'
  BY <1>3, <1>5 DEF IInv, InLoop, Start, QueryPc
<1>8. InSession(g)'
  <2>1. guest[g].error = "none" /\ guest[g].ran \in Nat
    BY <1>1, ClientAssumption DEF IInv, InLoop, Start, GuestState
  <2>2. "ignore" \notin Careless => guest[g].ran = 0
    BY <1>1 DEF IInv, InSession, Start
  <2>3. /\ guest'[g].pc = "prepare" /\ guest'[g].tx = c /\ guest'[g].held = None
        /\ guest'[g].error = "none" /\ guest'[g].ran = guest[g].ran
        /\ conn'[c].pending = 0 /\ conn'[c].session = "open"
    BY <1>3, <1>5, <2>1
  <2> HIDE DEF c, r, k
  <2> QED
    BY <2>1, <2>2, <2>3 DEF InSession
<1>9. reply' \in [Guests -> Replies]
  BY DEF Start, IInv, TypeOK, Replies
<1>10. c \in {r.tx, r.held} /\ conn[c].user \in {g, None} /\ {guest[g].tx, guest[g].held} \subseteq {c, None}
  BY <1>1, <1>5
<1> HIDE DEF c, r, k
<1> QED
  BY <1>1, <1>2, <1>3, <1>4, <1>5, <1>6, <1>7, <1>8, <1>9, <1>10, HoldKeeps

LEMMA StartFailKeepsIt ==
  ASSUME IInv, NEW g \in Guests, StartFail(g)
  PROVE  IInv'
<1> DEFINE c == guest[g].held
<1>1. PICK e \in Errors : BodyGets(g, e)
  BY DEF StartFail
<1>2. /\ guest[g] \in GuestState /\ c \in Conns /\ conn[c].user = g /\ guest[g].tx = None
  BY DEF IInv, TypeOK, InLoop, Handles, StartFail, GuestState
<1>3. "ignore" \notin Careless => conn[c].session = "none"
  BY <1>2, ClientAssumption DEF IInv, TypeOK, Handles, InSession, StartFail
<1>4. PICK k \in ConnState :
        /\ conn' = [conn EXCEPT ![c] = k]
        /\ k.user = None /\ ("ignore" \notin Careless => k.session = "none")
  BY <1>2, <1>3, ConnTypes DEF StartFail, Release, Discard
<1>5. Handles(g)'
  <2>1. guest'[g].needs = "modifications"
    BY <1>2, <1>1 DEF BodyGets, IInv, TypeOK, GuestState
  <2> QED
    BY <1>1, <1>2, <2>1, BodyGetsKeeps DEF StartFail, Handles
<1>6. InSession(g)'
  BY <1>1, <1>2, BodyGetsKeeps DEF StartFail, IInv, InSession
<1>7. reply' \in [Guests -> Replies] /\ {guest[g].tx, guest[g].held} \subseteq {c, None}
  BY <1>2 DEF StartFail, IInv, TypeOK, Replies
<1>8. /\ guest'[g] \in GuestState /\ guest' = [guest EXCEPT ![g] = guest'[g]]
      /\ RoomKept' /\ counter' \in 0 .. MaxCounter /\ InLoop(g)'
  BY <1>1, BodyGetsKeeps DEF StartFail
<1> HIDE DEF c
<1> QED
  BY <1>2, <1>4, <1>5, <1>6, <1>7, <1>8, GiveBackKeeps

LEMMA PrepareKeeps ==
  ASSUME IInv, NEW g \in Guests, Prepare(g)
  PROVE  IInv'
<1> DEFINE r == [guest[g] EXCEPT !.pc = "execute"]
<1>1. guest[g] \in GuestState /\ r \in GuestState
  BY DEF IInv, TypeOK, GuestState, TxPc
<1>2. /\ r.pc = "execute" /\ r.tx = guest[g].tx /\ r.held = guest[g].held
      /\ r.needs = guest[g].needs /\ r.ran = guest[g].ran /\ r.error = guest[g].error
  BY <1>1 DEF GuestState
<1>3. guest' = [guest EXCEPT ![g] = r] /\ guest'[g] = r /\ conn' = conn /\ reply' \in [Guests -> Replies]
  BY DEF Prepare, Goto, IInv, TypeOK, Replies
<1>4. RoomKept' /\ counter' \in 0 .. MaxCounter
  BY <1>1, <1>3, RoomStays DEF Prepare
<1>5. guest[g].pc = "prepare" /\ guest[g].needs = "modifications"
  BY DEF Prepare, Allowed
<1> HIDE DEF r
<1>6. Handles(g)'
  BY <1>2, <1>3, <1>5 DEF IInv, TypeOK, Handles
<1>7. InLoop(g)'
  BY <1>2, <1>3, <1>5 DEF IInv, InLoop, QueryPc
<1>8. InSession(g)'
  BY <1>2, <1>3, <1>5 DEF IInv, InSession
<1> QED
  BY <1>1, <1>2, <1>3, <1>4, <1>6, <1>7, <1>8, MoveKeeps

LEMMA ExecuteKeeps ==
  ASSUME IInv, NEW g \in Guests, Execute(g)
  PROVE  IInv'
<1> DEFINE c == guest[g].tx
           r == [guest[g] EXCEPT !.pc = "body", !.ran = guest[g].ran + 1, !.needs = "modifications"]
           k == [conn[c] EXCEPT !.pending = conn[c].pending + Added(guest[g].needs),
                                !.session = After(guest[g].needs, conn[c].session)]
<1>1. /\ guest[g] \in GuestState /\ c \in Conns /\ conn[c] \in ConnState /\ conn[c].user = g
      /\ guest[g].held = None /\ guest[g].pc = "execute"
  BY DEF IInv, TypeOK, Handles, Execute, GuestState
<1>2. /\ guest[g].error = "none" /\ guest[g].ran \in Nat /\ guest[g].ran < Queries
      /\ guest[g].needs = "modifications"
  BY <1>1 DEF IInv, InLoop, GuestState
<1>3. /\ conn[c].pending \in Nat /\ conn[c].pending <= guest[g].ran
      /\ "ignore" \notin Careless => conn[c].pending = guest[g].ran
      /\ conn[c].session = "open"
  BY <1>1, <1>2, ClientAssumption DEF IInv, InSession, ConnState, Execute
<1>4. k = [conn[c] EXCEPT !.pending = conn[c].pending + 1, !.session = "open"]
  BY <1>2, <1>3 DEF Added, After
<1>5. guest[g].ran + 1 \in 0 .. Queries /\ conn[c].pending + 1 \in 0 .. Queries
  BY <1>2, <1>3, ClientAssumption
<1>6. r \in GuestState
  BY <1>1, <1>5 DEF GuestState, TxPc, Capabilities
<1>7. k \in ConnState
  BY <1>1, <1>4, <1>5 DEF ConnState
<1>8. /\ guest' = [guest EXCEPT ![g] = r] /\ guest'[g] = r
      /\ conn' = [conn EXCEPT ![c] = k] /\ conn'[c] = k
      /\ reply' \in [Guests -> Replies]
  BY <1>1 DEF Execute, IInv, TypeOK, Replies
<1>9. RoomKept' /\ counter' \in 0 .. MaxCounter
  BY <1>1, <1>6, <1>8, RoomStays DEF Execute
<1>10. /\ r.pc = "body" /\ r.tx = c /\ r.held = None /\ r.needs = "modifications"
       /\ r.ran = guest[g].ran + 1 /\ r.error = "none"
       /\ k.user = g /\ k.session = "open" /\ k.pending = conn[c].pending + 1
  BY <1>1, <1>2, <1>4 DEF GuestState, ConnState
<1> HIDE DEF c, r, k
<1>11. c # None
  BY <1>1, ClientAssumption
<1>12. Handles(g)'
  BY <1>8, <1>10 DEF Handles
<1>13. InLoop(g)'
  BY <1>8, <1>10 DEF InLoop, QueryPc
<1>14. InSession(g)'
  BY <1>2, <1>3, <1>8, <1>10, <1>11 DEF InSession
<1>15. c \in {r.tx, r.held} /\ conn[c].user \in {g, None} /\ {guest[g].tx, guest[g].held} \subseteq {c, None}
  BY <1>1, <1>10 DEF c
<1> QED
  BY <1>1, <1>6, <1>7, <1>8, <1>9, <1>10, <1>12, <1>13, <1>14, <1>15, HoldKeeps

LEMMA QueryFailKeeps ==
  ASSUME IInv, NEW g \in Guests, QueryFail(g)
  PROVE  IInv'
<1> DEFINE c == guest[g].tx
<1>1. PICK e \in Errors : BodyGets(g, e)
  BY DEF QueryFail
<1>2. /\ guest[g] \in GuestState /\ c \in Conns /\ conn[c] \in ConnState /\ conn[c].user = g
      /\ guest[g].held = None /\ guest[g].pc \in {"prepare", "execute"}
  BY DEF IInv, TypeOK, Handles, QueryFail, GuestState
<1>3. /\ guest[g].error = "none" /\ guest[g].ran \in Nat /\ guest[g].ran < Queries
  BY <1>2 DEF IInv, InLoop, GuestState
<1>4. conn[c].pending \in Nat /\ conn[c].pending <= guest[g].ran
  BY <1>2, <1>3, ClientAssumption DEF IInv, InSession, ConnState
<1>5. /\ conn'[c] \in ConnState /\ conn' = [conn EXCEPT ![c] = conn'[c]]
      /\ conn'[c].user = g /\ conn'[c].pending \in Nat /\ conn'[c].pending <= guest[g].ran + 1
  <2>1. CASE conn' = [conn EXCEPT ![c] = [conn[c] EXCEPT !.session = "failed", !.pending = 0]]
    <3>1. 0 \in 0 .. Queries /\ 0 <= guest[g].ran + 1
      BY <1>3, ClientAssumption
    <3>2. conn'[c] = [conn[c] EXCEPT !.session = "failed", !.pending = 0]
      BY <1>2, <2>1 DEF IInv, TypeOK
    <3>3. conn'[c] \in ConnState /\ conn'[c].user = g /\ conn'[c].pending = 0
      BY <1>2, <3>1, <3>2 DEF ConnState
    <3>4. conn' = [conn EXCEPT ![c] = conn'[c]]
      BY <1>2, <2>1 DEF IInv, TypeOK
    <3> QED
      BY <3>1, <3>3, <3>4
  <2>2. CASE \E more \in {0, 1} : conn' = [conn EXCEPT ![c].pending = conn[c].pending + more]
    <3>1. PICK more \in {0, 1} : conn' = [conn EXCEPT ![c].pending = conn[c].pending + more]
      BY <2>2
    <3>2. conn[c].pending + more \in 0 .. Queries /\ conn[c].pending + more <= guest[g].ran + 1
      BY <1>3, <1>4, ClientAssumption
    <3>3. conn'[c] = [conn[c] EXCEPT !.pending = conn[c].pending + more]
      BY <1>2, <3>1 DEF IInv, TypeOK
    <3>4. conn'[c] \in ConnState /\ conn'[c].user = g /\ conn'[c].pending = conn[c].pending + more
      BY <1>2, <3>2, <3>3 DEF ConnState
    <3>5. conn' = [conn EXCEPT ![c] = conn'[c]]
      BY <1>2, <3>1 DEF IInv, TypeOK
    <3> QED
      BY <3>2, <3>4, <3>5
  <2> QED
    BY <2>1, <2>2 DEF QueryFail, Added
<1>6. /\ guest'[g] \in GuestState /\ guest' = [guest EXCEPT ![g] = guest'[g]]
      /\ guest'[g].pc = "body" /\ guest'[g].error = e /\ guest'[g].ran = guest[g].ran
      /\ guest'[g].tx = c /\ guest'[g].held = None
      /\ RoomKept' /\ counter' \in 0 .. MaxCounter /\ InLoop(g)'
  BY <1>1, <1>2, BodyGetsKeeps DEF QueryFail
<1>7. reply' \in [Guests -> Replies]
  BY DEF QueryFail, IInv, TypeOK, Replies
<1>8. guest'[g].needs = "modifications"
  BY <1>2, <1>1 DEF BodyGets, IInv, TypeOK, GuestState
<1> HIDE DEF c
<1>9. c # None /\ e # "none"
  BY <1>2, ClientAssumption DEF Errors
<1>10. Handles(g)'
  BY <1>5, <1>6, <1>7, <1>8 DEF Handles
<1>11. InSession(g)'
  BY <1>5, <1>6, <1>7, <1>9 DEF InSession
<1>12. /\ c \in {guest'[g].tx, guest'[g].held} /\ conn[c].user \in {g, None}
       /\ {guest[g].tx, guest[g].held} \subseteq {c, None}
  BY <1>2, <1>6 DEF c
<1> QED
  BY <1>2, <1>5, <1>6, <1>7, <1>10, <1>11, <1>12, HoldKeeps

LEMMA BodyIgnoresKeeps ==
  ASSUME IInv, NEW g \in Guests, BodyIgnores(g)
  PROVE  IInv'
<1> DEFINE r == [guest[g] EXCEPT !.error = "none", !.ran = guest[g].ran + 1]
<1>1. /\ guest[g] \in GuestState /\ guest[g].pc = "body" /\ guest[g].error # "none"
      /\ guest[g].ran < Queries /\ guest[g].ran \in Nat
  BY DEF IInv, TypeOK, BodyIgnores, GuestState
<1>2. guest[g].ran + 1 \in 0 .. Queries
  BY <1>1, ClientAssumption
<1>3. r \in GuestState
  BY <1>1, <1>2 DEF GuestState
<1>4. /\ r.pc = "body" /\ r.error = "none" /\ r.ran = guest[g].ran + 1
      /\ r.tx = guest[g].tx /\ r.held = guest[g].held /\ r.needs = guest[g].needs
  BY <1>1 DEF GuestState
<1>5. guest' = [guest EXCEPT ![g] = r] /\ guest'[g] = r /\ conn' = conn /\ reply' \in [Guests -> Replies]
  BY DEF BodyIgnores, IInv, TypeOK, Replies
<1>6. RoomKept' /\ counter' \in 0 .. MaxCounter
  BY <1>1, <1>3, <1>5, RoomStays DEF BodyIgnores
<1> HIDE DEF r
<1>7. Handles(g)'
  BY <1>1, <1>4, <1>5 DEF IInv, TypeOK, Handles
<1>8. InLoop(g)'
  BY <1>1, <1>4, <1>5 DEF InLoop, QueryPc
<1>9. InSession(g)'
  <2>1. guest[g].tx # None => conn[guest[g].tx].pending <= guest[g].ran + 1
    BY <1>1 DEF IInv, InSession
  <2> QED
    BY <1>1, <1>4, <1>5, <2>1 DEF InSession, BodyIgnores
<1> QED
  BY <1>3, <1>4, <1>5, <1>6, <1>7, <1>8, <1>9, MoveKeeps

LEMMA BodyOkKeeps ==
  ASSUME IInv, NEW g \in Guests, BodyOk(g)
  PROVE  IInv'
<1>1. /\ guest[g] \in GuestState /\ guest[g].pc = "body" /\ guest[g].error = "none"
      /\ guest[g].ran = Queries \/ guest[g].tx = None
      /\ guest[g].held = None
  BY DEF IInv, TypeOK, BodyOk, Handles
<1>2. CASE guest[g].tx = None
  BY <1>1, <1>2, ReturnKeeps DEF BodyOk, Replies
<1>3. CASE guest[g].tx # None
  <2> DEFINE r == [guest[g] EXCEPT !.pc = "commit"]
  <2>1. r \in GuestState
    BY <1>1 DEF GuestState, TxPc
  <2>2. /\ r.pc = "commit" /\ r.error = "none" /\ r.ran = guest[g].ran
        /\ r.tx = guest[g].tx /\ r.held = guest[g].held /\ r.needs = guest[g].needs
    BY <1>1 DEF GuestState
  <2>3. guest' = [guest EXCEPT ![g] = r] /\ guest'[g] = r /\ conn' = conn /\ reply' \in [Guests -> Replies]
    BY <1>3 DEF BodyOk, Goto, IInv, TypeOK, Replies
  <2>4. RoomKept' /\ counter' \in 0 .. MaxCounter
    BY <1>1, <2>1, <2>3, RoomStays DEF BodyOk
  <2> HIDE DEF r
  <2>5. Handles(g)'
    BY <1>1, <1>3, <2>2, <2>3 DEF IInv, TypeOK, Handles
  <2>6. InLoop(g)'
    BY <1>1, <1>3, <2>2, <2>3 DEF InLoop, QueryPc
  <2>7. InSession(g)'
    BY <1>1, <1>3, <2>2, <2>3 DEF IInv, InSession
  <2> QED
    BY <2>1, <2>2, <2>3, <2>4, <2>5, <2>6, <2>7, MoveKeeps
<1> QED
  BY <1>2, <1>3

LEMMA BodyErrKeeps ==
  ASSUME IInv, NEW g \in Guests, BodyErr(g)
  PROVE  IInv'
<1>1. PICK e \in {guest[g].error, "fatal"} \ {"none"} :
        guest' = [guest EXCEPT ![g] =
          [guest[g] EXCEPT !.pc = IF guest[g].tx # None THEN "rollback" ELSE "decide", !.error = e]]
  BY DEF BodyErr
<1> DEFINE r == [guest[g] EXCEPT !.pc = IF guest[g].tx # None THEN "rollback" ELSE "decide", !.error = e]
<1>2. guest[g] \in GuestState /\ guest[g].pc = "body" /\ guest[g].held = None
  BY DEF IInv, TypeOK, BodyErr, Handles
<1>3. r \in GuestState
  BY <1>2 DEF GuestState, TxPc
<1>4. /\ r.pc = (IF guest[g].tx # None THEN "rollback" ELSE "decide") /\ r.error = e
      /\ r.ran = guest[g].ran /\ r.tx = guest[g].tx /\ r.held = guest[g].held
      /\ r.needs = guest[g].needs
  BY <1>2 DEF GuestState
<1>5. guest' = [guest EXCEPT ![g] = r] /\ guest'[g] = r /\ conn' = conn /\ reply' \in [Guests -> Replies]
  BY <1>1 DEF BodyErr, IInv, TypeOK, Replies
<1>6. RoomKept' /\ counter' \in 0 .. MaxCounter
  BY <1>2, <1>3, <1>5, RoomStays DEF BodyErr
<1> HIDE DEF r
<1>7. Handles(g)'
  BY <1>2, <1>4, <1>5 DEF IInv, TypeOK, Handles
<1>8. InLoop(g)'
  BY <1>2, <1>4, <1>5 DEF InLoop, QueryPc
<1>9. InSession(g)'
  BY <1>2, <1>4, <1>5 DEF InSession
<1> QED
  BY <1>3, <1>4, <1>5, <1>6, <1>7, <1>8, <1>9, MoveKeeps

-----------------------------------------------------------------------------
(* What a guest has in hand where it ends a transaction.                   *)
LEMMA Ending ==
  ASSUME IInv, NEW g \in Guests, guest[g].pc \in {"commit", "committed", "rollback"}
  PROVE  /\ guest[g] \in GuestState /\ guest[g].held = None
         /\ guest[g].tx \in Conns /\ conn[guest[g].tx].user = g
         /\ {guest[g].tx, guest[g].held} \subseteq {guest[g].tx, None}
BY DEF IInv, TypeOK, Handles, GuestState

LEMMA CommitKeeps ==
  ASSUME IInv, NEW g \in Guests, Commit(g)
  PROVE  IInv'
<1> DEFINE c == guest[g].tx
           r == [guest[g] EXCEPT !.pc = "committed"]
           k == [conn[c] EXCEPT !.session = "none"]
<1>1. /\ guest[g] \in GuestState /\ c \in Conns /\ conn[c].user = g /\ guest[g].held = None
      /\ guest[g].pc = "commit" /\ conn[c] \in ConnState
  BY Ending DEF Commit, IInv, TypeOK
<1>2. r \in GuestState
  BY <1>1 DEF GuestState, TxPc
<1>3. k \in ConnState
  BY <1>1 DEF ConnState
<1>4. /\ guest' = [guest EXCEPT ![g] = r] /\ guest'[g] = r
      /\ conn' = [conn EXCEPT ![c] = k] /\ conn'[c] = k
      /\ reply' \in [Guests -> Replies]
      /\ \A h \in Guests \ {g} : guest'[h] = guest[h]
  BY <1>1 DEF Commit, Goto, IInv, TypeOK, Replies
<1>5. /\ r.pc = "committed" /\ r.error = guest[g].error /\ r.tx = c /\ r.held = None
      /\ r.needs = guest[g].needs /\ r.ran = guest[g].ran
      /\ k.user = g /\ k.session = "none" /\ conn[c].pending \in 0 .. Queries
  BY <1>1 DEF GuestState, ConnState
<1> HIDE DEF r, k
<1>6. RoomKept' /\ counter' \in 0 .. MaxCounter
  <2>1. Unapplied(g) /\ ~ Unapplied(g)' /\ \A h \in Guests \ {g} : Unapplied(h)' => Unapplied(h)
    BY <1>1, <1>4, <1>5 DEF Unapplied
  <2>2. RoomKept /\ counter \in Nat /\ counter' = counter + conn[c].pending
    BY DEF IInv, TypeOK, Commit
  <2> QED
    BY <1>5, <2>1, <2>2, RoomApplies
<1> HIDE DEF c
<1>7. Handles(g)'
  BY <1>1, <1>4, <1>5, ClientAssumption DEF IInv, TypeOK, Handles
<1>8. InLoop(g)'
  BY <1>1, <1>4, <1>5 DEF IInv, InLoop, QueryPc
<1>9. InSession(g)'
  BY <1>4, <1>5 DEF InSession
<1>10. c \in {r.tx, r.held} /\ conn[c].user \in {g, None} /\ {guest[g].tx, guest[g].held} \subseteq {c, None}
  BY <1>1, <1>5 DEF c
<1> QED
  BY <1>1, <1>2, <1>3, <1>4, <1>5, <1>6, <1>7, <1>8, <1>9, <1>10, HoldKeeps

LEMMA CommittedKeeps ==
  ASSUME IInv, NEW g \in Guests, Committed(g)
  PROVE  IInv'
<1> DEFINE c == guest[g].tx
<1>1. c \in Conns /\ conn[c].user = g /\ {guest[g].tx, guest[g].held} \subseteq {c, None}
  BY Ending DEF Committed
<1>2. conn[c].session = "none"
  BY DEF IInv, InSession, Committed
<1>3. /\ Released(c) \in ConnState /\ Released(c).user = None /\ Released(c).session = "none"
      /\ conn' = [conn EXCEPT ![c] = Released(c)]
  BY <1>1, <1>2, ConnTypes DEF Committed, Release
<1>4. Return(g, "ok") /\ counter' = counter /\ "ok" \in Replies
  BY DEF Committed, Replies
<1> HIDE DEF c
<1> QED
  BY <1>1, <1>3, <1>4, ReturnGivesBack

LEMMA CommitFailKeeps ==
  ASSUME IInv, NEW g \in Guests, CommitFail(g)
  PROVE  IInv'
<1> DEFINE c == guest[g].tx
<1>1. c \in Conns /\ conn[c].user = g /\ {guest[g].tx, guest[g].held} \subseteq {c, None}
  BY Ending DEF CommitFail
<1>2. Return(g, "err") /\ counter' = counter /\ "err" \in Replies
  BY DEF CommitFail, Replies
<1>3. CASE conn' = [conn EXCEPT ![c] = [Released(c) EXCEPT !.session = "none"]]
  <2> DEFINE k == [Released(c) EXCEPT !.session = "none"]
  <2>1. k \in ConnState /\ k.user = None /\ k.session = "none"
    BY <1>1, ConnTypes DEF ConnState
  <2>2. conn' = [conn EXCEPT ![c] = k]
    BY <1>3
  <2> HIDE DEF c, k
  <2> QED
    BY <1>1, <1>2, <2>1, <2>2, ReturnGivesBack
<1>4. CASE conn[c].session = "failed" /\ Release(c)
  <2>1. "ignore" \in Careless
    <3>1. guest[g].pc = "commit" /\ guest[g].tx # None /\ guest[g].error = "none"
      BY <1>1, ClientAssumption DEF CommitFail, IInv, InLoop
    <3>2. conn[guest[g].tx].session # "open"
      BY <1>4
    <3> HIDE DEF c
    <3> QED
      BY <3>1, <3>2 DEF IInv, InSession
  <2>2. Released(c) \in ConnState /\ Released(c).user = None /\ conn' = [conn EXCEPT ![c] = Released(c)]
    BY <1>1, <1>4, ConnTypes DEF Release
  <2> HIDE DEF c
  <2> QED
    BY <1>1, <1>2, <2>1, <2>2, ReturnGivesBack
<1> QED
  BY <1>3, <1>4 DEF CommitFail

(* A call that fails and gives its connection up.                          *)
LEMMA DiscardKeeps ==
  ASSUME IInv, NEW g \in Guests, NEW c \in Conns, Discard(c), Return(g, "err"),
         counter' = counter, conn[c].user = g, {guest[g].tx, guest[g].held} \subseteq {c, None}
  PROVE  IInv'
<1>1. conn' = [conn EXCEPT ![c] = FreshConn] /\ "err" \in Replies
  BY DEF Discard, Replies
<1> QED
  BY <1>1, ConnTypes, ReturnGivesBack

LEMMA CommitLostKeeps ==
  ASSUME IInv, NEW g \in Guests, CommitLost(g)
  PROVE  IInv'
BY Ending, DiscardKeeps DEF CommitLost

LEMMA RollbackFailKeeps ==
  ASSUME IInv, NEW g \in Guests, RollbackFail(g)
  PROVE  IInv'
BY Ending, DiscardKeeps DEF RollbackFail

LEMMA RollbackKeeps ==
  ASSUME IInv, NEW g \in Guests, Rollback(g)
  PROVE  IInv'
<1> DEFINE c == guest[g].tx
           r == [guest[g] EXCEPT !.pc = "decide", !.tx = None]
           k == [Released(c) EXCEPT !.session = "none"]
<1>1. /\ guest[g] \in GuestState /\ c \in Conns /\ conn[c].user = g /\ guest[g].held = None
      /\ guest[g].pc = "rollback" /\ {guest[g].tx, guest[g].held} \subseteq {c, None}
  BY Ending DEF Rollback
<1>2. r \in GuestState
  BY <1>1 DEF GuestState, TxPc
<1>3. k \in ConnState /\ k.user = None /\ k.session = "none"
  BY <1>1, ConnTypes DEF ConnState
<1>4. /\ guest' = [guest EXCEPT ![g] = r] /\ guest'[g] = r
      /\ conn' = [conn EXCEPT ![c] = k]
      /\ reply' \in [Guests -> Replies]
  BY <1>1 DEF Rollback, IInv, TypeOK, Replies
<1>5. /\ r.pc = "decide" /\ r.tx = None /\ r.held = None /\ r.needs = guest[g].needs
  BY <1>1 DEF GuestState
<1>6. RoomKept' /\ counter' \in 0 .. MaxCounter
  BY <1>1, <1>2, <1>4, RoomStays DEF Rollback
<1> HIDE DEF c, r, k
<1>7. Handles(g)'
  BY <1>4, <1>5 DEF IInv, TypeOK, Handles
<1>8. InLoop(g)'
  BY <1>4, <1>5 DEF InLoop, QueryPc
<1>9. InSession(g)'
  BY <1>4, <1>5 DEF InSession
<1> QED
  BY <1>1, <1>2, <1>3, <1>4, <1>6, <1>7, <1>8, <1>9, GiveBackKeeps

(* Between two attempts a guest has nothing.                               *)
LEMMA Deciding ==
  ASSUME IInv, NEW g \in Guests, guest[g].pc = "decide"
  PROVE  guest[g] \in GuestState /\ guest[g].tx = None /\ guest[g].held = None
BY DEF IInv, TypeOK, InLoop, Handles

LEMMA RetryKeeps ==
  ASSUME IInv, NEW g \in Guests, Retry(g)
  PROVE  IInv'
<1> DEFINE r == [IdleGuest EXCEPT !.pc = "body", !.iteration = guest[g].iteration + 1]
<1>1. guest[g].tx = None /\ guest[g].held = None /\ guest[g].pc = "decide"
  BY Deciding DEF Retry
<1>2. guest[g].iteration + 1 \in 0 .. MAX_ITERATIONS
  BY Deciding, ClientAssumption DEF Retry, GuestState
<1>3. r \in GuestState
  BY <1>2, IdleGuestType DEF GuestState, TxPc
<1>4. /\ r.pc = "body" /\ r.error = "none" /\ r.tx = None /\ r.held = None
      /\ r.needs = "modifications" /\ r.ran = 0
  BY DEF IdleGuest
<1>5. guest' = [guest EXCEPT ![g] = r] /\ guest'[g] = r /\ conn' = conn /\ reply' \in [Guests -> Replies]
  BY DEF Retry, IInv, TypeOK, Replies
<1>6. RoomKept' /\ counter' \in 0 .. MaxCounter
  BY <1>1, <1>3, <1>5, RoomStays DEF Retry
<1> HIDE DEF r
<1>7. Handles(g)' /\ InLoop(g)' /\ InSession(g)'
  BY <1>4, <1>5 DEF Handles, InLoop, InSession, QueryPc
<1> QED
  BY <1>1, <1>3, <1>4, <1>5, <1>6, <1>7, MoveKeeps

LEMMA GiveUpKeeps ==
  ASSUME IInv, NEW g \in Guests, GiveUp(g)
  PROVE  IInv'
BY Deciding, ReturnKeeps DEF GiveUp, Replies

LEMMA TrapKeeps ==
  ASSUME IInv, NEW g \in Guests, Trap(g)
  PROVE  IInv'
<1>1. Return(g, "err") /\ counter' = counter /\ conn' = conn /\ "panic" \in Careless
  BY DEF Trap
<1>2. \A c \in Conns : conn[c].user = g => Pooled(c)'
  BY <1>1, ClientAssumption DEF Pooled
<1> QED
  BY <1>1, <1>2, Returns, IdleGuestType, StepKeeps DEF IInv, TypeOK, Replies

-----------------------------------------------------------------------------
(* What a guest has in hand for a query on the client.                     *)
LEMMA Querying ==
  ASSUME IInv, NEW g \in Guests, guest[g].pc \in QueryPc \ {"query_acquire"}
  PROVE  /\ guest[g] \in GuestState /\ guest[g].tx = None
         /\ guest[g].held \in Conns /\ conn[guest[g].held].user = g
         /\ {guest[g].tx, guest[g].held} \subseteq {guest[g].held, None}
         /\ "ignore" \notin Careless => conn[guest[g].held].session = "none"
<1>1. guest[g] \in GuestState /\ guest[g].tx = None /\ guest[g].held # None
  BY DEF IInv, TypeOK, InLoop, Handles, QueryPc
<1> QED
  BY <1>1 DEF IInv, TypeOK, Handles, GuestState, InSession

LEMMA QueryPrepareKeeps ==
  ASSUME IInv, NEW g \in Guests, QueryPrepare(g)
  PROVE  IInv'
<1> DEFINE r == [guest[g] EXCEPT !.pc = "query_execute"]
<1>1. /\ guest[g] \in GuestState /\ guest[g].tx = None /\ guest[g].held # None
      /\ guest[g].pc = "query_prepare" /\ guest[g].needs = "modifications"
  BY Querying, ClientAssumption DEF QueryPrepare, QueryPc, Allowed
<1>2. r \in GuestState
  BY <1>1 DEF GuestState, QueryPc
<1>3. /\ r.pc = "query_execute" /\ r.tx = guest[g].tx /\ r.held = guest[g].held
      /\ r.needs = guest[g].needs /\ r.ran = guest[g].ran /\ r.error = guest[g].error
  BY <1>1 DEF GuestState
<1>4. guest' = [guest EXCEPT ![g] = r] /\ guest'[g] = r /\ conn' = conn /\ reply' \in [Guests -> Replies]
  BY DEF QueryPrepare, Goto, IInv, TypeOK, Replies
<1>5. RoomKept' /\ counter' \in 0 .. MaxCounter
  BY <1>1, <1>2, <1>4, RoomStays DEF QueryPrepare
<1> HIDE DEF r
<1>6. Handles(g)'
  BY <1>1, <1>3, <1>4 DEF IInv, TypeOK, Handles
<1>7. InLoop(g)'
  BY <1>1, <1>3, <1>4 DEF IInv, InLoop, QueryPc
<1>8. InSession(g)'
  BY <1>1, <1>3, <1>4 DEF IInv, InSession
<1> QED
  BY <1>2, <1>3, <1>4, <1>5, <1>6, <1>7, <1>8, MoveKeeps

LEMMA QueryExecuteKeeps ==
  ASSUME IInv, NEW g \in Guests, QueryExecute(g)
  PROVE  IInv'
<1> DEFINE c == guest[g].held
           r == [guest[g] EXCEPT !.pc = "query_done"]
           k == [conn[c] EXCEPT !.session = "none"]
<1>1. /\ guest[g] \in GuestState /\ c \in Conns /\ conn[c].user = g /\ guest[g].tx = None
      /\ guest[g].pc = "query_execute" /\ conn[c] \in ConnState
  BY Querying DEF QueryExecute, IInv, TypeOK, QueryPc
<1>2. guest[g].needs = "modifications"
  BY <1>1 DEF IInv, InLoop
<1>3. r \in GuestState
  BY <1>1 DEF GuestState, QueryPc
<1>4. k \in ConnState
  BY <1>1 DEF ConnState
<1>5. /\ guest' = [guest EXCEPT ![g] = r] /\ guest'[g] = r
      /\ conn' = [conn EXCEPT ![c] = k] /\ conn'[c] = k
      /\ counter' = counter + 1
      /\ reply' \in [Guests -> Replies]
      /\ \A h \in Guests \ {g} : guest'[h] = guest[h]
  BY <1>1, <1>2 DEF QueryExecute, Goto, IInv, TypeOK, Replies, After, Added
<1>6. /\ r.pc = "query_done" /\ r.error = guest[g].error /\ r.tx = None /\ r.held = c
      /\ r.needs = guest[g].needs /\ r.ran = guest[g].ran
      /\ k.user = g /\ k.session = "none"
  BY <1>1 DEF GuestState, ConnState
<1> HIDE DEF r, k
<1>7. RoomKept' /\ counter' \in 0 .. MaxCounter
  <2>1. Unapplied(g) /\ ~ Unapplied(g)' /\ \A h \in Guests \ {g} : Unapplied(h)' => Unapplied(h)
    BY <1>1, <1>5, <1>6 DEF Unapplied
  <2>2. RoomKept /\ counter \in Nat /\ 1 \in 0 .. Queries
    BY ClientAssumption DEF IInv, TypeOK
  <2> QED
    BY <1>5, <2>1, <2>2, RoomApplies
<1> HIDE DEF c
<1>8. Handles(g)'
  BY <1>1, <1>5, <1>6, ClientAssumption DEF IInv, TypeOK, Handles
<1>9. InLoop(g)'
  BY <1>1, <1>5, <1>6 DEF IInv, InLoop, QueryPc
<1>10. InSession(g)'
  BY <1>5, <1>6 DEF InSession
<1>11. c \in {r.tx, r.held} /\ conn[c].user \in {g, None} /\ {guest[g].tx, guest[g].held} \subseteq {c, None}
  BY <1>1, <1>6 DEF c
<1> QED
  BY <1>1, <1>3, <1>4, <1>5, <1>6, <1>7, <1>8, <1>9, <1>10, <1>11, HoldKeeps

LEMMA QueryDoneKeeps ==
  ASSUME IInv, NEW g \in Guests, QueryDone(g)
  PROVE  IInv'
<1> DEFINE c == guest[g].held
<1>1. /\ c \in Conns /\ conn[c].user = g /\ {guest[g].tx, guest[g].held} \subseteq {c, None}
      /\ "ignore" \notin Careless => conn[c].session = "none"
  BY Querying DEF QueryDone, QueryPc
<1>2. /\ Released(c) \in ConnState /\ Released(c).user = None
      /\ Released(c).session = conn[c].session
      /\ conn' = [conn EXCEPT ![c] = Released(c)]
  BY <1>1, ConnTypes DEF QueryDone, Release
<1>3. PICK a \in Replies : Return(g, a)
  BY DEF QueryDone, Replies
<1>4. counter' = counter
  BY DEF QueryDone
<1> HIDE DEF c
<1> QED
  BY <1>1, <1>2, <1>3, <1>4, ReturnGivesBack

LEMMA ClientQueryFailKeeps ==
  ASSUME IInv, NEW g \in Guests, ClientQueryFail(g)
  PROVE  IInv'
<1> DEFINE c == guest[g].held
<1>1. /\ c \in Conns /\ conn[c].user = g /\ {guest[g].tx, guest[g].held} \subseteq {c, None}
      /\ "ignore" \notin Careless => conn[c].session = "none"
  BY Querying DEF ClientQueryFail
<1>2. Return(g, "err") /\ counter' = counter /\ "err" \in Replies
  BY DEF ClientQueryFail, Replies
<1>3. CASE Release(c)
  <2>1. /\ Released(c) \in ConnState /\ Released(c).user = None
        /\ Released(c).session = conn[c].session
        /\ conn' = [conn EXCEPT ![c] = Released(c)]
    BY <1>1, <1>3, ConnTypes DEF Release
  <2> HIDE DEF c
  <2> QED
    BY <1>1, <1>2, <2>1, ReturnGivesBack
<1>4. CASE Discard(c)
  <2> HIDE DEF c
  <2> QED
    BY <1>1, <1>2, <1>4, DiscardKeeps
<1> QED
  BY <1>3, <1>4 DEF ClientQueryFail

-----------------------------------------------------------------------------
LEMMA InitIInv == Init => IInv
<1> SUFFICES ASSUME Init PROVE IInv
  OBVIOUS
<1>1. FreshConn \in ConnState /\ FreshConn.user = None /\ FreshConn.session = "none"
  BY ClientAssumption DEF FreshConn, ConnState
<1>2. ASSUME NEW g \in Guests
      PROVE  Handles(g) /\ InLoop(g) /\ InSession(g) /\ ~ Unapplied(g)
  BY <1>2, ClientAssumption DEF Init, Handles, InLoop, InSession, Unapplied, IdleGuest, QueryPc
<1>3. TypeOK
  BY <1>1, <1>2, IdleGuestType, ClientAssumption DEF Init, TypeOK
<1>4. RoomKept
  <2>1. {g \in Guests : Unapplied(g)} = {}
    BY <1>2
  <2> QED
    BY <2>1, FS_EmptySet, ClientAssumption DEF RoomKept, Init
<1>5. \A c \in Conns : Pooled(c)
  BY <1>1 DEF Init, Pooled, Leaked
<1> QED
  BY <1>2, <1>3, <1>4, <1>5 DEF IInv

LEMMA NextIInv == IInv /\ [Next]_vars => IInv'
<1> SUFFICES ASSUME IInv, [Next]_vars PROVE IInv'
  OBVIOUS
<1>1. CASE UNCHANGED vars
  BY <1>1 DEF vars, IInv, TypeOK, Handles, RoomKept, Unapplied, InLoop, InSession, Pooled, Leaked
<1>2. ASSUME NEW g \in Guests,
             Transaction(g) \/ Query(g) \/ Acquire(g) \/ AcquireFail(g) \/ Trap(g)
      PROVE  IInv'
  BY <1>2, TransactionKeeps, QueryKeeps, AcquireKeeps, AcquireFailKeeps, TrapKeeps
<1>3. ASSUME NEW g \in Guests, Step(g)
      PROVE  IInv'
  <2>1. CASE BodyQuery(g) \/ Start(g) \/ StartFail(g) \/ Prepare(g) \/ Execute(g) \/ QueryFail(g)
    BY <2>1, BodyQueryKeeps, StartKeeps, StartFailKeepsIt, PrepareKeeps, ExecuteKeeps, QueryFailKeeps
  <2>2. CASE BodyIgnores(g) \/ BodyOk(g) \/ BodyErr(g)
    BY <2>2, BodyIgnoresKeeps, BodyOkKeeps, BodyErrKeeps
  <2>3. CASE Commit(g) \/ Committed(g) \/ CommitFail(g) \/ CommitLost(g)
    BY <2>3, CommitKeeps, CommittedKeeps, CommitFailKeeps, CommitLostKeeps
  <2>4. CASE Rollback(g) \/ RollbackFail(g) \/ Retry(g) \/ GiveUp(g)
    BY <2>4, RollbackKeeps, RollbackFailKeeps, RetryKeeps, GiveUpKeeps
  <2>5. CASE QueryPrepare(g) \/ QueryExecute(g) \/ QueryDone(g) \/ ClientQueryFail(g)
    BY <2>5, QueryPrepareKeeps, QueryExecuteKeeps, QueryDoneKeeps, ClientQueryFailKeeps
  <2> QED
    BY <1>3, <2>1, <2>2, <2>3, <2>4, <2>5 DEF Step
<1> QED
  BY <1>1, <1>2, <1>3 DEF Next

(* Where guests are in their calls, what their connections hold, and the   *)
(* room that is left go together, whatever the guests do.                  *)
THEOREM Invariant == Spec => []IInv
BY InitIInv, NextIInv, PTL DEF Spec

(* The variables keep their types, and a guest has in hand what its call   *)
(* needs (Transaction::transaction is Some where the code unwraps it).     *)
THEOREM TypeCorrect == Spec => []TypeOK
<1>1. IInv => TypeOK
  BY DEF IInv
<1> QED
  BY <1>1, Invariant, PTL

(* A guest that is done has no connection, if no body panics.              *)
THEOREM NoConnectionLeakHolds ==
  ASSUME "panic" \notin Careless
  PROVE  Spec => []NoConnectionLeak
<1>1. IInv => NoConnectionLeak
  BY DEF IInv, Pooled, NoConnectionLeak
<1> QED
  BY <1>1, Invariant, PTL

(* Nobody inherits a transaction with a connection from the pool, if no    *)
(* body goes on after a query has failed.                                  *)
THEOREM IdleConnectionsCleanHolds ==
  ASSUME "ignore" \notin Careless
  PROVE  Spec => []IdleConnectionsClean
<1>1. IInv => IdleConnectionsClean
  BY DEF IInv, Pooled, IdleConnectionsClean
<1> QED
  BY <1>1, Invariant, PTL

-----------------------------------------------------------------------------
(* The promise.  A step of the loop that does not end its call or apply it *)
(* is nothing to the caller.                                               *)
LEMMA Maps ==
  ASSUME IInv, NEW g \in Guests, NEW r, guest' = [guest EXCEPT ![g] = r]
  PROVE  calls' = [calls EXCEPT ![g] = CallOf(r)]
BY DEF IInv, TypeOK, calls

LEMMA Stutters ==
  ASSUME IInv, NEW g \in Guests, NEW r, guest' = [guest EXCEPT ![g] = r],
         CallOf(r) = CallOf(guest[g]), counter' = counter, reply' = reply
  PROVE  UNCHANGED Outer!txVars
<1>1. calls' = calls
  BY Maps DEF calls
<1> QED
  BY <1>1 DEF Outer!txVars, calls

(* A call that returns after it has begun.                                 *)
LEMMA Answers ==
  ASSUME IInv, NEW g \in Guests, NEW a, Return(g, a), counter' = counter,
         guest[g].pc # "idle"
  PROVE  /\ a = "err" => Outer!AnswerErr(g)
         /\ a = "ok" /\ guest[g].pc \in {"committed", "query_done"} => Outer!AnswerOk(g)
         /\ a = "nothing" /\ guest[g].pc = "body" => Outer!AnswerNothing(g)
<1>1. calls' = [calls EXCEPT ![g] = Outer!Idle]
  <2>1. CallOf(IdleGuest) = Outer!Idle
    BY DEF CallOf, IdleGuest, Outer!Idle
  <2> QED
    BY <2>1, Maps DEF Return
<1>2. calls[g] # Outer!Idle
  BY DEF calls, CallOf, Outer!Idle
<1>3. guest[g].pc \in {"committed", "query_done"} => calls[g].state = "applied"
  BY DEF calls, CallOf
<1>4. guest[g].pc = "body" => calls[g] = [state |-> "running", kind |-> "transaction"]
  BY DEF calls, CallOf, QueryPc
<1>5. reply' = [reply EXCEPT ![g] = a]
  BY DEF Return
<1> QED
  BY <1>1, <1>2, <1>3, <1>4, <1>5 DEF calls, Outer!AnswerErr, Outer!AnswerOk, Outer!AnswerNothing

LEMMA BeginMaps ==
  ASSUME IInv, NEW g \in Guests, Transaction(g) \/ Query(g)
  PROVE  Outer!TxNext
<1>1. calls[g] = Outer!Idle /\ counter' = counter /\ reply' = reply
  BY DEF Transaction, Query, calls, CallOf, Outer!Idle
<1>2. guest[g] \in GuestState
  BY DEF IInv, TypeOK
<1>3. CASE Transaction(g)
  <2>1. guest' = [guest EXCEPT ![g] = [guest[g] EXCEPT !.pc = "body"]]
    BY <1>3 DEF Transaction, Goto
  <2>2. CallOf([guest[g] EXCEPT !.pc = "body"]) = [state |-> "running", kind |-> "transaction"]
    BY <1>2 DEF CallOf, QueryPc, GuestState
  <2>3. calls' = [calls EXCEPT ![g] = [state |-> "running", kind |-> "transaction"]]
    BY <2>1, <2>2, Maps
  <2> QED
    BY <1>1, <2>3 DEF Outer!TxNext, Outer!Begin, Promised
<1>4. CASE Query(g)
  <2>1. PICK needs \in Flags :
          guest' = [guest EXCEPT ![g] =
                     [guest[g] EXCEPT !.pc = "query_acquire", !.needs = needs]]
    BY <1>4 DEF Query
  <2>2. CallOf([guest[g] EXCEPT !.pc = "query_acquire", !.needs = needs])
          = [state |-> "running", kind |-> "query"]
    BY <1>2 DEF CallOf, QueryPc, GuestState
  <2>3. calls' = [calls EXCEPT ![g] = [state |-> "running", kind |-> "query"]]
    BY <2>1, <2>2, Maps
  <2> QED
    BY <1>1, <2>3 DEF Outer!TxNext, Outer!Begin, Promised
<1> QED
  BY <1>3, <1>4

(* The steps that apply a call add what it has promised.                   *)
LEMMA ApplyMaps ==
  ASSUME IInv, NEW g \in Guests, Commit(g) \/ QueryExecute(g)
  PROVE  Outer!TxNext
<1>1. guest[g] \in GuestState /\ reply' = reply
  BY DEF IInv, TypeOK, Commit, QueryExecute
<1>2. CASE Commit(g)
  <2>1. guest' = [guest EXCEPT ![g] = [guest[g] EXCEPT !.pc = "committed"]]
    BY <1>2 DEF Commit, Goto
  <2>2. calls[g] = [state |-> "running", kind |-> "transaction"]
    BY <1>2 DEF Commit, calls, CallOf, QueryPc
  <2>3. CallOf([guest[g] EXCEPT !.pc = "committed"]) = [calls[g] EXCEPT !.state = "applied"]
    BY <1>1, <2>2 DEF CallOf, QueryPc, GuestState
  <2>4. calls' = [calls EXCEPT ![g] = [calls[g] EXCEPT !.state = "applied"]]
    BY <2>1, <2>3, Maps
  <2>5. conn[guest[g].tx].pending \in Promised["transaction"]
    <3>1. guest[g].pc = "commit" /\ guest[g].tx \in Conns /\ guest[g].tx # None
      BY <1>2, Ending, ClientAssumption DEF Commit
    <3>2. conn[guest[g].tx].pending \in 0 .. Queries
      BY <3>1 DEF IInv, TypeOK, ConnState
    <3>3. "ignore" \notin Careless => conn[guest[g].tx].pending = Queries
      BY <3>1 DEF IInv, InLoop, InSession
    <3> QED
      BY <3>2, <3>3 DEF Promised
  <2>6. counter' = counter + conn[guest[g].tx].pending
    BY <1>2 DEF Commit
  <2>7. calls[g].state = "running" /\ \E n \in Promised[calls[g].kind] : counter' = counter + n
    BY <2>2, <2>5, <2>6
  <2>8. Outer!Apply(g)
    BY <1>1, <2>4, <2>7 DEF Outer!Apply
  <2> QED
    BY <2>8 DEF Outer!TxNext
<1>3. CASE QueryExecute(g)
  <2>1. guest' = [guest EXCEPT ![g] = [guest[g] EXCEPT !.pc = "query_done"]]
    BY <1>3 DEF QueryExecute, Goto
  <2>2. calls[g] = [state |-> "running", kind |-> "query"]
    BY <1>3 DEF QueryExecute, calls, CallOf, QueryPc
  <2>3. CallOf([guest[g] EXCEPT !.pc = "query_done"]) = [calls[g] EXCEPT !.state = "applied"]
    BY <1>1, <2>2 DEF CallOf, QueryPc, GuestState
  <2>4. calls' = [calls EXCEPT ![g] = [calls[g] EXCEPT !.state = "applied"]]
    BY <2>1, <2>3, Maps
  <2>5. counter' = counter + 1
    BY <1>3 DEF QueryExecute, IInv, InLoop, Added
  <2>6. calls[g].state = "running" /\ \E n \in Promised[calls[g].kind] : counter' = counter + n
    BY <2>2, <2>5 DEF Promised
  <2>7. Outer!Apply(g)
    BY <1>1, <2>4, <2>6 DEF Outer!Apply
  <2> QED
    BY <2>7 DEF Outer!TxNext
<1> QED
  BY <1>2, <1>3

(* The steps that may end a call.                                          *)
LEMMA AnswerMaps ==
  ASSUME IInv, NEW g \in Guests, NEW a \in {"ok", "err"}, Return(g, a), counter' = counter,
         guest[g].pc # "idle", a = "ok" => guest[g].pc \in {"committed", "query_done"}
  PROVE  Outer!TxNext
BY Answers DEF Outer!TxNext

(* The steps in between.                                                   *)
InTransaction(pc) == pc \in TxPc \ {"committed"}
InQuery(pc) == pc \in {"query_acquire", "query_prepare", "query_execute"}

LEMMA WorkMaps ==
  ASSUME IInv, NEW g \in Guests, NEW r,
         guest' = [guest EXCEPT ![g] = r], counter' = counter, reply' = reply,
         \/ InTransaction(r.pc) /\ InTransaction(guest[g].pc)
         \/ InQuery(r.pc) /\ InQuery(guest[g].pc)
  PROVE  UNCHANGED Outer!txVars
<1>1. CallOf(r) = CallOf(guest[g])
  BY DEF CallOf, InTransaction, InQuery, TxPc, QueryPc
<1> QED
  BY <1>1, Stutters

LEMMA BodyWorkMaps ==
  ASSUME IInv, NEW g \in Guests,
         BodyQuery(g) \/ BodyIgnores(g) \/ BodyErr(g) \/ Retry(g)
  PROVE  UNCHANGED Outer!txVars
<1>1. guest[g] \in GuestState /\ counter' = counter /\ reply' = reply
  BY DEF IInv, TypeOK, BodyQuery, BodyIgnores, BodyErr, Retry
<1>2. CASE BodyQuery(g)
  <2>1. PICK needs \in Flags :
          guest' = [guest EXCEPT ![g] =
            [guest[g] EXCEPT !.pc = IF guest[g].tx = None THEN "acquire" ELSE "prepare",
                             !.needs = needs]]
    BY <1>2 DEF BodyQuery
  <2>2. [guest[g] EXCEPT !.pc = IF guest[g].tx = None THEN "acquire" ELSE "prepare",
                         !.needs = needs].pc \in {"acquire", "prepare"}
    BY <1>1 DEF GuestState
  <2> QED
    BY <1>1, <1>2, <2>1, <2>2, WorkMaps DEF BodyQuery, InTransaction, TxPc
<1>3. CASE BodyIgnores(g)
  <2>1. [guest[g] EXCEPT !.error = "none", !.ran = guest[g].ran + 1].pc = guest[g].pc
    BY <1>1 DEF GuestState
  <2> QED
    BY <1>1, <1>3, <2>1, WorkMaps DEF BodyIgnores, InTransaction, TxPc
<1>4. CASE BodyErr(g)
  <2>1. PICK e : guest' = [guest EXCEPT ![g] =
                   [guest[g] EXCEPT !.pc = IF guest[g].tx # None THEN "rollback" ELSE "decide",
                                    !.error = e]]
    BY <1>4 DEF BodyErr
  <2>2. [guest[g] EXCEPT !.pc = IF guest[g].tx # None THEN "rollback" ELSE "decide",
                         !.error = e].pc \in {"rollback", "decide"}
    BY <1>1 DEF GuestState
  <2> QED
    BY <1>1, <1>4, <2>1, <2>2, WorkMaps DEF BodyErr, InTransaction, TxPc
<1>5. CASE Retry(g)
  <2>1. [IdleGuest EXCEPT !.pc = "body", !.iteration = guest[g].iteration + 1].pc = "body"
    BY DEF IdleGuest
  <2> QED
    BY <1>1, <1>5, <2>1, WorkMaps DEF Retry, InTransaction, TxPc
<1> QED
  BY <1>2, <1>3, <1>4, <1>5

LEMMA FailMaps ==
  ASSUME IInv, NEW g \in Guests, NEW e, BodyGets(g, e), counter' = counter, reply' = reply,
         InTransaction(guest[g].pc)
  PROVE  UNCHANGED Outer!txVars
<1>1. guest[g] \in GuestState
  BY DEF IInv, TypeOK
<1>2. [guest[g] EXCEPT !.pc = "body", !.error = e, !.held = None, !.needs = "modifications"].pc = "body"
  BY <1>1 DEF GuestState
<1> QED
  BY <1>1, <1>2, WorkMaps DEF BodyGets, InTransaction, TxPc

LEMMA CallMaps ==
  ASSUME IInv, NEW g \in Guests,
         \/ Acquire(g) \/ Start(g) \/ StartFail(g) \/ Prepare(g) \/ Execute(g) \/ QueryFail(g)
         \/ Rollback(g) \/ QueryPrepare(g)
  PROVE  UNCHANGED Outer!txVars
<1>1. guest[g] \in GuestState /\ counter' = counter /\ reply' = reply
  BY DEF IInv, TypeOK, Acquire, Start, StartFail, Prepare, Execute, QueryFail, Rollback, QueryPrepare
<1>2. CASE Acquire(g)
  <2> DEFINE pc == IF guest[g].pc = "acquire" THEN "start" ELSE "query_prepare"
  <2>1. PICK c \in Conns : guest' = [guest EXCEPT ![g] = [guest[g] EXCEPT !.held = c, !.pc = pc]]
    BY <1>2 DEF Acquire
  <2> DEFINE r == [guest[g] EXCEPT !.held = c, !.pc = pc]
  <2>2. r.pc = pc
    BY <1>1 DEF GuestState
  <2>3. \/ InTransaction(pc) /\ InTransaction(guest[g].pc)
        \/ InQuery(pc) /\ InQuery(guest[g].pc)
    BY <1>2 DEF Acquire, InTransaction, InQuery, TxPc
  <2> HIDE DEF pc
  <2> QED
    BY <1>1, <2>1, <2>2, <2>3, WorkMaps
<1>3. CASE StartFail(g) \/ QueryFail(g)
  <2>1. PICK e : BodyGets(g, e)
    BY <1>3 DEF StartFail, QueryFail
  <2> QED
    BY <1>1, <1>3, <2>1, FailMaps DEF StartFail, QueryFail, InTransaction, TxPc
<1>4. CASE Start(g)
  <2>1. [guest[g] EXCEPT !.pc = "prepare", !.tx = guest[g].held, !.held = None].pc = "prepare"
    BY <1>1 DEF GuestState
  <2> QED
    BY <1>1, <1>4, <2>1, WorkMaps DEF Start, InTransaction, TxPc
<1>5. CASE Prepare(g)
  <2>1. [guest[g] EXCEPT !.pc = "execute"].pc = "execute"
    BY <1>1 DEF GuestState
  <2> QED
    BY <1>1, <1>5, <2>1, WorkMaps DEF Prepare, Goto, InTransaction, TxPc
<1>6. CASE QueryPrepare(g)
  <2>1. [guest[g] EXCEPT !.pc = "query_execute"].pc = "query_execute"
    BY <1>1 DEF GuestState
  <2> QED
    BY <1>1, <1>6, <2>1, WorkMaps DEF QueryPrepare, Goto, InQuery
<1>7. CASE Execute(g)
  <2>1. [guest[g] EXCEPT !.pc = "body", !.ran = guest[g].ran + 1, !.needs = "modifications"].pc = "body"
    BY <1>1 DEF GuestState
  <2> QED
    BY <1>1, <1>7, <2>1, WorkMaps DEF Execute, InTransaction, TxPc
<1>8. CASE Rollback(g)
  <2>1. [guest[g] EXCEPT !.pc = "decide", !.tx = None].pc = "decide"
    BY <1>1 DEF GuestState
  <2> QED
    BY <1>1, <1>8, <2>1, WorkMaps DEF Rollback, InTransaction, TxPc
<1> QED
  BY <1>2, <1>3, <1>4, <1>5, <1>6, <1>7, <1>8

LEMMA NextMaps == IInv /\ [Next]_vars => [Outer!TxNext]_(Outer!txVars)
<1> SUFFICES ASSUME IInv, [Next]_vars PROVE [Outer!TxNext]_(Outer!txVars)
  OBVIOUS
<1>1. CASE UNCHANGED vars
  BY <1>1 DEF vars, Outer!txVars, calls
<1>2. ASSUME NEW g \in Guests, Transaction(g) \/ Query(g)
      PROVE  Outer!TxNext
  BY <1>2, BeginMaps
<1>3. ASSUME NEW g \in Guests, Acquire(g)
      PROVE  UNCHANGED Outer!txVars
  BY <1>3, CallMaps
<1>4. ASSUME NEW g \in Guests, AcquireFail(g)
      PROVE  [Outer!TxNext]_(Outer!txVars)
  <2>1. CASE guest[g].pc = "acquire" /\ UNCHANGED reply /\ \E e \in Errors : BodyGets(g, e)
    <3>1. PICK e \in Errors : BodyGets(g, e)
      BY <2>1
    <3> QED
      BY <1>4, <2>1, <3>1, FailMaps DEF AcquireFail, InTransaction, TxPc
  <2>2. CASE guest[g].pc = "query_acquire" /\ Return(g, "err")
    BY <1>4, <2>2, AnswerMaps DEF AcquireFail
  <2> QED
    BY <1>4, <2>1, <2>2 DEF AcquireFail
<1>5. ASSUME NEW g \in Guests, Trap(g)
      PROVE  Outer!TxNext
  BY <1>5, AnswerMaps DEF Trap
<1>6. ASSUME NEW g \in Guests, Step(g)
      PROVE  [Outer!TxNext]_(Outer!txVars)
  <2>1. CASE \/ BodyQuery(g) \/ Start(g) \/ StartFail(g) \/ Prepare(g) \/ Execute(g) \/ QueryFail(g)
             \/ BodyIgnores(g) \/ BodyErr(g) \/ Rollback(g) \/ Retry(g) \/ QueryPrepare(g)
    BY <2>1, BodyWorkMaps, CallMaps
  <2>2. CASE Commit(g) \/ QueryExecute(g)
    BY <2>2, ApplyMaps
  <2>3. CASE BodyOk(g)
    <3>1. CASE guest[g].tx = None
      <4>1. Return(g, "nothing") /\ guest[g].pc = "body" /\ counter' = counter
        BY <2>3, <3>1 DEF BodyOk
      <4> QED
        BY <4>1, Answers DEF Outer!TxNext
    <3>2. CASE guest[g].tx # None
      <4>1. /\ guest' = [guest EXCEPT ![g] = [guest[g] EXCEPT !.pc = "commit"]]
            /\ guest[g].pc = "body" /\ counter' = counter /\ reply' = reply
            /\ guest[g] \in GuestState
        BY <2>3, <3>2 DEF BodyOk, Goto, IInv, TypeOK
      <4>2. [guest[g] EXCEPT !.pc = "commit"].pc = "commit"
        BY <4>1 DEF GuestState
      <4> QED
        BY <4>1, <4>2, WorkMaps DEF InTransaction, TxPc
    <3> QED
      BY <3>1, <3>2
  <2>4. CASE Committed(g) \/ QueryDone(g)
    <3>1. PICK a \in {"ok", "err"} : Return(g, a)
      BY <2>4 DEF Committed, QueryDone
    <3> QED
      BY <2>4, <3>1, AnswerMaps DEF Committed, QueryDone
  <2>5. CASE CommitFail(g) \/ CommitLost(g) \/ RollbackFail(g) \/ GiveUp(g) \/ ClientQueryFail(g)
    <3>1. Return(g, "err") /\ counter' = counter /\ guest[g].pc # "idle"
      BY <2>5 DEF CommitFail, CommitLost, RollbackFail, GiveUp, ClientQueryFail, QueryPc
    <3> QED
      BY <3>1, AnswerMaps
  <2> QED
    BY <1>6, <2>1, <2>2, <2>3, <2>4, <2>5 DEF Step
<1> QED
  BY <1>1, <1>2, <1>3, <1>4, <1>5, <1>6 DEF Next

(* The loop, its retries and its lost answers keep to the promise: a call  *)
(* takes effect at most once and as a whole, and Ok means that it has.     *)
THEOREM KeepsThePromise == Spec => ImplementsTransactions
<1>1. Init => Outer!TxInit
  BY DEF Init, Outer!TxInit, Outer!Idle, calls, CallOf, IdleGuest
<1> QED
  BY <1>1, Invariant, NextMaps, PTL DEF Spec, ImplementsTransactions, Outer!TxSpec
=============================================================================
