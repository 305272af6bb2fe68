------------------------------ MODULE Transactions ------------------------------
(***************************************************************************)
(* What the SDK promises to a handler that changes the database: one call  *)
(* of Client::transaction or Client::query takes effect at most once and   *)
(* as a whole; when it answers Ok it has taken effect, and when it answers *)
(* Err it may have, which only a lost acknowledgement can be the cause of. *)
(*                                                                         *)
(* The database is a counter that calls add to.                            *)
(***************************************************************************)
EXTENDS Naturals

CONSTANTS
  Guests,  \* the workers that call
  Amounts  \* Amounts[k]: what a call of kind k may add to the counter

VARIABLES
  counter,  \* the database
  call,     \* call[g]: "idle", or the call of g that is on and whether it took effect
  reply     \* reply[g]: how the last call of g was answered

txVars == <<counter, call, reply>>

Idle == [state |-> "idle", kind |-> "none"]

Begin(g, k) ==
  /\ call[g] = Idle
  /\ call' = [call EXCEPT ![g] = [state |-> "running", kind |-> k]]
  /\ UNCHANGED <<counter, reply>>

Apply(g) ==
  /\ call[g].state = "running"
  /\ \E n \in Amounts[call[g].kind] : counter' = counter + n
  /\ call' = [call EXCEPT ![g].state = "applied"]
  /\ UNCHANGED reply

AnswerOk(g) ==
  /\ call[g].state = "applied"
  /\ call' = [call EXCEPT ![g] = Idle]
  /\ reply' = [reply EXCEPT ![g] = "ok"]
  /\ UNCHANGED counter

(* A transaction whose body has not touched the database.                  *)
AnswerNothing(g) ==
  /\ call[g] = [state |-> "running", kind |-> "transaction"]
  /\ call' = [call EXCEPT ![g] = Idle]
  /\ reply' = [reply EXCEPT ![g] = "nothing"]
  /\ UNCHANGED counter

AnswerErr(g) ==
  /\ call[g] # Idle
  /\ call' = [call EXCEPT ![g] = Idle]
  /\ reply' = [reply EXCEPT ![g] = "err"]
  /\ UNCHANGED counter

TxInit ==
  /\ counter = 0
  /\ call = [g \in Guests |-> Idle]
  /\ reply = [g \in Guests |-> "none"]

TxNext ==
  \E g \in Guests :
    \/ \E k \in DOMAIN Amounts : Begin(g, k)
    \/ Apply(g) \/ AnswerOk(g) \/ AnswerNothing(g) \/ AnswerErr(g)

TxSpec == TxInit /\ [][TxNext]_txVars
=============================================================================
