---------------------------- MODULE PositionBook ----------------------------
(***************************************************************************)
(* The in-memory position book (domain/positions.py): every tracked        *)
(* position with its state, quantity and order ids. The book has one lock, *)
(* so each of its methods is one atomic step; the methods are the          *)
(* operators below, used by the actions of the threads that call them.     *)
(*                                                                         *)
(* A position is indexed by its trade id. The immutable part of a          *)
(* Position (symbol, direction, target, idempotency key) is trade[t].      *)
(***************************************************************************)
EXTENDS Domain

CONSTANTS
  Trades,    \* bound: the trade ids (uuids) one behaviour may use
  NoTrade,   \* no trade
  NoId       \* an order id that is None

\* The immutable part of a position: its watchlist entry and idempotency key.
TradeRecord == [entry : Entries, key : [base : Bases, suffix : Seq(Nat)]]

ASSUME TradeAssumption ==
  NoTrade \notin Trades /\ NoTrade \notin TradeRecord /\ NoTrade \notin Bases

ASSUME IdAssumption ==
  NoId \notin [key : [base : Bases, suffix : Seq(Nat)], leg : {"entry", "exit"}]

VARIABLES
  trade,      \* trade[t]: the entry, signal key and so on t was created with
  pos,        \* pos[t]: the state of t's position, "none" when not in the book
  quantity,   \* quantity[t]: the shares of the position
  entryOrder, \* entryOrder[t]: its broker_order_id
  exitOrder   \* exitOrder[t]: its exit_broker_order_id

book == <<pos, quantity, entryOrder, exitOrder>>

PositionState == {"PENDING_ENTRY", "OPEN", "EXITING"}

Used == {t \in Trades : trade[t] # NoTrade}

Tracked == {t \in Trades : pos[t] # "none"}

BookInit ==
  /\ pos = [t \in Trades |-> "none"]
  /\ quantity = [t \in Trades |-> 0]
  /\ entryOrder = [t \in Trades |-> NoId]
  /\ exitOrder = [t \in Trades |-> NoId]

-----------------------------------------------------------------------------

Open(t, state, q, oid) ==
  /\ pos' = [pos EXCEPT ![t] = state]
  /\ quantity' = [quantity EXCEPT ![t] = q]
  /\ entryOrder' = [entryOrder EXCEPT ![t] = oid]
  /\ exitOrder' = [exitOrder EXCEPT ![t] = NoId]

Remove(t) ==
  /\ pos' = [pos EXCEPT ![t] = "none"]
  /\ quantity' = [quantity EXCEPT ![t] = 0]
  /\ entryOrder' = [entryOrder EXCEPT ![t] = NoId]
  /\ exitOrder' = [exitOrder EXCEPT ![t] = NoId]

\* Mutant: the fill is added to the quantity instead of replacing it.
MarkOpenAccumulates(t, q) ==
  /\ pos' = [pos EXCEPT ![t] = "OPEN"]
  /\ quantity' = [quantity EXCEPT ![t] = @ + q]
  /\ UNCHANGED <<entryOrder, exitOrder>>

\* mark_open, together with the fill quantity its only caller stores first.
MarkOpen(t, q) ==
  /\ pos' = [pos EXCEPT ![t] = "OPEN"]
  /\ quantity' = [quantity EXCEPT ![t] = q]
  /\ UNCHANGED <<entryOrder, exitOrder>>

\* Mutant: the order id is dropped and the state is not.
ReleaseOrderOnly(t) ==
  /\ exitOrder' = [exitOrder EXCEPT ![t] = NoId]
  /\ UNCHANGED <<pos, quantity, entryOrder>>

ReleaseExit(t) ==
  /\ pos' = [pos EXCEPT ![t] = "OPEN"]
  /\ exitOrder' = [exitOrder EXCEPT ![t] = NoId]
  /\ UNCHANGED <<quantity, entryOrder>>

\* The positions claim_exits takes for a tick, and those claim_all_open takes.
ExitsFor(symbol, price) ==
  {t \in Tracked : /\ pos[t] = "OPEN"
                   /\ trade[t].entry.symbol = symbol
                   /\ ExitTriggered(trade[t].entry, price)}

\* Mutant: the close also claims what is being sold already.
AllHeld == {t \in Tracked : pos[t] # "PENDING_ENTRY"}

AllOpen == {t \in Tracked : pos[t] = "OPEN"}

\* A claim flips the whole set to EXITING under the lock.
Flip(claims) ==
  /\ pos' = [t \in Trades |-> IF t \in claims THEN "EXITING" ELSE pos[t]]
  /\ UNCHANGED <<quantity, entryOrder, exitOrder>>

\* Mutant: only exits are reconciled.
ExitingOnly == {t \in Tracked : pos[t] = "EXITING"}

PendingAndExiting == {t \in Tracked : pos[t] # "OPEN"}
=============================================================================
