------------------------------- MODULE Domain -------------------------------
(***************************************************************************)
(* The vocabulary of one executor process: watchlist entries, ticks, the   *)
(* matching and sizing rules, the idempotency keys and the trade statuses  *)
(* (domain/enums.py, domain/schemas.py, domain/matching.py and the pure    *)
(* functions at the top of domain/services.py and domain/positions.py).    *)
(*                                                                         *)
(* A run of the specification is one process in one mode, so the mode      *)
(* prefix of a key is the same in every key and is left out.               *)
(***************************************************************************)
EXTENDS Integers, Sequences, FiniteSets

CONSTANTS
  Entries,        \* the watchlist entries the note-taking service may arm
  Prices,         \* the prices a tick may carry; zero and below are legal
  MaxDay,         \* bound: the session days that are modelled, 1 .. MaxDay
  TradingDays,    \* the days of 1 .. MaxDay that are Mon-Fri
  NotionalUsd,    \* EXEC_ORDER_NOTIONAL_USD, 0 when it is not set
  OrderQuantity,  \* EXEC_ORDER_QUANTITY, 0 when it is not set
  Tolerance,      \* EXEC_PRICE_MATCH_TOLERANCE
  NoTarget        \* the sell price of a position without a target

Days == 1 .. MaxDay

ASSUME DaysAssumption == MaxDay \in Nat \ {0} /\ TradingDays \subseteq Days

ASSUME SizingAssumption ==
  NotionalUsd \in Nat /\ OrderQuantity \in Nat /\ Tolerance \in Nat

ASSUME PriceAssumption == Prices \subseteq Int /\ NoTarget \notin Int

ASSUME EntryAssumption ==
  \A e \in Entries : /\ e.type \in {"LONG", "SHORT"}
                     /\ e.buy \in Int
                     /\ e.sell \in Int \cup {NoTarget}

-----------------------------------------------------------------------------
(* Ticks and matching                                                      *)

Symbols == {e.symbol : e \in Entries}

\* A price of one symbol, stamped with the day its signal belongs to. A
\* replayed tick may carry an earlier day than the day it is processed on.
Ticks == [symbol : Symbols, price : Prices, date : Days]

EntryMatches(e, price) ==
  IF e.type = "LONG" THEN price =< e.buy + Tolerance
                     ELSE price >= e.buy - Tolerance

ExitTriggered(e, price) ==
  /\ e.sell # NoTarget
  /\ IF e.type = "LONG" THEN price >= e.sell ELSE price =< e.sell

-----------------------------------------------------------------------------
(* Sizing: exactly one rule is configured, prices are positive, and only   *)
(* whole shares are bought (possibly none).                                *)

Sizable(price) == ((NotionalUsd = 0) # (OrderQuantity = 0)) /\ price > 0

SizedQuantity(price) ==
  IF NotionalUsd # 0 THEN NotionalUsd \div price ELSE OrderQuantity

-----------------------------------------------------------------------------
(* Idempotency keys. A base names one signal on one day; a full key is the *)
(* base alone for attempt 0 and carries the attempt as a suffix from then. *)

Bases == {<<e.symbol, e.reason, d>> : e \in Entries, d \in Days}

KeyBase(e, date) == <<e.symbol, e.reason, date>>

ComposeKey(base, attempt) ==
  [base |-> base, suffix |-> IF attempt = 0 THEN <<>> ELSE <<attempt>>]

\* Mutant: the suffix of a key is not read back.
SplitIgnoresSuffix(key) == [base |-> key.base, attempt |-> 0]

SplitAttempt(key) ==
  [base |-> key.base,
   attempt |-> IF key.suffix = <<>> THEN 0 ELSE key.suffix[1]]

-----------------------------------------------------------------------------
(* The status column of a trade row. "none" is a trade without a row.      *)

EntryStatuses == {"NEW", "CASH_HELD", "SUBMITTED", "PARTIALLY_FILLED"}

DeadStatuses == {"REJECTED", "INSUFFICIENT_FUNDS", "FAILED"}

ExitStatuses == {"EXIT_SUBMITTED", "EXIT_PARTIALLY_FILLED", "EXIT_FAILED"}

TradeStatus ==
  {"none", "FILLED", "CLOSED"} \cup EntryStatuses \cup DeadStatuses \cup ExitStatuses
=============================================================================
