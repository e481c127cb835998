------------------------------- MODULE Broker -------------------------------
(***************************************************************************)
(* The Alpaca broker as the executor uses it (clients/alpaca_client.py):   *)
(* submit_order creates an order under a client_order_id, get_order reads  *)
(* one back. The broker itself is not part of the repository; it is        *)
(* modelled from what the client relies on. "Broker-side dedup" is read as *)
(* the broker refusing a client_order_id that any earlier order carries,   *)
(* so an order is identified by the id it was submitted under.             *)
(***************************************************************************)
EXTENDS Integers

VARIABLE orders   \* client order ids that were accepted -> the broker's order

OrderStatus == {"live", "filled", "dead"}

Order == [qty : Nat, filled : Nat, status : OrderStatus]

Exists(o) == o \in DOMAIN orders

Acceptable(o, q) == q > 0 /\ ~Exists(o)

\* Put an order under id o, new or updated, and keep all others.
Put(o, order) ==
  orders' = [c \in DOMAIN orders \cup {o} |-> IF c = o THEN order ELSE orders[c]]

Accept(o, q) ==
  /\ Acceptable(o, q)
  /\ Put(o, [qty |-> q, filled |-> 0, status |-> "live"])

Filled(o) == IF Exists(o) THEN orders[o].filled ELSE 0

Working(o) == Exists(o) /\ orders[o].status = "live"

\* What get_order tells of an order: one of the client's four readings.
Report(o) ==
  CASE orders[o].status = "filled" -> "filled"
    [] orders[o].status = "dead"   -> "dead"
    [] orders[o].status = "live" /\ orders[o].filled > 0 -> "partially_filled"
    [] OTHER -> "accepted"

-----------------------------------------------------------------------------
(* What the market does to an order on its own.                            *)

Fill(o, n) ==
  /\ Working(o)
  /\ orders[o].filled + n =< orders[o].qty
  /\ Put(o, [orders[o] EXCEPT
               !.filled = @ + n,
               !.status = IF orders[o].filled + n = orders[o].qty
                          THEN "filled" ELSE "live"])

\* Cancelled, rejected after acceptance, expired, or done for the day.
Kill(o) ==
  /\ Working(o)
  /\ Put(o, [orders[o] EXCEPT !.status = "dead"])
=============================================================================
