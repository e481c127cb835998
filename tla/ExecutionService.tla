-------------------------- MODULE ExecutionService --------------------------
(***************************************************************************)
(* One executor process (domain/services.py, workers/executor.py): the     *)
(* thread that consumes ticks, the market-close liquidator and the live    *)
(* fill reconciler, around one position book and one set of idempotency    *)
(* keys, against the broker and the cash service.                          *)
(*                                                                         *)
(* A step is what a thread does between two points where another thread,   *)
(* the broker or the clock can make a difference: one locked section, or   *)
(* one remote call and the assignments after it. Database writes are seen  *)
(* in the order they are handed to the writer: row[t] is the status that   *)
(* the writes enqueued so far leave in the row of t (AsyncDbWriter models  *)
(* how they get there).                                                    *)
(***************************************************************************)
EXTENDS PositionBook, Broker

CONSTANTS
  Paper,   \* TRUE for the paper process, FALSE for the live one
  Faults,  \* what may go wrong in a remote call, a subset of FaultKinds
  NoTick   \* the consumer is between two messages

\* "lost_reply"      submit_order raises BrokerError and the order was created
\* "malformed_reply" a reply does not validate: an error nobody catches
\* "hold_lost"       place_hold raises CashServiceError and the hold was placed
\* "settle_fails"    capture_hold or release_hold raises CashServiceError
FaultKinds == {"lost_reply", "malformed_reply", "hold_lost", "settle_fails"}

ASSUME ModeAssumption == Paper \in BOOLEAN /\ Faults \subseteq FaultKinds

VARIABLES
  row,        \* row[t]: the status column of trade t
  hold,       \* hold[t]: the cash hold placed for t, as the cash service has it
  seen,       \* _seen: the idempotency keys taken
  attempts,   \* _attempts: the re-entry counter of each base
  pc,         \* where the consumer thread is
  tick,       \* the message it is processing
  todo,       \* the matched entries it has still to execute
  cur,        \* the trade it is opening
  claimed,    \* claimed[x]: the positions thread x claimed and has to submit
  unlogged,   \* unlogged[x]: its exit order is known, the row not yet updated
  rtodo,      \* the reconciler's snapshot, less what it has polled
  rcur,       \* what the reconciler is doing with one position
  today,
  afterClose, \* the clock is at or past the configured close time
  lastRun     \* the liquidator's _last_run, 0 for None

keys == <<seen, attempts>>
consumer == <<pc, tick, todo, cur>>
exits == <<claimed, unlogged>>
reconciler == <<rtodo, rcur>>
clock == <<today, afterClose, lastRun>>

vars == <<trade, book, orders, row, hold, keys, consumer, exits, reconciler, clock>>

\* The threads that submit exits.
Threads == {"consumer", "liquidator"}

Job == [trade : Trades \cup {NoTrade},
        doing : {"none", "entry", "exit", "capture", "release"},
        report : {"none", "accepted", "partially_filled", "filled", "dead"},
        filled : Nat]

NoJob == [trade |-> NoTrade, doing |-> "none", report |-> "none", filled |-> 0]

OrderId(key, leg) == [key |-> key, leg |-> leg]

EntryId(t) == OrderId(trade[t].key, "entry")

ExitId(t) == OrderId(trade[t].key, "exit")

Unused == Trades \ Used

SetRow(t, status) == row' = [row EXCEPT ![t] = status]

Init ==
  /\ trade = [t \in Trades |-> NoTrade]
  /\ BookInit
  /\ orders = <<>>
  /\ row = [t \in Trades |-> "none"]
  /\ hold = [t \in Trades |-> "none"]
  /\ seen = {}
  /\ attempts = [b \in Bases |-> 0]
  /\ pc = "idle" /\ tick = NoTick /\ todo = {} /\ cur = NoTrade
  /\ claimed = [x \in Threads |-> {}]
  /\ unlogged = [x \in Threads |-> NoTrade]
  /\ rtodo = {} /\ rcur = NoJob
  /\ today = 1 /\ afterClose = FALSE /\ lastRun = 0

-----------------------------------------------------------------------------
(* Remote calls, after the retries of their clients                        *)

\* submit_order raises BrokerError: the order was refused, or it was created and
\* every reply was lost or refused the retry of an order that is there.
SubmissionFails(o, q) ==
  \/ UNCHANGED orders
  \/ "lost_reply" \in Faults /\ Accept(o, q)

\* capture_hold or release_hold: a failure is only logged by the callers.
Settle(t, outcome) ==
  \/ hold' = [hold EXCEPT ![t] = outcome]
  \/ "settle_fails" \in Faults /\ UNCHANGED hold

-----------------------------------------------------------------------------
(* Keys                                                                    *)

NextKey(base) == ComposeKey(base, attempts[base])

TakeKey(key) == seen' = seen \cup {key} /\ UNCHANGED attempts

\* Mutant: the key is dropped and the signal's counter is not bumped.
ForgetKeyOnly(key) == seen' = seen \ {key} /\ UNCHANGED attempts

Forget(key) ==
  LET k == SplitAttempt(key)
  IN  /\ seen' = seen \ {key}
      /\ attempts' = [attempts EXCEPT ![k.base] = k.attempt + 1]

-----------------------------------------------------------------------------
(* The consumer thread: one message at a time. It takes the entries the    *)
(* watchlist arms for the tick, executes each, then claims and submits the *)
(* exits the tick triggers.                                                *)

MessageDone == pc' = "idle" /\ tick' = NoTick /\ todo' = {} /\ cur' = NoTrade

\* process_message raised: the consume loop logs it and commits past it.
SkipMessage == MessageDone

\* The watchlist is replaced at any time, so any matching entries may be armed. A
\* tick carries the UTC day of its own timestamp: an earlier one when the topic is
\* replayed, the next one late in the market's evening.
\* Bound: a message is taken while there is a trade id for each of them.
Poll(k, armed) ==
  /\ pc = "idle"
  /\ today \in TradingDays
  /\ \A e \in armed : e.symbol = k.symbol /\ EntryMatches(e, k.price)
  /\ Cardinality(armed) =< Cardinality(Unused)
  /\ pc' = "entries" /\ tick' = k /\ todo' = armed
  /\ UNCHANGED <<trade, book, orders, row, hold, keys, cur, exits, reconciler, clock>>

Dedup(e) ==
  /\ pc = "entries" /\ e \in todo
  /\ NextKey(KeyBase(e, tick.date)) \in seen
  /\ todo' = todo \ {e}
  /\ UNCHANGED <<trade, book, orders, row, hold, keys, pc, tick, cur, exits, reconciler, clock>>

\* compute_sizing raises after the key has been taken.
SizingFails(e) ==
  LET key == NextKey(KeyBase(e, tick.date))
  IN  /\ pc = "entries" /\ e \in todo
      /\ key \notin seen
      /\ ~Sizable(tick.price)
      /\ TakeKey(key)
      /\ SkipMessage
      /\ UNCHANGED <<trade, book, orders, row, hold, exits, reconciler, clock>>

Enter(e, t) ==
  LET key == NextKey(KeyBase(e, tick.date))
  IN  /\ pc = "entries" /\ e \in todo /\ t \in Unused
      /\ key \notin seen
      /\ Sizable(tick.price)
      /\ TakeKey(key)
      /\ trade' = [trade EXCEPT ![t] = [entry |-> e, key |-> key]]
      /\ SetRow(t, "NEW")
      /\ cur' = t /\ todo' = todo \ {e}
      /\ pc' = IF Paper THEN "fill" ELSE "reserve"
      /\ UNCHANGED <<book, orders, hold, tick, exits, reconciler, clock>>

EntryDone == pc' = "entries" /\ cur' = NoTrade /\ UNCHANGED <<tick, todo>>

\* A paper entry fills in the process.
FillPaper ==
  /\ pc = "fill"
  /\ SetRow(cur, "FILLED")
  /\ Open(cur, "OPEN", SizedQuantity(tick.price), NoId)
  /\ EntryDone
  /\ UNCHANGED <<trade, orders, hold, keys, exits, reconciler, clock>>

-----------------------------------------------------------------------------
(* Live entries: reserve the cash, then submit the order.                  *)

ReserveUnchanged == UNCHANGED <<trade, book, orders, keys, exits, reconciler, clock>>

CashHeld ==
  /\ pc = "reserve"
  /\ hold' = [hold EXCEPT ![cur] = "held"]
  /\ SetRow(cur, "CASH_HELD")
  /\ pc' = "submit" /\ UNCHANGED <<tick, todo, cur>>
  /\ ReserveUnchanged

InsufficientFunds ==
  /\ pc = "reserve"
  /\ SetRow(cur, "INSUFFICIENT_FUNDS")
  /\ EntryDone
  /\ UNCHANGED hold
  /\ ReserveUnchanged

\* CashServiceError. The hold id is unknown, whether or not a hold exists.
ReserveFails ==
  /\ pc = "reserve"
  /\ \/ UNCHANGED hold
     \/ "hold_lost" \in Faults /\ hold' = [hold EXCEPT ![cur] = "held"]
  /\ SetRow(cur, "FAILED")
  /\ EntryDone
  /\ ReserveUnchanged

\* The balance or the new hold does not validate: the row stays NEW.
ReserveMalformed ==
  /\ "malformed_reply" \in Faults
  /\ pc = "reserve"
  /\ \/ UNCHANGED hold
     \/ hold' = [hold EXCEPT ![cur] = "held"]
  /\ SkipMessage
  /\ UNCHANGED row
  /\ ReserveUnchanged

SubmitUnchanged == UNCHANGED <<trade, hold, keys, exits, reconciler, clock>>

EntryAccepted ==
  /\ pc = "submit"
  /\ Accept(EntryId(cur), SizedQuantity(tick.price))
  /\ SetRow(cur, "SUBMITTED")
  /\ Open(cur, "PENDING_ENTRY", SizedQuantity(tick.price), EntryId(cur))
  /\ EntryDone
  /\ SubmitUnchanged

EntryFails ==
  /\ pc = "submit"
  /\ SubmissionFails(EntryId(cur), SizedQuantity(tick.price))
  /\ SetRow(cur, "FAILED")
  /\ pc' = "release" /\ UNCHANGED <<tick, todo, cur>>
  /\ UNCHANGED book
  /\ SubmitUnchanged

\* The order is created and its description does not validate.
EntryMalformed ==
  /\ "malformed_reply" \in Faults
  /\ pc = "submit"
  /\ Accept(EntryId(cur), SizedQuantity(tick.price))
  /\ SkipMessage
  /\ UNCHANGED <<book, row>>
  /\ SubmitUnchanged

\* _release_hold_safe after a failed submission.
ReleaseAfterFailure ==
  /\ pc = "release"
  /\ Settle(cur, "released")
  /\ EntryDone
  /\ UNCHANGED <<trade, book, orders, row, keys, exits, reconciler, clock>>

-----------------------------------------------------------------------------
(* Exits. claim_exits and claim_all_open decide which thread submits; the  *)
(* thread then submits one exit after the other.                           *)

Claim(x, claims) ==
  /\ Flip(claims)
  /\ claimed' = [claimed EXCEPT ![x] = claims]
  /\ UNCHANGED <<trade, orders, row, hold, keys, unlogged, reconciler>>

ClaimExits ==
  /\ pc = "entries" /\ todo = {}
  /\ Claim("consumer", ExitsFor(tick.symbol, tick.price))
  /\ pc' = "exits" /\ UNCHANGED <<tick, todo, cur>>
  /\ UNCHANGED clock

Submitted(x) == claimed[x] = {} /\ unlogged[x] = NoTrade

ExitsDone ==
  /\ pc = "exits"
  /\ Submitted("consumer")
  /\ MessageDone
  /\ UNCHANGED <<trade, book, orders, row, hold, keys, exits, reconciler, clock>>

\* Mutant: the first pass after a start only notes the day.
LiquidateLater ==
  /\ Submitted("liquidator")
  /\ afterClose /\ lastRun # today
  /\ lastRun' = today
  /\ Claim("liquidator", IF lastRun = 0 THEN {} ELSE AllOpen)
  /\ UNCHANGED <<consumer, today, afterClose>>

\* maybe_liquidate: _last_run is set before the positions are claimed.
Liquidate ==
  /\ Submitted("liquidator")
  /\ afterClose /\ lastRun # today
  /\ lastRun' = today
  /\ Claim("liquidator", AllOpen)
  /\ UNCHANGED <<consumer, today, afterClose>>

\* Thread x has turned to position t.
Submitting(x, t) == t \in claimed[x] /\ unlogged[x] = NoTrade

Handled(x, t) == claimed' = [claimed EXCEPT ![x] = @ \ {t}]

ExitPaper(x, t) ==
  /\ Paper
  /\ Submitting(x, t)
  /\ SetRow(t, "CLOSED")
  /\ Remove(t)
  /\ Forget(trade[t].key)
  /\ Handled(x, t)
  /\ UNCHANGED <<trade, orders, hold, consumer, unlogged, reconciler, clock>>

\* The position has its exit order id before the row update is enqueued.
ExitAccepted(x, t) ==
  /\ ~Paper
  /\ Submitting(x, t)
  /\ Accept(ExitId(t), quantity[t])
  /\ exitOrder' = [exitOrder EXCEPT ![t] = ExitId(t)]
  /\ Handled(x, t)
  /\ unlogged' = [unlogged EXCEPT ![x] = t]
  /\ UNCHANGED <<trade, pos, quantity, entryOrder, row, hold, keys, consumer, reconciler, clock>>

LogExit(x) ==
  /\ unlogged[x] # NoTrade
  /\ SetRow(unlogged[x], "EXIT_SUBMITTED")
  /\ unlogged' = [unlogged EXCEPT ![x] = NoTrade]
  /\ UNCHANGED <<trade, book, orders, hold, keys, consumer, claimed, reconciler, clock>>

\* BrokerError: the position is open again, whether or not an order exists.
ExitFails(x, t) ==
  /\ ~Paper
  /\ Submitting(x, t)
  /\ SubmissionFails(ExitId(t), quantity[t])
  /\ SetRow(t, "EXIT_FAILED")
  /\ ReleaseExit(t)
  /\ Handled(x, t)
  /\ UNCHANGED <<trade, hold, keys, consumer, unlogged, reconciler, clock>>

\* The error leaves the loop over the claims: the rest is never submitted.
ExitMalformed(x, t) ==
  /\ "malformed_reply" \in Faults
  /\ ~Paper
  /\ Submitting(x, t)
  /\ Accept(ExitId(t), quantity[t])
  /\ claimed' = [claimed EXCEPT ![x] = {}]
  /\ IF x = "consumer" THEN SkipMessage ELSE UNCHANGED consumer
  /\ UNCHANGED <<trade, book, row, hold, keys, unlogged, reconciler, clock>>

-----------------------------------------------------------------------------
(* The reconciler (live only): snapshot, then poll and apply one by one.   *)

Snapshot ==
  /\ ~Paper
  /\ rtodo = {} /\ rcur = NoJob
  /\ rtodo' = PendingAndExiting
  /\ UNCHANGED <<trade, book, orders, row, hold, keys, consumer, exits, rcur, clock>>

\* Mutant: an exiting position without an exit order is polled for its entry.
PollAnyId(t) ==
  CASE pos[t] = "PENDING_ENTRY"                     -> entryOrder[t]
    [] pos[t] = "EXITING" /\ exitOrder[t] # NoId    -> exitOrder[t]
    [] pos[t] = "EXITING" /\ exitOrder[t] = NoId    -> entryOrder[t]
    [] OTHER                                        -> NoId

\* The order a position is polled for, by the state it is in by now.
PollId(t) ==
  CASE pos[t] = "PENDING_ENTRY" -> entryOrder[t]
    [] pos[t] = "EXITING"       -> exitOrder[t]
    [] OTHER                    -> NoId

Polling(t) == rcur = NoJob /\ t \in rtodo

PollUnchanged == UNCHANGED <<trade, book, orders, row, hold, keys, consumer, exits, clock>>

\* Nothing to poll, or get_order failed: on to the next position.
PassOver(t) ==
  /\ Polling(t)
  /\ rtodo' = rtodo \ {t}
  /\ UNCHANGED rcur
  /\ PollUnchanged

Fetch(t) ==
  /\ Polling(t)
  /\ PollId(t) # NoId
  /\ rtodo' = rtodo \ {t}
  /\ rcur' = [trade |-> t,
              doing |-> IF pos[t] = "PENDING_ENTRY" THEN "entry" ELSE "exit",
              report |-> Report(PollId(t)),
              filled |-> Filled(PollId(t))]
  /\ PollUnchanged

\* The reply does not validate: the error ends the pass.
FetchMalformed(t) ==
  /\ "malformed_reply" \in Faults
  /\ Polling(t)
  /\ PollId(t) # NoId
  /\ rtodo' = {}
  /\ UNCHANGED rcur
  /\ PollUnchanged

Applying(doing, report) == rcur.doing = doing /\ rcur.report = report

ApplyUnchanged == UNCHANGED <<trade, orders, hold, consumer, exits, rtodo, clock>>

\* Mutant: the first partial fill opens the position.
EntryFilledEarly ==
  /\ Applying("entry", "filled") \/ Applying("entry", "partially_filled")
  /\ SetRow(rcur.trade, "FILLED")
  /\ MarkOpen(rcur.trade, rcur.filled)
  /\ rcur' = [rcur EXCEPT !.doing = "capture"]
  /\ UNCHANGED keys
  /\ ApplyUnchanged

EntryFilled ==
  /\ Applying("entry", "filled")
  /\ SetRow(rcur.trade, "FILLED")
  /\ MarkOpen(rcur.trade, rcur.filled)
  /\ rcur' = [rcur EXCEPT !.doing = "capture"]
  /\ UNCHANGED keys
  /\ ApplyUnchanged

\* Mutant: the hold of a rejected entry is not released.
EntryDeadKeepsHold ==
  /\ Applying("entry", "dead")
  /\ SetRow(rcur.trade, "REJECTED")
  /\ Remove(rcur.trade)
  /\ rcur' = NoJob
  /\ UNCHANGED keys
  /\ ApplyUnchanged

\* Mutant: a rejected entry frees its signal for another try.
EntryDeadForgets ==
  /\ Applying("entry", "dead")
  /\ SetRow(rcur.trade, "REJECTED")
  /\ Remove(rcur.trade)
  /\ Forget(trade[rcur.trade].key)
  /\ rcur' = [rcur EXCEPT !.doing = "release"]
  /\ ApplyUnchanged

EntryDead ==
  /\ Applying("entry", "dead")
  /\ SetRow(rcur.trade, "REJECTED")
  /\ Remove(rcur.trade)
  /\ rcur' = [rcur EXCEPT !.doing = "release"]
  /\ UNCHANGED keys
  /\ ApplyUnchanged

ExitFilled ==
  /\ Applying("exit", "filled")
  /\ SetRow(rcur.trade, "CLOSED")
  /\ Remove(rcur.trade)
  /\ Forget(trade[rcur.trade].key)
  /\ rcur' = NoJob
  /\ ApplyUnchanged

\* Mutant: a dead exit drops the position.
ExitDeadDrops ==
  /\ Applying("exit", "dead")
  /\ SetRow(rcur.trade, "EXIT_FAILED")
  /\ Remove(rcur.trade)
  /\ rcur' = NoJob
  /\ UNCHANGED keys
  /\ ApplyUnchanged

\* Mutant: a dead exit is recorded and the position left EXITING.
ExitDeadIgnored ==
  /\ Applying("exit", "dead")
  /\ SetRow(rcur.trade, "EXIT_FAILED")
  /\ rcur' = NoJob
  /\ UNCHANGED <<book, keys>>
  /\ ApplyUnchanged

ExitDead ==
  /\ Applying("exit", "dead")
  /\ SetRow(rcur.trade, "EXIT_FAILED")
  /\ ReleaseExit(rcur.trade)
  /\ rcur' = NoJob
  /\ UNCHANGED keys
  /\ ApplyUnchanged

PartialStatus ==
  IF rcur.doing = "entry" THEN "PARTIALLY_FILLED" ELSE "EXIT_PARTIALLY_FILLED"

\* A partial fill is recorded; an order that only was accepted is left alone.
StillWorking ==
  /\ rcur.report \in {"partially_filled", "accepted"}
  /\ IF rcur.report = "accepted" THEN UNCHANGED row
                                 ELSE SetRow(rcur.trade, PartialStatus)
  /\ rcur' = NoJob
  /\ UNCHANGED <<book, keys>>
  /\ ApplyUnchanged

\* _capture_hold or _release_hold.
SettleHold ==
  /\ rcur.doing \in {"capture", "release"}
  /\ Settle(rcur.trade, IF rcur.doing = "capture" THEN "captured" ELSE "released")
  /\ rcur' = NoJob
  /\ UNCHANGED <<trade, book, orders, row, keys, consumer, exits, rtodo, clock>>

-----------------------------------------------------------------------------
(* The environment: the market at the broker, and the clock.               *)

MarketUnchanged ==
  UNCHANGED <<trade, book, row, hold, keys, consumer, exits, reconciler, clock>>

MarketFill(o) == (\E n \in 1 .. orders[o].qty : Fill(o, n)) /\ MarketUnchanged

MarketKill(o) == Kill(o) /\ MarketUnchanged

ClockUnchanged ==
  UNCHANGED <<trade, book, orders, row, hold, keys, consumer, exits, reconciler, lastRun>>

CloseReached ==
  /\ ~afterClose
  /\ afterClose' = TRUE
  /\ UNCHANGED today
  /\ ClockUnchanged

\* Bound: MaxDay. With no close time configured a day ends without a close.
NextDay ==
  /\ today < MaxDay
  /\ today' = today + 1
  /\ afterClose' = FALSE
  /\ ClockUnchanged

-----------------------------------------------------------------------------

Consume ==
  \/ \E e \in todo : Dedup(e) \/ SizingFails(e) \/ \E t \in Trades : Enter(e, t)
  \/ FillPaper
  \/ CashHeld \/ InsufficientFunds \/ ReserveFails \/ ReserveMalformed
  \/ EntryAccepted \/ EntryFails \/ EntryMalformed \/ ReleaseAfterFailure
  \/ ClaimExits \/ ExitsDone

SubmitExit(x) ==
  \/ \E t \in Trades : \/ ExitPaper(x, t) \/ ExitAccepted(x, t)
                       \/ ExitFails(x, t) \/ ExitMalformed(x, t)
  \/ LogExit(x)

Reconcile ==
  \/ Snapshot
  \/ \E t \in Trades : PassOver(t) \/ Fetch(t) \/ FetchMalformed(t)
  \/ EntryFilled \/ EntryDead \/ ExitFilled \/ ExitDead \/ StillWorking
  \/ SettleHold

Market == \E o \in DOMAIN orders : MarketFill(o) \/ MarketKill(o)

Next ==
  \/ \E k \in Ticks, armed \in SUBSET Entries : Poll(k, armed)
  \/ Consume
  \/ \E x \in Threads : SubmitExit(x)
  \/ Liquidate
  \/ Reconcile
  \/ Market
  \/ CloseReached \/ NextDay

Spec == Init /\ [][Next]_vars
=============================================================================
