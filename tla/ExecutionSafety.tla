--------------------------- MODULE ExecutionSafety ---------------------------
(***************************************************************************)
(* The correctness properties of one executor process: invariants, action  *)
(* properties, liveness, and the refinement of SignalLifecycle. The last   *)
(* section states what the documents and comments of the repository say    *)
(* and the code does not keep.                                             *)
(***************************************************************************)
EXTENDS ExecutionService

OrderIds == [key : {trade[t].key : t \in Used}, leg : {"entry", "exit"}]

BaseOf(t) == SplitAttempt(trade[t].key).base

AttemptOf(t) == SplitAttempt(trade[t].key).attempt

TradesOK ==
  /\ trade \in [Trades -> TradeRecord \cup {NoTrade}]
  /\ \A t \in Used : /\ AttemptOf(t) \in Nat
                     /\ trade[t].key = ComposeKey(BaseOf(t), AttemptOf(t))

BookOK ==
  /\ pos \in [Trades -> PositionState \cup {"none"}]
  /\ quantity \in [Trades -> Nat]
  /\ entryOrder \in [Trades -> OrderIds \cup {NoId}]
  /\ exitOrder \in [Trades -> OrderIds \cup {NoId}]
  /\ Tracked \subseteq Used

OrdersOK ==
  /\ DOMAIN orders \subseteq OrderIds
  /\ \A o \in DOMAIN orders : orders[o] \in Order

RecordsOK ==
  /\ row \in [Trades -> TradeStatus]
  /\ hold \in [Trades -> {"none", "held", "captured", "released"}]
  /\ attempts \in [Bases -> Nat]

\* A step inside an entry has a trade and a tick it could size.
ConsumerOK ==
  /\ pc \in {"idle", "entries", "fill", "reserve", "submit", "release", "exits"}
  /\ todo \subseteq Entries
  /\ cur \in Used \cup {NoTrade}
  /\ pc # "idle" => tick \in Ticks
  /\ pc \in {"fill", "reserve", "submit", "release"} =>
       cur \in Used /\ Sizable(tick.price)
  /\ pc \in {"idle", "entries", "exits"} => cur = NoTrade

ExitsOK ==
  /\ claimed \in [Threads -> SUBSET Used]
  /\ unlogged \in [Threads -> Used \cup {NoTrade}]

ReconcilerOK ==
  /\ rtodo \subseteq Used
  /\ rcur \in Job
  /\ rcur.doing # "none" => rcur.trade \in Used

ClockOK == today \in Days /\ afterClose \in BOOLEAN /\ lastRun \in Days \cup {0}

\* Every variable of the book, the service, the reconciler and the broker has
\* the values its declaration describes; only used trades are tracked, claimed,
\* polled or ordered for.
TypeOK ==
  /\ TradesOK /\ BookOK /\ OrdersOK /\ RecordsOK
  /\ ConsumerOK /\ ExitsOK /\ ReconcilerOK /\ ClockOK

-----------------------------------------------------------------------------
(* Idempotency (SPEC 5.4)                                                  *)

\* No two trades of a process carry the same idempotency key, whatever exits,
\* re-entries and forgotten keys came between them: the row of one can never
\* collide with the row of another in the unique index of the table.
KeysUnique ==
  \A t, u \in Used : trade[t].key = trade[u].key => t = u

Exited(t) ==
  /\ pos[t] = "none"
  /\ IF Paper THEN row[t] = "CLOSED"
     ELSE Exists(ExitId(t)) /\ orders[ExitId(t)].status = "filled"

\* A signal is bought again on the same day only after its previous trade was
\* sold: the trade of attempt n exists only when the one of attempt n - 1 is
\* out of the book and its exit is complete (ExecutionService.forget).
ReentryAfterExit ==
  \A t \in Used : AttemptOf(t) > 0 =>
    \E u \in Used : /\ BaseOf(u) = BaseOf(t)
                    /\ AttemptOf(u) = AttemptOf(t) - 1
                    /\ Exited(u)

-----------------------------------------------------------------------------
(* Exits                                                                   *)

\* An exit is submitted by one thread: a position is claimed by at most one of
\* the consumer and the liquidator, it stays EXITING and without an exit order
\* while it is claimed, and only an EXITING position has an exit order. Neither
\* the reconciler nor the other thread touches it in between.
ExclusiveExit ==
  /\ \A x, y \in Threads : x # y => claimed[x] \cap claimed[y] = {}
  /\ \A x \in Threads : \A t \in claimed[x] : pos[t] = "EXITING" /\ exitOrder[t] = NoId
  /\ \A t \in Trades : exitOrder[t] # NoId => pos[t] = "EXITING"

\* An EXITING position is always somebody's to finish: a thread holds its claim,
\* or it has an exit order the reconciler polls.
ClaimsAreServed ==
  \A t \in Trades : pos[t] = "EXITING" /\ exitOrder[t] = NoId =>
    \E x \in Threads : t \in claimed[x]

\* The broker never sells more of a trade than it bought: all exit orders of a
\* trade together fill at most what its entry filled, also when replies are lost
\* and exits retried.
NoOversell ==
  \A t \in Used : Filled(ExitId(t)) =< Filled(EntryId(t))

-----------------------------------------------------------------------------
(* The inductive invariant behind KeysUnique and ExclusiveExit             *)

Active(t) == t = cur \/ t \in Tracked

\* The re-entry counter never falls behind a key, exactly the keys of the current
\* attempts are taken, and whatever is being opened or tracked is a current attempt.
CurrentKeys ==
  /\ \A t \in Used : AttemptOf(t) =< attempts[BaseOf(t)]
  /\ \A t \in Used : trade[t].key \in seen <=> AttemptOf(t) = attempts[BaseOf(t)]
  /\ \A t \in Used : Active(t) => AttemptOf(t) = attempts[BaseOf(t)]

\* A trade is not in the book while its entry is being executed.
EntryUntracked == cur # NoTrade => pos[cur] = "none"

\* The position the reconciler fetched an order for is still in the state it was
\* fetched in when the answer is applied.
PolledPositions ==
  /\ rcur.doing = "entry" =>
       pos[rcur.trade] = "PENDING_ENTRY" /\ entryOrder[rcur.trade] # NoId
  /\ rcur.doing = "exit" => pos[rcur.trade] = "EXITING" /\ exitOrder[rcur.trade] # NoId

\* What every step of the executor preserves, whatever the remote calls do and also
\* when it was started after a crash: types and the exclusive ownership of exits
\* (services.py, positions.py).
ProcessInv == TypeOK /\ EntryUntracked /\ ExclusiveExit /\ PolledPositions

\* With the discipline of keys, which holds from one start to the next crash.
IndInv == ProcessInv /\ CurrentKeys /\ KeysUnique

-----------------------------------------------------------------------------
(* Orders, cash and rows                                                   *)

\* While no reply is lost, every order that works at the broker is the order of
\* a position the reconciler polls: it cannot fill unnoticed.
OrdersKnown ==
  \A t \in Used :
    /\ Working(EntryId(t)) => pos[t] = "PENDING_ENTRY" /\ entryOrder[t] = EntryId(t)
    /\ Working(ExitId(t)) => pos[t] = "EXITING" /\ exitOrder[t] = ExitId(t)

\* Cash follows the entry order: a hold is outstanding only while somebody is
\* still to settle it, it is captured only for a filled order and released only
\* when the order can no longer become a complete fill.
HoldsFollowOrders ==
  \A t \in Used :
    /\ hold[t] = "held" => t = cur \/ pos[t] = "PENDING_ENTRY" \/ t = rcur.trade
    /\ hold[t] = "captured" => orders[EntryId(t)].status = "filled"
    /\ hold[t] = "released" => ~Exists(EntryId(t)) \/ orders[EntryId(t)].status = "dead"

EntryStep(from, to) ==
  \/ from = "none" /\ to = "NEW"
  \/ from = "NEW" /\ to \in {"CASH_HELD", "INSUFFICIENT_FUNDS", "FAILED"}
  \/ from = "CASH_HELD" /\ to \in {"SUBMITTED", "FAILED"}
  \/ from \in {"SUBMITTED", "PARTIALLY_FILLED"} /\
     to \in {"PARTIALLY_FILLED", "FILLED", "REJECTED"}

ExitStep(from, to) ==
  \/ from = "FILLED" /\ to \in {"EXIT_SUBMITTED", "EXIT_FAILED"}
  \/ from = "EXIT_SUBMITTED" /\ to \in {"EXIT_PARTIALLY_FILLED", "CLOSED", "EXIT_FAILED"}
  \/ from = "EXIT_PARTIALLY_FILLED" /\ to \in {"CLOSED", "EXIT_FAILED"}
  \/ from = "EXIT_FAILED" /\ to = "EXIT_SUBMITTED"

BoughtStatuses == {"FILLED", "CLOSED"} \cup ExitStatuses

\* A thread has submitted an exit of t and has not yet written so (_submit_exit).
ExitUnwritten(t) == \E x \in Threads : unlogged[x] = t

\* Every change of a live row is a step of the documented lifecycle (SPEC 3.3),
\* although three threads write rows and the reconciler acts on answers that may be
\* old: with one exception. Between the exit order and the EXIT_SUBMITTED update of
\* _submit_exit the reconciler may write the row first, out of turn. A CLOSED row
\* changes in that window alone, and only by that update.
LiveRowsAdvance ==
  [][\A t \in Trades : row'[t] # row[t] =>
       \/ EntryStep(row[t], row'[t]) \/ ExitStep(row[t], row'[t])
       \/ /\ ExitUnwritten(t)
          /\ row[t] \in BoughtStatuses /\ row'[t] \in BoughtStatuses \ {"FILLED"}
          /\ row[t] = "CLOSED" => row'[t] = "EXIT_SUBMITTED"]_vars

-----------------------------------------------------------------------------
(* What the proofs of the properties of orders, exits and rows need more   *)

\* Only a paper process fills in the process; it knows no orders and has no
\* reconciler.
ModesApart ==
  /\ pc = "fill" => Paper
  /\ Paper => /\ DOMAIN orders = {}
              /\ pc \notin {"reserve", "submit", "release"}
              /\ \A x \in Threads : unlogged[x] = NoTrade
              /\ rtodo = {} /\ rcur = NoJob

\* The order ids in the book are those of the position's own orders, and the broker
\* has these orders.
OwnOrders ==
  \A t \in Trades :
    /\ entryOrder[t] # NoId => t \in Used /\ entryOrder[t] = EntryId(t) /\ Exists(EntryId(t))
    /\ exitOrder[t] # NoId => t \in Used /\ exitOrder[t] = ExitId(t) /\ Exists(ExitId(t))

\* What a row may become: its lifecycle, in turn or out of it.
RowMayBecome(from, to) ==
  \/ EntryStep(from, to)
  \/ from \in BoughtStatuses /\ to \in BoughtStatuses \ {"FILLED"}

PolledOrder ==
  OrderId(trade[rcur.trade].key, IF rcur.doing = "exit" THEN "exit" ELSE "entry")

\* An answer of the broker that is still to be applied may be old and is not wrong: the
\* order has filled as much or more by now, and it ended as reported, if it ended.
AnswersHold ==
  /\ rcur.doing = "none" => rcur.report = "none"
  /\ rcur.doing = "capture" => rcur.report = "filled"
  /\ rcur.doing = "release" => rcur.report = "dead"
  /\ rcur.doing # "none" =>
       /\ Exists(PolledOrder)
       /\ rcur.filled =< orders[PolledOrder].filled
       /\ rcur.report \in {"filled", "dead"} =>
            orders[PolledOrder].status = rcur.report /\ orders[PolledOrder].filled = rcur.filled

FilledUp(o) == Exists(o) /\ orders[o].status = "filled"

\* No order fills beyond its quantity; what is sold was bought to the last share, and
\* the exit order asks for all of it; a live position counts what its entry has bought.
SharesCovered ==
  /\ \A o \in DOMAIN orders :
       /\ 0 < orders[o].qty /\ orders[o].filled =< orders[o].qty
       /\ orders[o].status = "filled" => orders[o].filled = orders[o].qty
  /\ \A t \in Used :
       /\ ~Paper /\ pos[t] \in {"OPEN", "EXITING"} =>
            FilledUp(EntryId(t)) /\ quantity[t] = Filled(EntryId(t))
       /\ Exists(ExitId(t)) =>
            FilledUp(EntryId(t)) /\ orders[ExitId(t)].qty = Filled(EntryId(t))

BoughtRow(t) == row[t] \in {"FILLED", "CLOSED"} \cup ExitStatuses

\* A row is where the thread that writes it next expects it. (A position without an
\* entry order is one that a restart restored before its order was known.)
RowsFit ==
  /\ \A t \in Trades \ Used : row[t] = "none"
  /\ pc \in {"fill", "reserve"} => row[cur] = "NEW"
  /\ pc = "submit" => row[cur] = "CASH_HELD"
  /\ \A t \in Trades :
       /\ pos[t] = "PENDING_ENTRY" =>
            \/ row[t] \in {"SUBMITTED", "PARTIALLY_FILLED"}
            \/ row[t] = "CASH_HELD" /\ entryOrder[t] = NoId
       /\ pos[t] \in {"OPEN", "EXITING"} => BoughtRow(t)
  /\ \A x \in Threads : unlogged[x] # NoTrade => BoughtRow(unlogged[x])

\* The row of a position with an exit order says so, unless that is still to be written,
\* and a closed position is out of the book.
ExitRowsFit ==
  \A t \in Trades :
    /\ exitOrder[t] # NoId =>
         ExitUnwritten(t) \/ row[t] \in {"EXIT_SUBMITTED", "EXIT_PARTIALLY_FILLED"}
    /\ row[t] = "CLOSED" => pos[t] = "none"

\* The consumer holds claims only while it submits them.
ClaimsOfAMessage == pc # "exits" => claimed["consumer"] = {}

\* A counter moves on only past an attempt that was sold.
CountersBacked ==
  \A b \in Bases : attempts[b] > 0 =>
    \E u \in Used : BaseOf(u) = b /\ AttemptOf(u) = attempts[b] - 1 /\ Exited(u)

Settling(t) == t = rcur.trade /\ rcur.doing \in {"capture", "release"}

\* Between an entry's steps its hold and its order are where the next step expects
\* them, and a hold is outstanding exactly while somebody is to settle it.
HoldsFit ==
  /\ \A t \in Trades \ Used : hold[t] = "none"
  /\ pc \in {"fill", "reserve"} => hold[cur] = "none"
  /\ pc \in {"submit", "release"} => hold[cur] = "held"
  /\ pc \in {"reserve", "submit", "release"} => ~Exists(EntryId(cur))
  /\ \A t \in Used :
       /\ pos[t] = "PENDING_ENTRY" => hold[t] = "held" /\ ~Settling(t)
       /\ Settling(t) => hold[t] = "held"
       /\ hold[t] = "held" => t = cur \/ pos[t] = "PENDING_ENTRY" \/ Settling(t)
       /\ hold[t] = "captured" => Exists(EntryId(t))

-----------------------------------------------------------------------------
(* Liveness                                                                *)

\* The broker ends an order: it fills what is left, or gives up on it.
OrderEnds(t, leg) ==
  /\ t \in Used
  /\ LET o == OrderId(trade[t].key, leg)
     IN  /\ Exists(o)
         /\ Fill(o, orders[o].qty - orders[o].filled) \/ Kill(o)
         /\ MarketUnchanged

\* Threads keep running, the broker ends every order and, asked again and again
\* about one, answers. Ticks, fills and the clock are not required to come.
Fairness ==
  /\ WF_vars(Consume)
  /\ \A x \in Threads : WF_vars(SubmitExit(x))
  /\ WF_vars(Liquidate)
  /\ WF_vars(Reconcile)
  /\ \A t \in Trades : SF_vars(Fetch(t))
  /\ \A t \in Trades, leg \in {"entry", "exit"} : WF_vars(OrderEnds(t, leg))

FairSpec == Spec /\ Fairness

\* A pending entry is resolved: the position opens or leaves the book.
EntriesSettle ==
  \A t \in Trades : pos[t] = "PENDING_ENTRY" ~> pos[t] # "PENDING_ENTRY"

\* A position that is being sold is resolved, it closes or is open again, as long as
\* a thread has claimed it or its exit order is known: failing calls and polls,
\* orders that die and exits that are tried again may delay that, not prevent it.
\* (A reply that does not validate can leave it with neither, see ClaimsAreServed.)
ExitsSettle ==
  \A t \in Trades :
    pos[t] = "EXITING" ~>
      pos[t] # "EXITING" \/ (exitOrder[t] = NoId /\ \A x \in Threads : t \notin claimed[x])

\* At the close every open position is taken out of OPEN: if the process still
\* runs on the day of the liquidation, no position stays open through it.
CloseClaimsAll ==
  \A t \in Trades :
    pos[t] = "OPEN" /\ afterClose /\ lastRun # today ~> pos[t] # "OPEN" \/ ~afterClose

-----------------------------------------------------------------------------
(* Refinement                                                              *)

\* A trade is over when it is neither being opened nor in the book. Its signal may
\* trade again exactly when its key was forgotten.
Phase(t) ==
  IF t \notin Used THEN "unborn"
  ELSE IF t = cur \/ pos[t] = "PENDING_ENTRY" THEN "entering"
  ELSE IF pos[t] = "OPEN" THEN "held"
  ELSE IF pos[t] = "EXITING" THEN "closing"
  ELSE IF trade[t].key \in seen THEN "abandoned" ELSE "closed"

phases == [t \in Trades |-> Phase(t)]

signals == [t \in Trades |-> IF t \in Used THEN BaseOf(t) ELSE NoTrade]

Lifecycle == INSTANCE SignalLifecycle WITH
  NoBase <- NoTrade, phase <- phases, signal <- signals

\* The executor implements the life of signals it promises, with all its threads
\* and whatever the remote calls do.
LifecycleSpec == Lifecycle!Spec

-----------------------------------------------------------------------------
(* Claims of documents and comments that the code does not keep            *)

\* SPEC 3.3: CLOSED is the end of a row's life.
ClosedIsFinal ==
  [][\A t \in Trades : row[t] = "CLOSED" => row'[t] = "CLOSED"]_row

Bought(t) == Filled(EntryId(t)) > Filled(ExitId(t))

\* positions.py: every open position is tracked in the book.
HoldingsTracked ==
  \A t \in Used : Bought(t) => t \in Tracked

\* services.py: everything is flattened at the close, so that nothing is carried
\* past the session. Once the liquidation of the day is over and the consumer is
\* between messages, no position is open.
NothingCarried ==
  lastRun = today /\ Submitted("liquidator") /\ pc = "idle" => AllOpen = {}

\* services.py: a position whose exit died is open again so that the exit can be
\* retried: the broker would accept an order under its exit id.
ExitCanBeRetried ==
  \A t \in AllOpen : Acceptable(ExitId(t), quantity[t])

\* positions.py: the book is the source of truth for open positions: an open
\* position has the shares that are held.
QuantityHeld ==
  \A t \in AllOpen : quantity[t] = Filled(EntryId(t)) - Filled(ExitId(t))

\* SPEC 5.5: a broker call that failed sets FAILED and releases the hold: there
\* is nothing to pay for.
FailedMeansNoOrder ==
  \A t \in Used : row[t] = "FAILED" => ~Exists(EntryId(t))
=============================================================================
