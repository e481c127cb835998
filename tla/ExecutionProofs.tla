--------------------------- MODULE ExecutionProofs ---------------------------
(***************************************************************************)
(* Proofs about one executor process, for every set of entries, prices,    *)
(* days and trades, in both modes and with any of the faults. IndInv and   *)
(* OrdersInv are inductive invariants; the executor implements             *)
(* SignalLifecycle. TypeNext, KeysNext and ExitsNext are the parts of the  *)
(* inductive step of IndInv, Simulation is the step of the refinement.     *)
(* The second half says what a step may do to one variable and proves the  *)
(* properties of orders, re-entry, claims, rows and holds from that.       *)
(***************************************************************************)
EXTENDS ExecutionSafety, TLAPS

\* IndInv is ProcessInv with CurrentKeys and KeysUnique; it is expanded throughout.
USE DEF IndInv

\* A key of attempt n splits into its base and n.
LEMMA SplitCompose ==
  ASSUME NEW b, NEW n \in Nat
  PROVE  SplitAttempt(ComposeKey(b, n)) = [base |-> b, attempt |-> n]
BY DEF SplitAttempt, ComposeKey

\* A composed key has the shape of a key.
LEMMA KeyShape ==
  ASSUME NEW b \in Bases, NEW n \in Nat
  PROVE  ComposeKey(b, n) \in [base : Bases, suffix : Seq(Nat)]
BY DEF ComposeKey

\* The base of an entry on a day is one of the bases.
LEMMA BaseInBases ==
  ASSUME NEW e \in Entries, NEW d \in Days
  PROVE  KeyBase(e, d) \in Bases
BY DEF KeyBase, Bases

\* A price that can be sized gives a whole number of shares, zero included.
LEMMA SizeInNat ==
  ASSUME NEW p \in Prices, Sizable(p)
  PROVE  SizedQuantity(p) \in Nat
BY SizingAssumption, PriceAssumption DEF Sizable, SizedQuantity

\* Each part of TypeOK depends on a few variables: a step that leaves them alone
\* keeps it.
LEMMA Frame ==
  ASSUME TypeOK, UNCHANGED trade
  PROVE  /\ Used' = Used /\ OrderIds' = OrderIds
         /\ \A t \in Trades : BaseOf(t)' = BaseOf(t) /\ AttemptOf(t)' = AttemptOf(t)
         /\ TradesOK'
         /\ UNCHANGED book => BookOK'
         /\ UNCHANGED orders => OrdersOK'
         /\ UNCHANGED <<row, hold, attempts>> => RecordsOK'
         /\ UNCHANGED consumer => ConsumerOK'
         /\ UNCHANGED exits => ExitsOK'
         /\ UNCHANGED reconciler => ReconcilerOK'
         /\ UNCHANGED clock => ClockOK'
<1>1. Used' = Used
  BY DEF Used
<1>2. OrderIds' = OrderIds
  BY <1>1 DEF OrderIds
<1>3. \A t \in Trades : BaseOf(t)' = BaseOf(t) /\ AttemptOf(t)' = AttemptOf(t)
  BY DEF BaseOf, AttemptOf
<1>4. TradesOK'
  BY <1>1, <1>3 DEF TypeOK, TradesOK, Used
<1>5. UNCHANGED book => BookOK'
  BY <1>1, <1>2 DEF TypeOK, BookOK, book, Tracked
<1>6. UNCHANGED orders => OrdersOK'
  BY <1>2 DEF TypeOK, OrdersOK
<1>7. UNCHANGED <<row, hold, attempts>> => RecordsOK'
  BY DEF TypeOK, RecordsOK
<1>8. UNCHANGED consumer => ConsumerOK'
  BY <1>1 DEF TypeOK, ConsumerOK, consumer
<1>9. UNCHANGED exits => ExitsOK'
  BY <1>1 DEF TypeOK, ExitsOK, exits
<1>10. UNCHANGED reconciler => ReconcilerOK'
  BY <1>1 DEF TypeOK, ReconcilerOK, reconciler
<1>11. UNCHANGED clock => ClockOK'
  BY DEF TypeOK, ClockOK, clock
<1> QED
  BY <1>1, <1>2, <1>3, <1>4, <1>5, <1>6, <1>7, <1>8, <1>9, <1>10, <1>11

\* There is a first day.
LEMMA FirstDay == 1 \in Days
BY DaysAssumption DEF Days

\* The initial state has the types.
LEMMA TypeInit == Init => TypeOK
<1> SUFFICES ASSUME Init PROVE TypeOK
  OBVIOUS
<1> USE DEF Init, BookInit
<1>1. Used = {} /\ Tracked = {}
  BY DEF Used, Tracked
<1>2. TradesOK
  BY <1>1 DEF TradesOK
<1>3. BookOK
  BY <1>1 DEF BookOK
<1>4. OrdersOK
  BY DEF OrdersOK
<1>5. RecordsOK
  BY DEF RecordsOK, TradeStatus
<1>6. ConsumerOK
  BY DEF ConsumerOK
<1>7. ExitsOK
  BY DEF ExitsOK
<1>8. ReconcilerOK
  BY DEF ReconcilerOK, NoJob, Job
<1>9. ClockOK
  BY FirstDay DEF ClockOK
<1> QED
  BY <1>2, <1>3, <1>4, <1>5, <1>6, <1>7, <1>8, <1>9 DEF TypeOK

\* A key of a used trade splits into its base and attempt, both well formed.
LEMMA UsedKeys ==
  ASSUME TypeOK, NEW t \in Used
  PROVE  /\ BaseOf(t) \in Bases /\ AttemptOf(t) \in Nat
         /\ SplitAttempt(trade[t].key) = [base |-> BaseOf(t), attempt |-> AttemptOf(t)]
<1>1. trade[t].key.base \in Bases
  BY DEF TypeOK, TradesOK, Used, TradeRecord
<1> QED
  BY <1>1 DEF TypeOK, TradesOK, BaseOf, AttemptOf, SplitAttempt

\* Forgetting the key of a used trade keeps the counters natural numbers.
LEMMA ForgetTypes ==
  ASSUME TypeOK, NEW t \in Used, Forget(trade[t].key)
  PROVE  attempts' \in [Bases -> Nat]
<1>1. attempts' = [attempts EXCEPT ![BaseOf(t)] = AttemptOf(t) + 1]
  BY DEF Forget, BaseOf, AttemptOf
<1>2. BaseOf(t) \in Bases /\ AttemptOf(t) \in Nat
  BY UsedKeys
<1>3. attempts \in [Bases -> Nat]
  BY DEF TypeOK, RecordsOK
<1> QED
  BY <1>1, <1>2, <1>3

\* A new trade gets a well-formed key under which orders may be placed.
LEMMA EnterTypes ==
  ASSUME TypeOK, NEW e \in todo, NEW t \in Trades, Enter(e, t)
  PROVE  TypeOK'
<1> USE DEF TypeOK
<1> DEFINE base == KeyBase(e, tick.date)
           key  == ComposeKey(base, attempts[base])
<1>1. e \in Entries /\ base \in Bases /\ attempts[base] \in Nat
  BY BaseInBases DEF Enter, ConsumerOK, RecordsOK, Ticks
<1>2. key \in [base : Bases, suffix : Seq(Nat)]
  BY <1>1, KeyShape
<1>3. /\ trade' = [trade EXCEPT ![t] = [entry |-> e, key |-> key]]
      /\ [entry |-> e, key |-> key] \in TradeRecord
  BY <1>1, <1>2 DEF Enter, NextKey, TradeRecord
<1>4. Used' = Used \cup {t} /\ t \notin Used
  BY <1>3, TradeAssumption DEF Used, Enter, Unused, TradesOK
<1>5. OrderIds \subseteq OrderIds'
  BY <1>3, <1>4 DEF OrderIds, TradesOK
<1>6. TradesOK'
  <2>1. trade' \in [Trades -> TradeRecord \cup {NoTrade}]
    BY <1>3 DEF TradesOK
  <2>2. ASSUME NEW u \in Used'
        PROVE AttemptOf(u)' \in Nat /\ trade'[u].key = ComposeKey(BaseOf(u)', AttemptOf(u)')
    <3>1. CASE u = t
      <4>1. trade'[u].key = key
        BY <1>3, <3>1 DEF TradesOK
      <4>2. BaseOf(u)' = base /\ AttemptOf(u)' = attempts[base]
        BY <1>1, <4>1, SplitCompose DEF BaseOf, AttemptOf
      <4> QED
        BY <1>1, <4>1, <4>2
    <3>2. CASE u # t
      BY <1>3, <1>4, <3>2 DEF TradesOK, BaseOf, AttemptOf
    <3> QED
      BY <3>1, <3>2
  <2> QED
    BY <2>1, <2>2 DEF TradesOK
<1>7. BookOK'
  BY <1>4, <1>5 DEF BookOK, Enter, book, Tracked
<1>8. OrdersOK'
  BY <1>5 DEF OrdersOK, Enter
<1>9. RecordsOK'
  BY DEF RecordsOK, Enter, SetRow, TradeStatus, EntryStatuses, TakeKey
<1>10. ConsumerOK'
  BY <1>4 DEF ConsumerOK, Enter, book, Tracked, BookOK
<1>11. ExitsOK'
  BY <1>4 DEF ExitsOK, Enter, exits
<1>12. ReconcilerOK'
  BY <1>4 DEF ReconcilerOK, Enter, reconciler
<1>13. ClockOK'
  BY DEF ClockOK, Enter, clock
<1> QED
  BY <1>6, <1>7, <1>8, <1>9, <1>10, <1>11, <1>12, <1>13

\* Every step keeps the types. What an action leaves alone is covered by Frame.
LEMMA TypeNext == TypeOK /\ [Next]_vars => TypeOK'
<1> SUFFICES ASSUME TypeOK, [Next]_vars PROVE TypeOK'
  OBVIOUS
<1> USE DEF TypeOK
<1>1. CASE UNCHANGED vars
  BY <1>1, Frame DEF vars, keys, book
<1>2. ASSUME NEW k \in Ticks, NEW armed \in SUBSET Entries, Poll(k, armed)
      PROVE TypeOK'
  <2>1. ConsumerOK'
    BY <1>2, Frame DEF Poll, ConsumerOK, book
  <2> QED
    BY <1>2, <2>1, Frame DEF Poll, keys
<1>3. CASE Consume
  <2>1. ASSUME NEW e \in todo, Dedup(e)
        PROVE TypeOK'
    <3>1. ConsumerOK'
      BY <2>1, Frame DEF Dedup, ConsumerOK, book
    <3> QED
      BY <2>1, <3>1, Frame DEF Dedup, keys
  <2>2. ASSUME NEW e \in todo, SizingFails(e)
        PROVE TypeOK'
    <3>1. ConsumerOK'
      BY <2>2, Frame DEF SizingFails, ConsumerOK, SkipMessage, MessageDone, book
    <3> QED
      BY <2>2, <3>1, Frame DEF SizingFails, TakeKey
  <2>3. ASSUME NEW e \in todo, NEW t \in Trades, Enter(e, t)
        PROVE TypeOK'
    BY <1>3, <2>3, EnterTypes
  <2>4. CASE FillPaper
    <3>1. ConsumerOK'
      BY <2>4, Frame DEF FillPaper, ConsumerOK, EntryDone
    <3>2. BookOK'
      BY <2>4, Frame, SizeInNat
      DEF FillPaper, ConsumerOK, BookOK, Open, Tracked, PositionState, Ticks
    <3>3. RecordsOK'
      BY <2>4 DEF FillPaper, RecordsOK, SetRow, TradeStatus, ConsumerOK, Used, keys
    <3> QED
      BY <2>4, <3>1, <3>2, <3>3, Frame DEF FillPaper
  <2>5. CASE CashHeld \/ InsufficientFunds \/ ReserveFails \/ ReserveMalformed
    <3> USE <2>5 DEF CashHeld, InsufficientFunds, ReserveFails, ReserveMalformed,
                     ReserveUnchanged, EntryDone, SkipMessage, MessageDone
    <3>1. ConsumerOK'
      BY Frame DEF ConsumerOK, book
    <3>2. RecordsOK'
      BY DEF RecordsOK, SetRow, TradeStatus, EntryStatuses, DeadStatuses, keys
    <3> QED
      BY <3>1, <3>2, Frame
  <2>6. CASE EntryAccepted
    <3> USE <2>6 DEF EntryAccepted, SubmitUnchanged
    <3>1. ConsumerOK'
      BY Frame DEF ConsumerOK, EntryDone
    <3>2. BookOK'
      BY Frame, SizeInNat
      DEF ConsumerOK, BookOK, Open, Tracked, PositionState, Ticks, EntryId, OrderId, OrderIds
    <3>3. RecordsOK'
      BY DEF RecordsOK, SetRow, TradeStatus, EntryStatuses, ConsumerOK, Used, keys
    <3>4. OrdersOK'
      BY SizeInNat, Frame
      DEF OrdersOK, Accept, Put, Order, OrderStatus, ConsumerOK, EntryId, OrderId, OrderIds, Ticks
    <3> QED
      BY <3>1, <3>2, <3>3, <3>4, Frame
  <2>7. CASE EntryFails \/ EntryMalformed
    <3> USE <2>7 DEF EntryFails, SubmissionFails, EntryMalformed, SubmitUnchanged,
                 SkipMessage, MessageDone
    <3>1. ConsumerOK'
      BY Frame DEF ConsumerOK, book
    <3>2. RecordsOK'
      BY DEF RecordsOK, SetRow, TradeStatus, DeadStatuses, keys
    <3>3. OrdersOK'
      BY SizeInNat, Frame
      DEF OrdersOK, Accept, Put, Order, OrderStatus, ConsumerOK, EntryId, OrderId, OrderIds, Ticks
    <3> QED
      BY <3>1, <3>2, <3>3, Frame
  <2>8. CASE ReleaseAfterFailure
    <3>1. ConsumerOK'
      BY <2>8, Frame DEF ReleaseAfterFailure, ConsumerOK, EntryDone, book
    <3>2. RecordsOK'
      BY <2>8 DEF ReleaseAfterFailure, Settle, RecordsOK, keys
    <3> QED
      BY <2>8, <3>1, <3>2, Frame DEF ReleaseAfterFailure
  <2>9. CASE ClaimExits
    <3> USE <2>9 DEF ClaimExits, Claim, Flip
    <3>1. ConsumerOK'
      BY Frame DEF ConsumerOK
    <3>2. BookOK'
      BY Frame DEF BookOK, Tracked, PositionState, ExitsFor
    <3>3. ExitsOK'
      BY Frame DEF ExitsOK, ExitsFor, BookOK
    <3> QED
      BY <3>1, <3>2, <3>3, Frame DEF keys
  <2>10. CASE ExitsDone
    <3>1. ConsumerOK'
      BY <2>10, Frame DEF ExitsDone, ConsumerOK, MessageDone, book
    <3> QED
      BY <2>10, <3>1, Frame DEF ExitsDone, keys
  <2> QED
    BY <1>3, <2>1, <2>2, <2>3, <2>4, <2>5, <2>6, <2>7, <2>8, <2>9, <2>10 DEF Consume
<1>4. ASSUME NEW x \in Threads, SubmitExit(x)
      PROVE TypeOK'
  <2>1. ASSUME NEW t \in Trades, ExitPaper(x, t)
        PROVE TypeOK'
    <3> USE <2>1 DEF ExitPaper
    <3>1. ConsumerOK'
      BY Frame DEF ConsumerOK, consumer, Remove
    <3>2. BookOK'
      BY Frame DEF BookOK, Remove, Tracked
    <3>3. RecordsOK'
      BY ForgetTypes DEF RecordsOK, SetRow, TradeStatus, Submitting, ExitsOK
    <3>4. ExitsOK'
      BY Frame DEF ExitsOK, Handled
    <3> QED
      BY <3>1, <3>2, <3>3, <3>4, Frame
  <2>2. ASSUME NEW t \in Trades, ExitAccepted(x, t)
        PROVE TypeOK'
    <3> USE <2>2 DEF ExitAccepted, Submitting
    <3>1. ConsumerOK'
      BY Frame
    <3>2. BookOK'
      BY Frame DEF BookOK, Tracked, ExitId, OrderId, OrderIds, ExitsOK
    <3>3. OrdersOK'
      BY Frame
      DEF OrdersOK, Accept, Acceptable, Put, Order, OrderStatus, ExitId, OrderId, OrderIds, ExitsOK, BookOK
    <3>4. ExitsOK'
      BY Frame DEF ExitsOK, Handled
    <3> QED
      BY <3>1, <3>2, <3>3, <3>4, Frame DEF keys
  <2>3. ASSUME NEW t \in Trades, ExitFails(x, t) \/ ExitMalformed(x, t)
        PROVE TypeOK'
    <3> USE <2>3 DEF ExitFails, SubmissionFails, ExitMalformed, Submitting
    <3>1. ConsumerOK'
      BY Frame DEF ConsumerOK, consumer, SkipMessage, MessageDone
    <3>2. BookOK'
      BY Frame DEF BookOK, Tracked, ReleaseExit, PositionState, ExitsOK
    <3>3. RecordsOK'
      BY DEF RecordsOK, SetRow, TradeStatus, ExitStatuses, keys
    <3>4. OrdersOK'
      BY Frame
      DEF OrdersOK, Accept, Acceptable, Put, Order, OrderStatus, ExitId, OrderId, OrderIds, ExitsOK, BookOK
    <3>5. ExitsOK'
      BY Frame DEF ExitsOK, Handled
    <3> QED
      BY <3>1, <3>2, <3>3, <3>4, <3>5, Frame
  <2>4. CASE LogExit(x)
    <3>1. RecordsOK'
      BY <2>4 DEF LogExit, RecordsOK, SetRow, TradeStatus, ExitStatuses, keys
    <3>2. ExitsOK'
      BY <2>4, Frame DEF LogExit, ExitsOK
    <3> QED
      BY <2>4, <3>1, <3>2, Frame DEF LogExit, book
  <2> QED
    BY <1>4, <2>1, <2>2, <2>3, <2>4 DEF SubmitExit
<1>5. CASE Liquidate
  <2> USE <1>5 DEF Liquidate, Claim, Flip
  <2>1. ConsumerOK'
    BY Frame DEF ConsumerOK, consumer, AllOpen
  <2>2. BookOK'
    BY Frame DEF BookOK, Tracked, PositionState, AllOpen
  <2>3. ExitsOK'
    BY Frame DEF ExitsOK, AllOpen, BookOK
  <2>4. ClockOK'
    BY DEF ClockOK
  <2> QED
    BY <2>1, <2>2, <2>3, <2>4, Frame DEF keys
<1>6. CASE Reconcile
  <2>1. CASE Snapshot
    <3>1. ReconcilerOK'
      BY <2>1, Frame DEF Snapshot, ReconcilerOK, PendingAndExiting, BookOK
    <3> QED
      BY <2>1, <3>1, Frame DEF Snapshot, book, keys
  <2>2. ASSUME NEW t \in Trades, PassOver(t) \/ FetchMalformed(t)
        PROVE TypeOK'
    <3>1. ReconcilerOK'
      BY <2>2, Frame DEF PassOver, FetchMalformed, PollUnchanged, ReconcilerOK
    <3> QED
      BY <2>2, <3>1, Frame DEF PassOver, FetchMalformed, PollUnchanged, book, keys
  <2>3. ASSUME NEW t \in Trades, Fetch(t)
        PROVE TypeOK'
    <3>1. Report(PollId(t)) \in {"accepted", "partially_filled", "filled", "dead"}
      BY DEF Report
    <3>2. Filled(PollId(t)) \in Nat
      BY DEF Filled, Exists, OrdersOK, Order
    <3>3. ReconcilerOK'
      BY <2>3, <3>1, <3>2, Frame DEF Fetch, Polling, PollUnchanged, ReconcilerOK, Job
    <3> QED
      BY <2>3, <3>3, Frame DEF Fetch, PollUnchanged, book, keys
  <2>4. CASE EntryFilled \/ EntryDead \/ ExitDead
    <3> USE <2>4 DEF EntryFilled, EntryDead, ExitDead, Applying, ApplyUnchanged
    <3>1. rcur.trade \in Used
      BY DEF ReconcilerOK
    <3>2. ConsumerOK'
      BY Frame DEF ConsumerOK, consumer
    <3>3. BookOK'
      BY <3>1, Frame DEF BookOK, Tracked, PositionState, MarkOpen, Remove, ReleaseExit, ReconcilerOK, Job
    <3>4. RecordsOK'
      BY DEF RecordsOK, SetRow, TradeStatus, DeadStatuses, ExitStatuses, keys
    <3>5. ReconcilerOK'
      BY Frame DEF ReconcilerOK, Job, NoJob
    <3> QED
      BY <3>2, <3>3, <3>4, <3>5, Frame
  <2>5. CASE ExitFilled
    <3> USE <2>5 DEF ExitFilled, Applying, ApplyUnchanged
    <3>1. rcur.trade \in Used
      BY DEF ReconcilerOK
    <3>2. ConsumerOK'
      BY Frame DEF ConsumerOK, consumer, Remove
    <3>3. BookOK'
      BY <3>1, Frame DEF BookOK, Tracked, Remove
    <3>4. RecordsOK'
      BY <3>1, ForgetTypes DEF RecordsOK, SetRow, TradeStatus
    <3>5. ReconcilerOK'
      BY Frame DEF ReconcilerOK, Job, NoJob
    <3> QED
      BY <3>2, <3>3, <3>4, <3>5, Frame
  <2>6. CASE StillWorking
    <3>1. RecordsOK'
      BY <2>6
      DEF StillWorking, PartialStatus, ApplyUnchanged, RecordsOK, SetRow, TradeStatus, EntryStatuses, ExitStatuses, keys
    <3>2. ReconcilerOK'
      BY <2>6, Frame DEF StillWorking, ApplyUnchanged, ReconcilerOK, Job, NoJob
    <3> QED
      BY <2>6, <3>1, <3>2, Frame DEF StillWorking, ApplyUnchanged, book
  <2>7. CASE SettleHold
    <3>1. RecordsOK'
      BY <2>7 DEF SettleHold, Settle, RecordsOK, keys
    <3>2. ReconcilerOK'
      BY <2>7, Frame DEF SettleHold, ReconcilerOK, Job, NoJob
    <3> QED
      BY <2>7, <3>1, <3>2, Frame DEF SettleHold, book
  <2> QED
    BY <1>6, <2>1, <2>2, <2>3, <2>4, <2>5, <2>6, <2>7 DEF Reconcile
<1>7. ASSUME NEW o \in DOMAIN orders, MarketFill(o) \/ MarketKill(o)
      PROVE TypeOK'
  <2>1. OrdersOK'
    <3>1. CASE MarketFill(o)
      <4>1. orders[o] \in Order
        BY DEF OrdersOK
      <4>2. PICK n \in 1 .. orders[o].qty : Fill(o, n)
        BY <3>1 DEF MarketFill
      <4>3. orders[o].filled + n \in Nat
        BY <4>1, <4>2 DEF Order
      <4> QED
        BY <1>7, <4>1, <4>2, <4>3, Frame
        DEF MarketFill, MarketKill, MarketUnchanged, OrdersOK, Fill, Put, Order, OrderStatus
    <3>2. CASE MarketKill(o)
      BY <1>7, <3>2, Frame
      DEF MarketKill, MarketUnchanged, OrdersOK, Kill, Put, Order, OrderStatus
    <3> QED
      BY <1>7, <3>1, <3>2
  <2> QED
    BY <1>7, <2>1, Frame DEF MarketFill, MarketKill, MarketUnchanged, book, keys
<1>8. CASE CloseReached \/ NextDay
  <2>1. MaxDay \in Nat
    BY DaysAssumption
  <2>2. ClockOK'
    <3>1. today' \in Days
      BY <1>8, <2>1 DEF CloseReached, NextDay, ClockOK, Days
    <3>2. afterClose' \in BOOLEAN
      BY <1>8 DEF CloseReached, NextDay
    <3>3. lastRun' \in Days \cup {0}
      BY <1>8 DEF CloseReached, NextDay, ClockUnchanged, ClockOK
    <3> QED
      BY <3>1, <3>2, <3>3 DEF ClockOK
  <2> QED
    BY <1>8, <2>2, Frame DEF CloseReached, NextDay, ClockUnchanged, book, keys
<1> QED
  BY <1>1, <1>2, <1>3, <1>4, <1>5, <1>6, <1>7, <1>8 DEF Next, Market

-----------------------------------------------------------------------------
(* Keys                                                                    *)

\* Keys stay current while the keys of trades stay as they are and nothing becomes
\* active.
LEMMA KeysFrame ==
  ASSUME IndInv, UNCHANGED <<trade, attempts>>,
         \A t \in Used : trade[t].key \in seen' <=> trade[t].key \in seen,
         \A t \in Trades : Active(t)' => Active(t)
  PROVE  CurrentKeys' /\ KeysUnique'
<1>1. /\ Used' = Used
      /\ \A t \in Trades : BaseOf(t)' = BaseOf(t) /\ AttemptOf(t)' = AttemptOf(t)
  BY Frame DEF ProcessInv
<1>2. Used \subseteq Trades
  BY DEF Used
<1>3. KeysUnique'
  BY <1>1 DEF ProcessInv, KeysUnique
<1>4. CurrentKeys'
  BY <1>1, <1>2 DEF ProcessInv, CurrentKeys
<1> QED
  BY <1>3, <1>4

\* A key that is free is the key of no trade.
LEMMA FreshKey ==
  ASSUME IndInv, NEW b \in Bases, NextKey(b) \notin seen
  PROVE  \A u \in Used : trade[u].key # NextKey(b)
<1>1. attempts[b] \in Nat
  BY DEF ProcessInv, TypeOK, RecordsOK
<1>2. ASSUME NEW u \in Used, trade[u].key = NextKey(b) PROVE FALSE
  <2>1. BaseOf(u) = b /\ AttemptOf(u) = attempts[b]
    BY <1>1, <1>2, SplitCompose DEF BaseOf, AttemptOf, NextKey
  <2> QED
    BY <1>2, <2>1 DEF ProcessInv, CurrentKeys
<1> QED
  BY <1>2

\* Forgetting the key of an active trade leaves the others current: no other
\* trade had its attempt.
LEMMA ForgetKeys ==
  ASSUME IndInv, UNCHANGED trade, NEW t \in Used, Active(t), Forget(trade[t].key),
         \A u \in Trades : Active(u)' => Active(u) /\ u # t
  PROVE  CurrentKeys' /\ KeysUnique'
<1>1. /\ Used' = Used
      /\ \A u \in Trades : BaseOf(u)' = BaseOf(u) /\ AttemptOf(u)' = AttemptOf(u)
  BY Frame DEF ProcessInv
<1>2. Used \subseteq Trades
  BY DEF Used
<1>3. \A u \in Used : BaseOf(u) \in Bases /\ AttemptOf(u) \in Nat
  BY UsedKeys DEF ProcessInv
<1>4. /\ attempts' = [attempts EXCEPT ![BaseOf(t)] = AttemptOf(t) + 1]
      /\ seen' = seen \ {trade[t].key}
  BY DEF Forget, BaseOf, AttemptOf
<1>5. AttemptOf(t) = attempts[BaseOf(t)]
  BY DEF ProcessInv, CurrentKeys
<1>6. attempts \in [Bases -> Nat]
  BY DEF ProcessInv, TypeOK, RecordsOK
<1>7. \A u \in Used : BaseOf(u) = BaseOf(t) /\ AttemptOf(u) = AttemptOf(t) => u = t
  BY DEF ProcessInv, KeysUnique, TypeOK, TradesOK
<1>8. KeysUnique'
  BY <1>1 DEF ProcessInv, KeysUnique
<1>9. \A u \in Used : AttemptOf(u) =< attempts'[BaseOf(u)]
  BY <1>3, <1>4, <1>5, <1>6 DEF ProcessInv, CurrentKeys
<1>10. ASSUME NEW u \in Used
       PROVE  trade[u].key \in seen' <=> AttemptOf(u) = attempts'[BaseOf(u)]
  <2>1. CASE u = t
    <3>1. AttemptOf(u) # attempts'[BaseOf(u)]
      BY <1>3, <1>4, <1>5, <1>6, <2>1
    <3> QED
      BY <1>4, <2>1, <3>1
  <2>2. CASE u # t /\ BaseOf(u) = BaseOf(t)
    <3>1. AttemptOf(u) < attempts[BaseOf(u)]
      BY <1>3, <1>5, <1>6, <1>7, <2>2 DEF ProcessInv, CurrentKeys
    <3>2. AttemptOf(u) # attempts'[BaseOf(u)]
      BY <1>3, <1>4, <1>5, <1>6, <2>2, <3>1
    <3>3. trade[u].key \notin seen
      BY <1>3, <1>6, <3>1 DEF ProcessInv, CurrentKeys
    <3> QED
      BY <1>4, <3>2, <3>3
  <2>3. CASE BaseOf(u) # BaseOf(t)
    <3>1. attempts'[BaseOf(u)] = attempts[BaseOf(u)]
      BY <1>3, <1>4, <1>6, <2>3
    <3>2. trade[u].key # trade[t].key
      BY <2>3 DEF ProcessInv, KeysUnique
    <3> QED
      BY <1>4, <3>1, <3>2 DEF ProcessInv, CurrentKeys
  <2> QED
    BY <2>1, <2>2, <2>3
<1>11. ASSUME NEW u \in Used, Active(u)'
       PROVE  AttemptOf(u) = attempts'[BaseOf(u)]
  <2>1. Active(u) /\ u # t
    BY <1>2, <1>11
  <2>2. AttemptOf(u) = attempts[BaseOf(u)]
    BY <2>1 DEF ProcessInv, CurrentKeys
  <2>3. BaseOf(u) # BaseOf(t)
    BY <1>5, <1>7, <2>1, <2>2
  <2> QED
    BY <1>3, <1>4, <1>6, <2>2, <2>3
<1>12. CurrentKeys'
  BY <1>1, <1>2, <1>9, <1>10, <1>11 DEF CurrentKeys
<1> QED
  BY <1>8, <1>12

\* A new trade takes a key no trade has: an older trade with the key of the current
\* attempt would have left it among the keys seen.
LEMMA EnterKeys ==
  ASSUME IndInv, NEW e \in todo, NEW t \in Trades, Enter(e, t)
  PROVE  CurrentKeys' /\ KeysUnique'
<1> DEFINE base == KeyBase(e, tick.date)
           key  == ComposeKey(base, attempts[base])
<1>1. base \in Bases /\ attempts[base] \in Nat
  BY BaseInBases DEF Enter, ProcessInv, TypeOK, ConsumerOK, RecordsOK, Ticks
<1>2. /\ trade' = [trade EXCEPT ![t] = [entry |-> e, key |-> key]]
      /\ key \notin seen /\ seen' = seen \cup {key}
      /\ attempts' = attempts
  BY DEF Enter, NextKey, TakeKey
<1>3. trade \in [Trades -> TradeRecord \cup {NoTrade}]
  BY DEF ProcessInv, TypeOK, TradesOK
<1>4. [entry |-> e, key |-> key] # NoTrade
  BY <1>1, KeyShape, TradeAssumption DEF ProcessInv, TypeOK, ConsumerOK, TradeRecord
<1>5. Used' = Used \cup {t} /\ t \notin Used /\ Used \subseteq Trades
  BY <1>2, <1>3, <1>4 DEF Used, Enter, Unused
<1>6. \A u \in Used : /\ trade'[u].key = trade[u].key
                      /\ BaseOf(u)' = BaseOf(u) /\ AttemptOf(u)' = AttemptOf(u)
  BY <1>2, <1>3, <1>5 DEF BaseOf, AttemptOf
<1>7. trade'[t].key = key /\ BaseOf(t)' = base /\ AttemptOf(t)' = attempts[base]
  <2>1. trade'[t].key = key
    BY <1>2, <1>3
  <2> QED
    BY <1>1, <2>1, SplitCompose DEF BaseOf, AttemptOf
<1>8. \A u \in Used : trade[u].key # key
  BY <1>1, <1>2, FreshKey DEF NextKey
<1>9. KeysUnique'
  BY <1>5, <1>6, <1>7, <1>8 DEF ProcessInv, KeysUnique
<1>10. \A u \in Used : Active(u)' => Active(u)
  BY <1>5 DEF Active, Tracked, Enter, book
<1>11. \A u \in Used : trade'[u].key \in seen' <=> AttemptOf(u)' = attempts'[BaseOf(u)']
  BY <1>2, <1>6, <1>8 DEF ProcessInv, CurrentKeys
<1>12. CurrentKeys'
  BY <1>1, <1>2, <1>5, <1>6, <1>7, <1>10, <1>11 DEF ProcessInv, CurrentKeys
<1> QED
  BY <1>9, <1>12

\* What a step may do to keys and to the active trades: an attempt of a signal takes its
\* key without a trade or with one, an active trade gives its key back, or neither.
KeepsKeys ==
  /\ UNCHANGED <<trade, attempts>>
  /\ \/ UNCHANGED seen
     \/ \E b \in Bases : NextKey(b) \notin seen /\ seen' = seen \cup {NextKey(b)}
  /\ \A t \in Trades : Active(t)' => Active(t)

FreesKey(t) ==
  /\ UNCHANGED trade /\ Active(t) /\ Forget(trade[t].key)
  /\ \A u \in Trades : Active(u)' => Active(u) /\ u # t

KeySteps ==
  \/ KeepsKeys
  \/ \E e \in todo, t \in Trades : Enter(e, t)
  \/ \E t \in Used : FreesKey(t)

\* Every step is one of these, and keeps the trade being opened out of the book.
LEMMA ActiveStep ==
  ASSUME ProcessInv, [Next]_vars
  PROVE  KeySteps /\ EntryUntracked'
<1> USE DEF ProcessInv, EntryUntracked, Active, Tracked, KeepsKeys
<1>1. ASSUME UNCHANGED vars
      PROVE  KeepsKeys /\ EntryUntracked'
  BY <1>1 DEF vars, keys, book, consumer
<1>2. ASSUME NEW k \in Ticks, NEW armed \in SUBSET Entries, Poll(k, armed)
      PROVE  KeepsKeys /\ EntryUntracked'
  BY <1>2 DEF Poll, keys, book
<1>3. ASSUME Consume
      PROVE  KeySteps /\ EntryUntracked'
  <2>1. ASSUME NEW e \in todo, Dedup(e)
        PROVE  KeepsKeys /\ EntryUntracked'
    BY <2>1 DEF Dedup, keys, book
  <2>8. ASSUME NEW e \in todo, SizingFails(e)
        PROVE  KeepsKeys /\ EntryUntracked'
    <3> DEFINE b == KeyBase(e, tick.date)
    <3>1. b \in Bases
      BY <2>8, BaseInBases DEF SizingFails, TypeOK, ConsumerOK, Ticks
    <3>2. NextKey(b) \notin seen
      BY <2>8 DEF SizingFails
    <3>3. seen' = seen \cup {NextKey(b)} /\ UNCHANGED <<trade, attempts, pos>> /\ cur' = NoTrade
      BY <2>8 DEF SizingFails, TakeKey, SkipMessage, MessageDone, book
    <3>4. \A t \in Trades : Active(t)' => Active(t)
      BY <3>3, TradeAssumption
    <3> QED
      BY <3>1, <3>2, <3>3, <3>4
  <2>2. ASSUME NEW e \in todo, NEW t \in Trades, Enter(e, t)
        PROVE  EntryUntracked'
    <3>1. pos[t] = "none"
      BY <2>2 DEF Enter, Unused, TypeOK, BookOK
    <3> QED
      BY <2>2, <3>1 DEF Enter, book
  <2>3. ASSUME FillPaper \/ EntryAccepted
        PROVE  KeepsKeys /\ EntryUntracked'
    <3>1. cur \in Trades
      BY <2>3 DEF FillPaper, EntryAccepted, TypeOK, ConsumerOK, Used
    <3>2. pos \in [Trades -> PositionState \cup {"none"}]
      BY DEF TypeOK, BookOK
    <3>3. cur' = NoTrade /\ \A t \in Trades : t # cur => pos'[t] = pos[t]
      BY <2>3, <3>1, <3>2 DEF FillPaper, EntryAccepted, EntryDone, Open
    <3>4. UNCHANGED <<trade, keys>>
      BY <2>3 DEF FillPaper, EntryAccepted, SubmitUnchanged
    <3>5. \A t \in Trades : Active(t)' => Active(t)
      BY <3>3, TradeAssumption
    <3> QED
      BY <3>3, <3>4, <3>5 DEF keys
  <2>4. ASSUME CashHeld \/ InsufficientFunds \/ ReserveFails \/ ReserveMalformed
        PROVE  KeepsKeys /\ EntryUntracked'
    <3>1. UNCHANGED <<trade, keys, pos>> /\ cur' \in {cur, NoTrade}
      BY <2>4
      DEF CashHeld, InsufficientFunds, ReserveFails, ReserveMalformed, ReserveUnchanged,
          EntryDone, SkipMessage, MessageDone, book
    <3>2. \A t \in Trades : Active(t)' => Active(t)
      BY <3>1, TradeAssumption
    <3> QED
      BY <3>1, <3>2 DEF keys
  <2>5. ASSUME EntryFails \/ EntryMalformed \/ ReleaseAfterFailure
        PROVE  KeepsKeys /\ EntryUntracked'
    <3>1. UNCHANGED <<trade, keys, pos>> /\ cur' \in {cur, NoTrade}
      BY <2>5
      DEF EntryFails, EntryMalformed, ReleaseAfterFailure, SubmitUnchanged, SkipMessage,
          MessageDone, EntryDone, book
    <3>2. \A t \in Trades : Active(t)' => Active(t)
      BY <3>1, TradeAssumption
    <3> QED
      BY <3>1, <3>2 DEF keys
  <2>6. ASSUME ClaimExits
        PROVE  KeepsKeys /\ EntryUntracked'
    BY <2>6 DEF ClaimExits, Claim, Flip, ExitsFor, keys, TypeOK, ConsumerOK
  <2>7. ASSUME ExitsDone
        PROVE  KeepsKeys /\ EntryUntracked'
    BY <2>7 DEF ExitsDone, MessageDone, keys, book, TypeOK, ConsumerOK
  <2> QED
    BY <1>3, <2>1, <2>2, <2>3, <2>4, <2>5, <2>6, <2>7, <2>8 DEF Consume, KeySteps
<1>4. ASSUME NEW x \in Threads, SubmitExit(x)
      PROVE  KeySteps /\ EntryUntracked'
  <2>1. ASSUME NEW t \in Trades, ExitPaper(x, t)
        PROVE  t \in Used /\ FreesKey(t) /\ EntryUntracked'
    <3>1. t \in Used /\ pos[t] = "EXITING" /\ t # cur
      BY <2>1, TradeAssumption
      DEF ExitPaper, Submitting, ExclusiveExit, TypeOK, ExitsOK, ConsumerOK
    <3>2. pos' = [pos EXCEPT ![t] = "none"] /\ cur' = cur
      BY <2>1 DEF ExitPaper, Remove, consumer
    <3>3. pos \in [Trades -> PositionState \cup {"none"}] /\ cur \in Trades \cup {NoTrade}
      BY DEF TypeOK, BookOK, ConsumerOK, Used
    <3>4. \A u \in Trades : Active(u)' => Active(u) /\ u # t
      BY <3>1, <3>2, <3>3
    <3> QED
      BY <2>1, <3>1, <3>2, <3>3, <3>4 DEF ExitPaper, FreesKey
  <2>2. ASSUME NEW t \in Trades, ExitAccepted(x, t) \/ ExitMalformed(x, t)
        PROVE  KeepsKeys /\ EntryUntracked'
    <3>1. UNCHANGED <<trade, keys, pos>> /\ cur' \in {cur, NoTrade}
      BY <2>2 DEF ExitAccepted, ExitMalformed, SkipMessage, MessageDone, book, consumer
    <3>2. \A u \in Trades : Active(u)' => Active(u)
      BY <3>1, TradeAssumption
    <3> QED
      BY <3>1, <3>2 DEF keys
  <2>3. ASSUME LogExit(x)
        PROVE  KeepsKeys /\ EntryUntracked'
    BY <2>3 DEF LogExit, keys, book, consumer
  <2>4. ASSUME NEW t \in Trades, ExitFails(x, t)
        PROVE  KeepsKeys /\ EntryUntracked'
    <3>1. pos[t] = "EXITING"
      BY <2>4 DEF ExitFails, Submitting, ExclusiveExit
    <3>2. pos \in [Trades -> PositionState \cup {"none"}]
      BY DEF TypeOK, BookOK
    <3> QED
      BY <2>4, <3>1, <3>2
      DEF ExitFails, ReleaseExit, keys, consumer, TypeOK, ConsumerOK
  <2> QED
    BY <1>4, <2>1, <2>2, <2>3, <2>4 DEF SubmitExit, KeySteps
<1>5. ASSUME Liquidate
      PROVE  KeepsKeys /\ EntryUntracked'
  BY <1>5
  DEF Liquidate, Claim, Flip, AllOpen, keys, consumer, TypeOK, ConsumerOK, Used
<1>6. ASSUME Reconcile
      PROVE  KeySteps /\ EntryUntracked'
  <2> DEFINE t == rcur.trade
  <2>1. ASSUME NEW u \in Trades,
               Snapshot \/ PassOver(u) \/ Fetch(u) \/ FetchMalformed(u)
        PROVE  KeepsKeys /\ EntryUntracked'
    BY <2>1
    DEF Snapshot, PassOver, Fetch, FetchMalformed, PollUnchanged, keys, book, consumer
  <2>2. ASSUME EntryFilled \/ EntryDead \/ ExitDead
        PROVE  KeepsKeys /\ EntryUntracked'
    <3>1. t \in Trades /\ pos[t] # "none"
      BY <2>2
      DEF EntryFilled, EntryDead, ExitDead, Applying, TypeOK, ReconcilerOK, PolledPositions, Used
    <3>2. pos \in [Trades -> PositionState \cup {"none"}]
      BY DEF TypeOK, BookOK
    <3> QED
      BY <2>2, <3>1, <3>2
      DEF EntryFilled, EntryDead, ExitDead, ApplyUnchanged, MarkOpen, Remove, ReleaseExit,
          keys, consumer, TypeOK, ConsumerOK, Used
  <2>3. ASSUME ExitFilled
        PROVE  (\E u \in Used : FreesKey(u)) /\ EntryUntracked'
    <3>1. t \in Used /\ pos[t] = "EXITING" /\ t # cur
      BY <2>3, TradeAssumption
      DEF ExitFilled, Applying, TypeOK, ReconcilerOK, PolledPositions, ConsumerOK, Used
    <3>2. pos' = [pos EXCEPT ![t] = "none"] /\ cur' = cur
      BY <2>3 DEF ExitFilled, ApplyUnchanged, Remove, consumer
    <3>3. pos \in [Trades -> PositionState \cup {"none"}] /\ cur \in Trades \cup {NoTrade}
      BY DEF TypeOK, BookOK, ConsumerOK, Used
    <3>4. UNCHANGED trade /\ Forget(trade[t].key)
      BY <2>3 DEF ExitFilled, ApplyUnchanged
    <3>5. \A u \in Trades : Active(u)' => Active(u) /\ u # t
      BY <3>1, <3>2, <3>3
    <3>6. PICK u \in Used : u = t
      BY <3>1
    <3>7. Active(u) /\ Forget(trade[u].key)
      BY <3>1, <3>4, <3>6 DEF Used
    <3>8. \A v \in Trades : Active(v)' => Active(v) /\ v # u
      BY <3>5, <3>6
    <3>9. FreesKey(u)
      BY <3>4, <3>7, <3>8 DEF FreesKey
    <3> QED
      BY <3>1, <3>2, <3>3, <3>9
  <2>4. ASSUME StillWorking \/ SettleHold
        PROVE  KeepsKeys /\ EntryUntracked'
    BY <2>4 DEF StillWorking, SettleHold, ApplyUnchanged, keys, book, consumer
  <2>5. ASSUME Snapshot
        PROVE  KeepsKeys /\ EntryUntracked'
    BY <2>5 DEF Snapshot, keys, book, consumer
  <2> HIDE DEF KeepsKeys, EntryUntracked
  <2> QED
    BY <1>6, <2>1, <2>2, <2>3, <2>4, <2>5 DEF Reconcile, KeySteps
<1>7. ASSUME NEW o \in DOMAIN orders, MarketFill(o) \/ MarketKill(o)
      PROVE  KeepsKeys /\ EntryUntracked'
  BY <1>7 DEF MarketFill, MarketKill, MarketUnchanged, keys, book, consumer
<1>8. ASSUME CloseReached \/ NextDay
      PROVE  KeepsKeys /\ EntryUntracked'
  BY <1>8 DEF CloseReached, NextDay, ClockUnchanged, keys, book, consumer
<1> QED
  BY <1>1, <1>2, <1>3, <1>4, <1>5, <1>6, <1>7, <1>8 DEF Next, Market, KeySteps

\* Every step keeps the keys current and unique.
LEMMA KeysNext ==
  ASSUME IndInv, [Next]_vars
  PROVE  CurrentKeys' /\ KeysUnique' /\ EntryUntracked'
<1>1. CASE KeepsKeys
  <2>1. \A u \in Used : trade[u].key \in seen' <=> trade[u].key \in seen
    BY <1>1, FreshKey DEF KeepsKeys
  <2> QED
    BY <1>1, <2>1, KeysFrame, ActiveStep DEF KeepsKeys
<1>2. ASSUME NEW e \in todo, NEW t \in Trades, Enter(e, t)
      PROVE  CurrentKeys' /\ KeysUnique'
  BY <1>2, EnterKeys
<1>3. ASSUME NEW t \in Used, FreesKey(t)
      PROVE  CurrentKeys' /\ KeysUnique'
  BY <1>3, ForgetKeys DEF FreesKey
<1> QED
  BY <1>1, <1>2, <1>3, ActiveStep DEF KeySteps

-----------------------------------------------------------------------------
(* Exits                                                                   *)

\* Ownership is not disturbed while claims, positions and the reconciler's job are.
LEMMA ExitsFrame ==
  ASSUME ProcessInv, UNCHANGED <<pos, entryOrder, exitOrder, claimed, rcur>>
  PROVE  ExclusiveExit' /\ PolledPositions'
BY DEF ProcessInv, ExclusiveExit, PolledPositions

\* A claim takes only OPEN positions, which nobody holds and nobody polls.
LEMMA ClaimExclusive ==
  ASSUME ProcessInv, NEW x \in Threads, NEW claims \in SUBSET AllOpen,
         Claim(x, claims)
  PROVE  ExclusiveExit' /\ PolledPositions'
<1>1. /\ pos \in [Trades -> PositionState \cup {"none"}]
      /\ claimed \in [Threads -> SUBSET Used]
      /\ Used \subseteq Trades
      /\ rcur.doing # "none" => rcur.trade \in Trades
  BY DEF ProcessInv, TypeOK, BookOK, ExitsOK, ReconcilerOK, Used
<1>2. \A t \in claims : t \in Trades /\ pos[t] = "OPEN" /\ exitOrder[t] = NoId
  BY DEF AllOpen, Tracked, ProcessInv, ExclusiveExit
<1>3. /\ pos' = [t \in Trades |-> IF t \in claims THEN "EXITING" ELSE pos[t]]
      /\ claimed' = [claimed EXCEPT ![x] = claims]
      /\ entryOrder' = entryOrder /\ exitOrder' = exitOrder /\ rcur' = rcur
  BY DEF Claim, Flip, reconciler
<1>4. ExclusiveExit'
  BY <1>1, <1>2, <1>3 DEF ProcessInv, ExclusiveExit
<1>5. PolledPositions'
  BY <1>1, <1>2, <1>3 DEF ProcessInv, PolledPositions
<1> QED
  BY <1>4, <1>5

\* Every step keeps each exit in one hand: the thread that claimed it, then the
\* reconciler.
LEMMA ExitsNext ==
  ASSUME ProcessInv, [Next]_vars
  PROVE  ExclusiveExit' /\ PolledPositions'
<1> USE DEF ProcessInv
<1>t. /\ pos \in [Trades -> PositionState \cup {"none"}]
      /\ entryOrder \in [Trades -> OrderIds \cup {NoId}]
      /\ exitOrder \in [Trades -> OrderIds \cup {NoId}]
      /\ claimed \in [Threads -> SUBSET Used]
      /\ Used \subseteq Trades
      /\ rcur.doing # "none" => rcur.trade \in Trades
  BY DEF TypeOK, BookOK, ExitsOK, ReconcilerOK, Used
<1>1. CASE UNCHANGED vars
  BY <1>1, ExitsFrame DEF vars, book, exits, reconciler
<1>2. ASSUME NEW k \in Ticks, NEW armed \in SUBSET Entries, Poll(k, armed)
      PROVE  ExclusiveExit' /\ PolledPositions'
  BY <1>2, ExitsFrame DEF Poll, book, exits, reconciler
<1>3. CASE Consume
  <2>1. ASSUME NEW e \in todo, NEW t \in Trades, Dedup(e) \/ SizingFails(e) \/ Enter(e, t)
        PROVE  ExclusiveExit' /\ PolledPositions'
    BY <2>1, ExitsFrame DEF Dedup, SizingFails, Enter, book, exits, reconciler
  <2>2. ASSUME NEW e \in todo, Dedup(e) \/ SizingFails(e)
        PROVE  ExclusiveExit' /\ PolledPositions'
    BY <2>2, ExitsFrame DEF Dedup, SizingFails, book, exits, reconciler
  <2>3. CASE FillPaper \/ EntryAccepted
    <3>1. cur \in Trades /\ pos[cur] = "none"
      BY <2>3, TradeAssumption
      DEF FillPaper, EntryAccepted, TypeOK, ConsumerOK, EntryUntracked, Used
    <3>2. PICK s \in {"OPEN", "PENDING_ENTRY"}, o \in {NoId, EntryId(cur)} :
            /\ pos' = [pos EXCEPT ![cur] = s]
            /\ entryOrder' = [entryOrder EXCEPT ![cur] = o]
            /\ exitOrder' = [exitOrder EXCEPT ![cur] = NoId]
      BY <2>3 DEF FillPaper, EntryAccepted, Open
    <3>3. UNCHANGED <<claimed, rcur>>
      BY <2>3 DEF FillPaper, EntryAccepted, SubmitUnchanged, exits, reconciler
    <3>4. ExclusiveExit'
      BY <1>t, <3>1, <3>2, <3>3 DEF ExclusiveExit
    <3>5. PolledPositions'
      BY <1>t, <3>1, <3>2, <3>3 DEF PolledPositions
    <3> QED
      BY <3>4, <3>5
  <2>4. CASE \/ CashHeld \/ InsufficientFunds \/ ReserveFails \/ ReserveMalformed \/ EntryFails
             \/ EntryMalformed \/ ReleaseAfterFailure \/ ExitsDone
    BY <2>4, ExitsFrame
    DEF CashHeld, InsufficientFunds, ReserveFails, ReserveMalformed, EntryFails, EntryMalformed,
        ReleaseAfterFailure, ExitsDone, ReserveUnchanged, SubmitUnchanged,
        book, exits, reconciler
  <2>5. CASE ClaimExits
    <3>1. ExitsFor(tick.symbol, tick.price) \subseteq AllOpen
      BY DEF ExitsFor, AllOpen
    <3> QED
      BY <2>5, <3>1, ClaimExclusive DEF ClaimExits, Threads
  <2> QED
    BY <1>3, <2>1, <2>2, <2>3, <2>4, <2>5 DEF Consume
<1>4. ASSUME NEW x \in Threads, SubmitExit(x)
      PROVE  ExclusiveExit' /\ PolledPositions'
  <2>1. ASSUME NEW t \in Trades, ExitPaper(x, t) \/ ExitFails(x, t)
        PROVE  ExclusiveExit' /\ PolledPositions'
    <3>1. t \in claimed[x] /\ pos[t] = "EXITING" /\ exitOrder[t] = NoId
      BY <2>1 DEF ExitPaper, ExitFails, Submitting, ExclusiveExit
    <3>5. entryOrder \in [Trades -> OrderIds \cup {NoId}]
      BY DEF ProcessInv, TypeOK, BookOK
    <3>6. \A u \in Trades \ {t} : entryOrder'[u] = entryOrder[u]
      BY <2>1, <3>5 DEF ExitPaper, ExitFails, Remove, ReleaseExit
    <3>2. PICK s \in {"none", "OPEN"} :
            /\ pos' = [pos EXCEPT ![t] = s]
            /\ exitOrder' = [exitOrder EXCEPT ![t] = NoId]
      BY <2>1 DEF ExitPaper, ExitFails, Remove, ReleaseExit
    <3>3. claimed' = [claimed EXCEPT ![x] = @ \ {t}] /\ UNCHANGED rcur
      BY <2>1 DEF ExitPaper, ExitFails, Handled, reconciler
    <3>4. ExclusiveExit'
      BY <1>t, <3>1, <3>2, <3>3 DEF ExclusiveExit
    <3>7. PolledPositions'
      BY <1>t, <3>1, <3>2, <3>3, <3>6 DEF PolledPositions
    <3> QED
      BY <3>4, <3>7
  <2>2. ASSUME NEW t \in Trades, ExitAccepted(x, t)
        PROVE  ExclusiveExit' /\ PolledPositions'
    <3>1. t \in claimed[x] /\ pos[t] = "EXITING" /\ exitOrder[t] = NoId
      BY <2>2 DEF ExitAccepted, Submitting, ExclusiveExit
    <3>2. /\ exitOrder' = [exitOrder EXCEPT ![t] = ExitId(t)]
          /\ claimed' = [claimed EXCEPT ![x] = @ \ {t}]
          /\ UNCHANGED <<pos, entryOrder, rcur>>
      BY <2>2 DEF ExitAccepted, Handled, reconciler
    <3>3. ExclusiveExit'
      BY <1>t, <3>1, <3>2 DEF ExclusiveExit
    <3>4. PolledPositions'
      BY <1>t, <3>1, <3>2 DEF PolledPositions
    <3> QED
      BY <3>3, <3>4
  <2>3. ASSUME NEW t \in Trades, ExitMalformed(x, t)
        PROVE  ExclusiveExit' /\ PolledPositions'
    <3>1. claimed' = [claimed EXCEPT ![x] = {}] /\ UNCHANGED <<pos, entryOrder, exitOrder, rcur>>
      BY <2>3 DEF ExitMalformed, book, reconciler
    <3> QED
      BY <1>t, <3>1 DEF ExclusiveExit, PolledPositions
  <2>4. CASE LogExit(x)
    BY <2>4, ExitsFrame DEF LogExit, book, reconciler
  <2> QED
    BY <1>4, <2>1, <2>2, <2>3, <2>4 DEF SubmitExit
<1>5. CASE Liquidate
  BY <1>5, ClaimExclusive DEF Liquidate, Threads
<1>6. CASE Reconcile
  <2> DEFINE t == rcur.trade
  <2>1. ASSUME NEW u \in Trades, Snapshot \/ PassOver(u) \/ FetchMalformed(u)
        PROVE  ExclusiveExit' /\ PolledPositions'
    BY <2>1, ExitsFrame
    DEF Snapshot, PassOver, FetchMalformed, PollUnchanged, book, exits
  <2>2. CASE Snapshot
    BY <2>2, ExitsFrame DEF Snapshot, book, exits
  <2>3. ASSUME NEW u \in Trades, Fetch(u)
        PROVE  ExclusiveExit' /\ PolledPositions'
    <3>1. UNCHANGED <<pos, entryOrder, exitOrder, claimed>>
      BY <2>3 DEF Fetch, PollUnchanged, book, exits
    <3>2. /\ rcur'.trade = u
          /\ rcur'.doing = IF pos[u] = "PENDING_ENTRY" THEN "entry" ELSE "exit"
          /\ PollId(u) # NoId
      BY <2>3 DEF Fetch
    <3>3. IF pos[u] = "PENDING_ENTRY" THEN entryOrder[u] # NoId
          ELSE pos[u] = "EXITING" /\ exitOrder[u] # NoId
      BY <3>2 DEF PollId
    <3> QED
      BY <3>1, <3>2, <3>3 DEF ExclusiveExit, PolledPositions
  <2>4. CASE EntryFilled \/ EntryDead \/ ExitDead \/ ExitFilled
    <3>1. /\ t \in Trades
          /\ \/ pos[t] = "PENDING_ENTRY"
             \/ pos[t] = "EXITING" /\ exitOrder[t] # NoId
          /\ \A x \in Threads : t \notin claimed[x]
      BY <1>t, <2>4
      DEF EntryFilled, EntryDead, ExitDead, ExitFilled, Applying, PolledPositions, ExclusiveExit
    <3>2. PICK s \in {"none", "OPEN"} : pos' = [pos EXCEPT ![t] = s]
      BY <2>4 DEF EntryFilled, EntryDead, ExitDead, ExitFilled, MarkOpen, Remove, ReleaseExit
    <3>3. exitOrder' = [exitOrder EXCEPT ![t] = NoId]
      BY <1>t, <2>4, <3>1
      DEF EntryFilled, EntryDead, ExitDead, ExitFilled, MarkOpen, Remove, ReleaseExit,
          Applying, PolledPositions, ExclusiveExit
    <3>4. UNCHANGED claimed /\ rcur'.doing \in {"capture", "release", "none"}
      BY <2>4
      DEF EntryFilled, EntryDead, ExitDead, ExitFilled, ApplyUnchanged, exits, NoJob,
          TypeOK, ReconcilerOK, Job
    <3>5. ExclusiveExit'
      BY <1>t, <3>1, <3>2, <3>3, <3>4 DEF ExclusiveExit
    <3> QED
      BY <3>4, <3>5 DEF PolledPositions
  <2>5. CASE StillWorking \/ SettleHold
    <3>1. UNCHANGED <<pos, exitOrder, claimed>> /\ rcur' = NoJob
      BY <2>5 DEF StillWorking, SettleHold, ApplyUnchanged, book, exits
    <3> QED
      BY <3>1 DEF ExclusiveExit, PolledPositions, NoJob
  <2> QED
    BY <1>6, <2>1, <2>2, <2>3, <2>4, <2>5 DEF Reconcile
<1>7. ASSUME NEW o \in DOMAIN orders, MarketFill(o) \/ MarketKill(o)
      PROVE  ExclusiveExit' /\ PolledPositions'
  BY <1>7, ExitsFrame DEF MarketFill, MarketKill, MarketUnchanged, book, exits, reconciler
<1>8. CASE CloseReached \/ NextDay
  BY <1>8, ExitsFrame DEF CloseReached, NextDay, ClockUnchanged, book, exits, reconciler
<1> QED
  BY <1>1, <1>2, <1>3, <1>4, <1>5, <1>6, <1>7, <1>8 DEF Next, Market

-----------------------------------------------------------------------------
(* Theorems                                                                *)

\* The inductive invariant holds in every reachable state of every instance: any
\* entries, prices, days and trades, paper or live, with any of the faults.
THEOREM Inductive == Spec => []IndInv
<1>1. Init => IndInv
  <2> SUFFICES ASSUME Init PROVE IndInv
    OBVIOUS
  <2>1. TypeOK
    BY TypeInit
  <2>2. Used = {} /\ Tracked = {} /\ cur = NoTrade
    BY DEF Init, BookInit, Used, Tracked
  <2>3. EntryUntracked /\ KeysUnique
    BY <2>2 DEF EntryUntracked, KeysUnique
  <2>4. CurrentKeys
    BY <2>2 DEF CurrentKeys
  <2>5. ExclusiveExit
    BY DEF Init, BookInit, ExclusiveExit, Threads
  <2>6. PolledPositions
    BY DEF Init, PolledPositions, NoJob
  <2> QED
    BY <2>1, <2>3, <2>4, <2>5, <2>6 DEF ProcessInv
<1>2. IndInv /\ [Next]_vars => IndInv'
  <2> SUFFICES ASSUME IndInv, [Next]_vars PROVE IndInv'
    OBVIOUS
  <2>1. TypeOK'
    BY TypeNext DEF ProcessInv
  <2> QED
    BY <2>1, KeysNext, ExitsNext DEF ProcessInv
<1> QED
  BY <1>1, <1>2, PTL DEF Spec

\* The variables always have the values their declarations describe.
THEOREM TypeCorrect == Spec => []TypeOK
<1>1. IndInv => TypeOK
  BY DEF ProcessInv
<1> QED
  BY <1>1, Inductive, PTL

\* No two trades of a process ever carry the same idempotency key.
THEOREM KeysAreUnique == Spec => []KeysUnique
<1>1. IndInv => KeysUnique
  BY DEF ProcessInv
<1> QED
  BY <1>1, Inductive, PTL

\* An exit is in one hand at a time: one thread that claimed it, or an exit order.
THEOREM ExitsAreExclusive == Spec => []ExclusiveExit
<1>1. IndInv => ExclusiveExit
  BY DEF ProcessInv
<1> QED
  BY <1>1, Inductive, PTL

-----------------------------------------------------------------------------
(* The executor implements SignalLifecycle                                 *)

\* The state of the lifecycle depends on the trades, the book, what is being opened
\* and which trades' keys are taken, on nothing else.
LEMMA PhaseFrame ==
  ASSUME UNCHANGED <<trade, pos, cur>>,
         \A t \in Used : trade[t].key \in seen' <=> trade[t].key \in seen
  PROVE  UNCHANGED <<phases, signals>>
<1>1. Used' = Used
  BY DEF Used
<1>2. ASSUME NEW t \in Trades PROVE Phase(t)' = Phase(t)
  BY <1>1 DEF Phase
<1>3. signals' = signals
  BY <1>1 DEF signals, BaseOf
<1> QED
  BY <1>2, <1>3 DEF phases

\* When one trade moves along the lifecycle and the others keep their phases, the
\* lifecycle makes a step.
LEMMA PhaseMove ==
  ASSUME NEW t \in Trades, NEW from, NEW to, UNCHANGED trade,
         <<from, to>> \in {<<"entering", "held">>, <<"entering", "abandoned">>,
                           <<"closing", "held">>, <<"closing", "closed">>},
         Phase(t) = from, Phase(t)' = to,
         \A u \in Trades : u # t => Phase(u)' = Phase(u)
  PROVE  Lifecycle!Next
<1>1. Used' = Used
  BY DEF Used
<1>2. signals' = signals
  BY <1>1 DEF signals, BaseOf
<1>3. phases[t] = from /\ phases' = [phases EXCEPT ![t] = to]
  BY DEF phases
<1>4. Lifecycle!Move(t, from, to)
  BY <1>2, <1>3 DEF Lifecycle!Move
<1> QED
  BY <1>4 DEF Lifecycle!Next

\* A claim of open positions is one step of the lifecycle.
LEMMA ClaimMove ==
  ASSUME ProcessInv, NEW x \in Threads, NEW claims \in SUBSET AllOpen,
         Claim(x, claims), UNCHANGED cur
  PROVE  Lifecycle!Next
<1>1. /\ pos \in [Trades -> PositionState \cup {"none"}]
      /\ \A t \in claims : t \in Used /\ t \in Trades /\ pos[t] = "OPEN" /\ t # cur
  <2>1. Tracked \subseteq Used /\ (cur # NoTrade => pos[cur] = "none")
    BY DEF ProcessInv, TypeOK, BookOK, EntryUntracked
  <2> QED
    BY <2>1, TradeAssumption DEF ProcessInv, TypeOK, BookOK, AllOpen, Tracked
<1>2. /\ Used' = Used /\ signals' = signals /\ trade' = trade /\ seen' = seen
      /\ pos' = [t \in Trades |-> IF t \in claims THEN "EXITING" ELSE pos[t]]
  BY DEF Claim, Flip, Used, signals, BaseOf, keys
<1>3. ASSUME NEW t \in Trades
      PROVE  Phase(t)' = IF t \in claims THEN "closing" ELSE Phase(t)
  BY <1>1, <1>2 DEF Phase
<1>4. \A t \in claims : phases[t] = "held"
  BY <1>1 DEF phases, Phase
<1>5. phases' = [t \in Trades |-> IF t \in claims THEN "closing" ELSE phases[t]]
  BY <1>3 DEF phases
<1>6. claims \in SUBSET Trades /\ Lifecycle!BeginClose(claims)
  BY <1>1, <1>2, <1>4, <1>5 DEF Lifecycle!BeginClose
<1> QED
  BY <1>6 DEF Lifecycle!Next

\* Taking a free key for a new trade is entering a signal all of whose earlier trades
\* are closed: an abandoned one would have kept the key, a live one is the attempt.
LEMMA EnterMove ==
  ASSUME IndInv, NEW e \in todo, NEW t \in Trades, Enter(e, t)
  PROVE  Lifecycle!Next
<1> DEFINE base == KeyBase(e, tick.date)
           key  == ComposeKey(base, attempts[base])
<1>1. base \in Bases /\ attempts[base] \in Nat
  BY BaseInBases DEF Enter, ProcessInv, TypeOK, ConsumerOK, RecordsOK, Ticks
<1>2. /\ trade' = [trade EXCEPT ![t] = [entry |-> e, key |-> key]]
      /\ key \notin seen /\ seen' = seen \cup {key}
      /\ attempts' = attempts /\ pos' = pos /\ cur' = t /\ cur = NoTrade
  BY DEF Enter, NextKey, TakeKey, book, ProcessInv, TypeOK, ConsumerOK
<1>3. /\ trade \in [Trades -> TradeRecord \cup {NoTrade}]
      /\ [entry |-> e, key |-> key] # NoTrade
  <2>1. trade \in [Trades -> TradeRecord \cup {NoTrade}]
    BY DEF ProcessInv, TypeOK, TradesOK
  <2>2. [entry |-> e, key |-> key] # NoTrade
    BY <1>1, KeyShape, TradeAssumption DEF ProcessInv, TypeOK, ConsumerOK, TradeRecord
  <2> QED
    BY <2>1, <2>2
<1>4. Used' = Used \cup {t} /\ t \notin Used
  BY <1>2, <1>3 DEF Used, Enter, Unused
<1>5. trade'[t].key = key /\ BaseOf(t)' = base
  <2>1. trade'[t].key = key
    BY <1>2, <1>3
  <2> QED
    BY <1>1, <2>1, SplitCompose DEF BaseOf
<1>6. \A u \in Used : trade[u].key # key
  BY <1>1, <1>2, FreshKey DEF NextKey
<1>7. ASSUME NEW u \in Trades, u # t
      PROVE  Phase(u)' = Phase(u) /\ signals'[u] = signals[u]
  <2>1. trade'[u] = trade[u] /\ (u \in Used' <=> u \in Used) /\ u # cur /\ u # cur'
    BY <1>2, <1>3, <1>4, <1>7, TradeAssumption
  <2>2. u \in Used => (trade[u].key \in seen' <=> trade[u].key \in seen)
    BY <1>2, <1>6
  <2>3. Phase(u)' = Phase(u)
    BY <1>2, <2>1, <2>2 DEF Phase
  <2>4. signals'[u] = signals[u]
    BY <2>1 DEF signals, BaseOf
  <2> QED
    BY <2>3, <2>4
<1>8. Phase(t) = "unborn" /\ Phase(t)' = "entering" /\ signals'[t] = base
  BY <1>2, <1>4, <1>5 DEF Phase, signals
<1>9. ASSUME NEW u \in Trades, signals[u] = base
      PROVE  phases[u] = "closed"
  <2>1. u \in Used /\ BaseOf(u) = base
    BY <1>1, <1>9, TradeAssumption DEF signals
  <2>2. AttemptOf(u) # attempts[BaseOf(u)]
    BY <1>6, <2>1 DEF ProcessInv, TypeOK, TradesOK
  <2>3. ~Active(u) /\ trade[u].key \notin seen
    BY <2>1, <2>2 DEF ProcessInv, CurrentKeys
  <2>4. u # cur /\ pos[u] = "none"
    BY <2>3 DEF Active, Tracked
  <2> QED
    BY <2>1, <2>3, <2>4 DEF phases, Phase
<1>10. /\ phases' = [phases EXCEPT ![t] = "entering"]
       /\ signals' = [signals EXCEPT ![t] = base]
  BY <1>7, <1>8 DEF phases, signals
<1>11. Lifecycle!Enter(t, base)
  BY <1>8, <1>9, <1>10 DEF Lifecycle!Enter, phases
<1> QED
  BY <1>1, <1>11 DEF Lifecycle!Next

\* Forgetting the key of a closing trade closes it and nothing else.
LEMMA CloseMove ==
  ASSUME IndInv, NEW t \in Used, pos[t] = "EXITING", UNCHANGED <<trade, cur>>,
         pos' = [pos EXCEPT ![t] = "none"], Forget(trade[t].key)
  PROVE  Lifecycle!Next
<1>1. /\ t \in Trades /\ t # cur
      /\ pos \in [Trades -> PositionState \cup {"none"}]
  BY TradeAssumption DEF ProcessInv, TypeOK, BookOK, EntryUntracked, Used
<1>2. Used' = Used /\ seen' = seen \ {trade[t].key}
  BY DEF Used, Forget
<1>3. Phase(t) = "closing" /\ Phase(t)' = "closed"
  BY <1>1, <1>2 DEF Phase
<1>4. ASSUME NEW u \in Trades, u # t PROVE Phase(u)' = Phase(u)
  <2>1. u \in Used => trade[u].key # trade[t].key
    BY <1>4 DEF ProcessInv, KeysUnique
  <2> QED
    BY <1>1, <1>2, <1>4, <2>1 DEF Phase
<1> QED
  BY <1>1, <1>3, <1>4, PhaseMove

\* A position that is neither being opened nor forgotten changes its state alone.
LEMMA BookMove ==
  ASSUME IndInv, NEW t \in Used, NEW s, UNCHANGED <<trade, cur, keys>>,
         pos' = [pos EXCEPT ![t] = s],
         <<pos[t], s>> \in {<<"PENDING_ENTRY", "OPEN">>, <<"PENDING_ENTRY", "none">>,
                            <<"EXITING", "OPEN">>}
  PROVE  Lifecycle!Next
<1>1. /\ t \in Trades /\ t # cur
      /\ pos \in [Trades -> PositionState \cup {"none"}]
  BY TradeAssumption DEF ProcessInv, TypeOK, BookOK, EntryUntracked, Used
<1>2. Used' = Used /\ seen' = seen
  BY DEF Used, keys
<1>3. trade[t].key \in seen
  BY <1>1 DEF ProcessInv, CurrentKeys, Active, Tracked
<1>4. <<Phase(t), Phase(t)'>> \in {<<"entering", "held">>, <<"entering", "abandoned">>,
                                  <<"closing", "held">>}
  BY <1>1, <1>2, <1>3 DEF Phase
<1>5. \A u \in Trades : u # t => Phase(u)' = Phase(u)
  BY <1>1, <1>2 DEF Phase
<1> QED
  BY <1>1, <1>4, <1>5, PhaseMove

\* The consumer leaves the entry it executes: with the position in the book, or with
\* nothing.
LEMMA EntryMove ==
  ASSUME IndInv, cur # NoTrade, cur' = NoTrade, UNCHANGED <<trade, keys>>,
         UNCHANGED pos \/ pos' = [pos EXCEPT ![cur] = "OPEN"]
                       \/ pos' = [pos EXCEPT ![cur] = "PENDING_ENTRY"]
  PROVE  Lifecycle!Next \/ UNCHANGED <<phases, signals>>
<1>1. /\ cur \in Used /\ cur \in Trades /\ pos[cur] = "none"
      /\ pos \in [Trades -> PositionState \cup {"none"}]
  BY DEF ProcessInv, TypeOK, BookOK, ConsumerOK, EntryUntracked, Used
<1>2. Used' = Used /\ seen' = seen
  BY DEF Used, keys
<1>3. trade[cur].key \in seen
  BY <1>1 DEF ProcessInv, CurrentKeys, Active
<1>4. PICK t \in Trades : t = cur
  BY <1>1
<1>5. Phase(t) = "entering" /\ Phase(t)' \in {"held", "abandoned", "entering"}
  BY <1>1, <1>2, <1>3, <1>4, TradeAssumption DEF Phase
<1>6. \A u \in Trades : u # t => Phase(u)' = Phase(u)
  BY <1>1, <1>2, <1>4, TradeAssumption DEF Phase
<1>7. CASE Phase(t)' \in {"held", "abandoned"}
  BY <1>5, <1>6, <1>7, PhaseMove
<1>8. CASE Phase(t)' = "entering"
  <2>1. \A u \in Trades : Phase(u)' = Phase(u)
    BY <1>5, <1>6, <1>8
  <2> QED
    BY <1>2, <2>1 DEF phases, signals, BaseOf
<1> QED
  BY <1>5, <1>7, <1>8

\* Every step of the executor is a step of the lifecycle or leaves it as it is.
LEMMA Simulation ==
  ASSUME IndInv, [Next]_vars
  PROVE  Lifecycle!Next \/ UNCHANGED <<phases, signals>>
<1> DEFINE Goal == Lifecycle!Next \/ UNCHANGED <<phases, signals>>
           u == rcur.trade
<1>1. CASE UNCHANGED vars
  BY <1>1, PhaseFrame DEF vars, keys, book, consumer
<1>2. ASSUME NEW k \in Ticks, NEW armed \in SUBSET Entries, Poll(k, armed)
      PROVE  Goal
  BY <1>2, PhaseFrame DEF Poll, keys, book
<1>3. CASE Consume
  <2>1. ASSUME NEW e \in todo, Dedup(e)
        PROVE  Goal
    BY <2>1, PhaseFrame DEF Dedup, keys, book
  <2>2. ASSUME NEW e \in todo, SizingFails(e)
        PROVE  Goal
    <3> DEFINE b == KeyBase(e, tick.date)
    <3>1. b \in Bases /\ cur = NoTrade
      BY <2>2, BaseInBases DEF SizingFails, ProcessInv, TypeOK, ConsumerOK, Ticks
    <3>2. \A t \in Used : trade[t].key # NextKey(b)
      BY <2>2, <3>1, FreshKey DEF SizingFails
    <3>3. seen' = seen \cup {NextKey(b)} /\ UNCHANGED <<trade, pos, cur>>
      BY <2>2, <3>1 DEF SizingFails, TakeKey, SkipMessage, MessageDone, book
    <3> QED
      BY <3>2, <3>3, PhaseFrame
  <2>3. ASSUME NEW e \in todo, NEW t \in Trades, Enter(e, t)
        PROVE  Goal
    BY <2>3, EnterMove
  <2>4. CASE \/ FillPaper \/ EntryAccepted \/ InsufficientFunds \/ ReserveFails
             \/ ReserveMalformed \/ EntryMalformed \/ ReleaseAfterFailure
    <3>1. cur # NoTrade /\ cur' = NoTrade /\ UNCHANGED <<trade, keys>>
      BY <2>4, TradeAssumption
      DEF FillPaper, EntryAccepted, InsufficientFunds, ReserveFails, ReserveMalformed, EntryMalformed,
          ReleaseAfterFailure, EntryDone, SkipMessage, MessageDone, ReserveUnchanged,
          SubmitUnchanged, ProcessInv, TypeOK, ConsumerOK, Used
    <3>2. \/ UNCHANGED pos
          \/ pos' = [pos EXCEPT ![cur] = "OPEN"]
          \/ pos' = [pos EXCEPT ![cur] = "PENDING_ENTRY"]
      BY <2>4
      DEF FillPaper, EntryAccepted, InsufficientFunds, ReserveFails, ReserveMalformed, EntryMalformed,
          ReleaseAfterFailure, Open, book, ReserveUnchanged
    <3> QED
      BY <3>1, <3>2, EntryMove
  <2>5. CASE CashHeld \/ EntryFails
    BY <2>5, PhaseFrame
    DEF CashHeld, EntryFails, ReserveUnchanged, SubmitUnchanged, keys, book
  <2>6. CASE ClaimExits
    <3>1. ExitsFor(tick.symbol, tick.price) \subseteq AllOpen
      BY DEF ExitsFor, AllOpen
    <3> QED
      BY <2>6, <3>1, ClaimMove DEF ClaimExits, Threads
  <2>7. CASE ExitsDone
    <3>1. UNCHANGED <<trade, pos, cur, seen>>
      BY <2>7 DEF ExitsDone, MessageDone, book, keys, ProcessInv, TypeOK, ConsumerOK
    <3> QED
      BY <3>1, PhaseFrame
  <2> QED
    BY <1>3, <2>1, <2>2, <2>3, <2>4, <2>5, <2>6, <2>7 DEF Consume
<1>4. ASSUME NEW x \in Threads, SubmitExit(x)
      PROVE  Goal
  <2>1. ASSUME NEW t \in Trades, t \in claimed[x]
        PROVE  t \in Used /\ pos[t] = "EXITING"
    BY <2>1 DEF ProcessInv, TypeOK, ExitsOK, ExclusiveExit
  <2>2. ASSUME NEW t \in Trades, ExitPaper(x, t)
        PROVE  Goal
    <3>1. t \in Used /\ pos[t] = "EXITING"
      BY <2>1, <2>2 DEF ExitPaper, Submitting
    <3> QED
      BY <2>2, <3>1, CloseMove DEF ExitPaper, Remove, consumer
  <2>3. ASSUME NEW t \in Trades, ExitFails(x, t)
        PROVE  Goal
    <3>1. t \in Used /\ pos[t] = "EXITING"
      BY <2>1, <2>3 DEF ExitFails, Submitting
    <3> QED
      BY <2>3, <3>1, BookMove DEF ExitFails, ReleaseExit, consumer
  <2>4. ASSUME NEW t \in Trades, ExitAccepted(x, t)
        PROVE  Goal
    BY <2>4, PhaseFrame DEF ExitAccepted, keys, consumer
  <2>5. ASSUME NEW t \in Trades, ExitMalformed(x, t)
        PROVE  Goal
    <3>1. UNCHANGED <<trade, pos, keys>> /\ cur' \in {cur, NoTrade}
      BY <2>5 DEF ExitMalformed, SkipMessage, MessageDone, book, consumer
    <3>2. CASE cur' = cur
      BY <3>1, <3>2, PhaseFrame DEF keys
    <3>3. CASE cur' # cur
      BY <3>1, <3>3, EntryMove
    <3> QED
      BY <3>2, <3>3
  <2>6. CASE LogExit(x)
    BY <2>6, PhaseFrame DEF LogExit, keys, book, consumer
  <2> QED
    BY <1>4, <2>2, <2>3, <2>4, <2>5, <2>6 DEF SubmitExit
<1>5. CASE Liquidate
  BY <1>5, ClaimMove DEF Liquidate, Threads, consumer
<1>6. CASE Reconcile
  <2>1. CASE Snapshot
    BY <2>1, PhaseFrame DEF Snapshot, keys, book, consumer
  <2>2. ASSUME NEW t \in Trades, PassOver(t) \/ Fetch(t) \/ FetchMalformed(t)
        PROVE  Goal
    BY <2>2, PhaseFrame
    DEF PassOver, Fetch, FetchMalformed, PollUnchanged, keys, book, consumer
  <2>3. CASE EntryFilled \/ EntryDead \/ ExitDead
    <3>1. PICK t \in Used : t = u
      BY <2>3 DEF EntryFilled, EntryDead, ExitDead, Applying, ProcessInv, TypeOK, ReconcilerOK
    <3>2. UNCHANGED <<trade, cur, keys>>
      BY <2>3 DEF EntryFilled, EntryDead, ExitDead, ApplyUnchanged, consumer
    <3>3. PICK s \in {"none", "OPEN"} :
            /\ pos' = [pos EXCEPT ![t] = s]
            /\ <<pos[t], s>> \in {<<"PENDING_ENTRY", "OPEN">>, <<"PENDING_ENTRY", "none">>,
                                  <<"EXITING", "OPEN">>}
      BY <2>3, <3>1
      DEF EntryFilled, EntryDead, ExitDead, Applying, MarkOpen, Remove, ReleaseExit,
          ProcessInv, PolledPositions
    <3> QED
      BY <3>2, <3>3, BookMove
  <2>4. CASE ExitFilled
    <3>1. PICK t \in Used : t = u
      BY <2>4 DEF ExitFilled, Applying, ProcessInv, TypeOK, ReconcilerOK
    <3>2. /\ UNCHANGED <<trade, cur>> /\ Forget(trade[t].key)
          /\ pos[t] = "EXITING" /\ pos' = [pos EXCEPT ![t] = "none"]
      BY <2>4, <3>1
      DEF ExitFilled, ApplyUnchanged, consumer, Applying, Remove, ProcessInv, PolledPositions
    <3> QED
      BY <3>2, CloseMove
  <2>5. CASE StillWorking \/ SettleHold
    BY <2>5, PhaseFrame DEF StillWorking, SettleHold, ApplyUnchanged, keys, book, consumer
  <2> QED
    BY <1>6, <2>1, <2>2, <2>3, <2>4, <2>5 DEF Reconcile
<1>7. ASSUME NEW o \in DOMAIN orders, MarketFill(o) \/ MarketKill(o)
      PROVE  Goal
  BY <1>7, PhaseFrame DEF MarketFill, MarketKill, MarketUnchanged, keys, book, consumer
<1>8. CASE CloseReached \/ NextDay
  BY <1>8, PhaseFrame DEF CloseReached, NextDay, ClockUnchanged, keys, book, consumer
<1> QED
  BY <1>1, <1>2, <1>3, <1>4, <1>5, <1>6, <1>7, <1>8 DEF Next, Market

\* The executor implements the life of signals: whatever its threads, the broker, the
\* market and the faults do, a signal has one live trade at a time, is traded again
\* only after an exit, and stays blocked after an entry that came to nothing.
THEOREM Refinement == Spec => LifecycleSpec
<1>1. Init => Lifecycle!Init
  <2> SUFFICES ASSUME Init PROVE Lifecycle!Init
    OBVIOUS
  <2>1. Used = {}
    BY DEF Init, Used
  <2> QED
    BY <2>1 DEF Lifecycle!Init, phases, signals, Phase
<1>2. IndInv /\ [Next]_vars => [Lifecycle!Next]_Lifecycle!lifecycle
  BY Simulation DEF Lifecycle!lifecycle
<1> QED
  BY <1>1, <1>2, Inductive, PTL DEF Spec, LifecycleSpec, Lifecycle!Spec

-----------------------------------------------------------------------------
(* What a step may do to one variable                                      *)

\* Every action by name, for proofs about variables that few of them change.
LEMMA Steps ==
  ASSUME [Next]_vars
  PROVE  \/ UNCHANGED vars
         \/ \E k \in Ticks, armed \in SUBSET Entries : Poll(k, armed)
         \/ \E e \in todo : Dedup(e) \/ SizingFails(e) \/ \E t \in Trades : Enter(e, t)
         \/ FillPaper \/ CashHeld \/ InsufficientFunds \/ ReserveFails \/ ReserveMalformed
         \/ EntryAccepted \/ EntryFails \/ EntryMalformed \/ ReleaseAfterFailure
         \/ ClaimExits \/ ExitsDone
         \/ \E x \in Threads, t \in Trades : \/ ExitPaper(x, t) \/ ExitAccepted(x, t)
                                            \/ ExitFails(x, t) \/ ExitMalformed(x, t)
         \/ \E x \in Threads : LogExit(x)
         \/ Liquidate
         \/ Snapshot \/ \E t \in Trades : PassOver(t) \/ Fetch(t) \/ FetchMalformed(t)
         \/ EntryFilled \/ EntryDead \/ ExitFilled \/ ExitDead \/ StillWorking \/ SettleHold
         \/ \E o \in DOMAIN orders : MarketFill(o) \/ MarketKill(o)
         \/ CloseReached \/ NextDay
BY DEF Next, Consume, SubmitExit, Reconcile, Market

\* The orders change by an entry or an exit that the broker accepts, and by what the
\* market does.
LEMMA OrdersStep ==
  ASSUME TypeOK, [Next]_vars
  PROVE  \/ UNCHANGED orders
         \/ pc = "submit" /\ Accept(EntryId(cur), SizedQuantity(tick.price))
         \/ \E x \in Threads, t \in Trades :
              ~Paper /\ Submitting(x, t) /\ Accept(ExitId(t), quantity[t])
         \/ \E o \in DOMAIN orders : (\E n \in 1 .. orders[o].qty : Fill(o, n)) \/ Kill(o)
<1>1. CASE UNCHANGED vars
  BY <1>1 DEF vars
<1>2. CASE \/ \E k \in Ticks, armed \in SUBSET Entries : Poll(k, armed)
           \/ \E e \in todo : Dedup(e) \/ SizingFails(e) \/ \E t \in Trades : Enter(e, t)
           \/ FillPaper \/ CashHeld \/ InsufficientFunds \/ ReserveFails \/ ReserveMalformed
           \/ ReleaseAfterFailure \/ ClaimExits \/ ExitsDone \/ Liquidate
           \/ \E x \in Threads, t \in Trades : ExitPaper(x, t)
           \/ \E x \in Threads : LogExit(x)
  BY <1>2
  DEF Poll, Dedup, SizingFails, Enter, FillPaper, CashHeld, InsufficientFunds, ReserveFails,
      ReserveMalformed, ReserveUnchanged, ReleaseAfterFailure, ClaimExits, ExitsDone, Liquidate,
      Claim, ExitPaper, LogExit
<1>3. CASE EntryAccepted \/ EntryFails \/ EntryMalformed
  BY <1>3 DEF EntryAccepted, EntryFails, EntryMalformed, SubmissionFails
<1>4. ASSUME NEW x \in Threads, NEW t \in Trades,
             ExitAccepted(x, t) \/ ExitFails(x, t) \/ ExitMalformed(x, t)
      PROVE  \/ UNCHANGED orders
             \/ ~Paper /\ Submitting(x, t) /\ Accept(ExitId(t), quantity[t])
  BY <1>4 DEF ExitAccepted, ExitFails, ExitMalformed, SubmissionFails
<1>5. CASE \/ Snapshot \/ \E t \in Trades : PassOver(t) \/ Fetch(t) \/ FetchMalformed(t)
           \/ EntryFilled \/ EntryDead \/ ExitFilled \/ ExitDead \/ StillWorking \/ SettleHold
           \/ CloseReached \/ NextDay
  BY <1>5
  DEF Snapshot, PassOver, Fetch, FetchMalformed, PollUnchanged, EntryFilled, EntryDead,
      ExitFilled, ExitDead, StillWorking, SettleHold, ApplyUnchanged, CloseReached, NextDay,
      ClockUnchanged
<1>6. CASE \E o \in DOMAIN orders : MarketFill(o) \/ MarketKill(o)
  BY <1>6 DEF MarketFill, MarketKill
<1> QED
  BY <1>1, <1>2, <1>3, <1>4, <1>5, <1>6, Steps

\* An order never disappears, never changes its quantity, only fills, and is not
\* revived once it has ended.
LEMMA OrdersGrow ==
  ASSUME TypeOK, [Next]_vars, NEW o \in DOMAIN orders
  PROVE  /\ o \in DOMAIN orders' /\ orders'[o].qty = orders[o].qty
         /\ orders[o].filled =< orders'[o].filled
         /\ orders[o].filled =< orders[o].qty => orders'[o].filled =< orders'[o].qty
         /\ orders[o].status # "live" => orders'[o] = orders[o]
         /\ orders[o] \in Order
<1>1. orders[o] \in Order /\ orders[o].filled \in Nat /\ orders[o].qty \in Nat
  BY DEF TypeOK, OrdersOK, Order
<1>2. ASSUME NEW c, NEW q, Accept(c, q)
      PROVE  o \in DOMAIN orders' /\ orders'[o] = orders[o]
  BY <1>2 DEF Accept, Acceptable, Exists, Put
<1>3. ASSUME NEW c \in DOMAIN orders, NEW n \in 1 .. orders[c].qty, Fill(c, n)
      PROVE  /\ o \in DOMAIN orders' /\ orders'[o].qty = orders[o].qty
             /\ orders[o].filled =< orders'[o].filled
             /\ orders[o].filled =< orders[o].qty => orders'[o].filled =< orders'[o].qty
             /\ orders[o].status # "live" => orders'[o] = orders[o]
  <2>1. orders[c].qty \in Nat /\ n \in Nat
    BY DEF TypeOK, OrdersOK, Order
  <2>2. CASE o = c
    <3>1. /\ orders'[o].filled = orders[o].filled + n /\ orders'[o].qty = orders[o].qty
          /\ o \in DOMAIN orders' /\ orders[o].status = "live"
          /\ orders[o].filled + n =< orders[o].qty
      BY <1>1, <1>3, <2>2 DEF Fill, Working, Put, Order
    <3> QED
      BY <1>1, <2>1, <2>2, <3>1
  <2>3. CASE o # c
    BY <1>1, <1>3, <2>3 DEF Fill, Put
  <2> QED
    BY <2>2, <2>3
<1>4. ASSUME NEW c \in DOMAIN orders, Kill(c)
      PROVE  /\ o \in DOMAIN orders' /\ orders'[o].qty = orders[o].qty
             /\ orders[o].filled = orders'[o].filled
             /\ orders[o].status # "live" => orders'[o] = orders[o]
  BY <1>1, <1>4 DEF Kill, Working, Put, Order
<1> QED
  BY <1>1, <1>2, <1>3, <1>4, OrdersStep

\* A new order is the entry that the consumer submits or the exit of a claim.
LEMMA NewOrders ==
  ASSUME TypeOK, [Next]_vars, NEW o \in DOMAIN orders', o \notin DOMAIN orders
  PROVE  /\ orders'[o].filled = 0 /\ orders'[o].status = "live"
         /\ \/ pc = "submit" /\ o = EntryId(cur)
            \/ \E x \in Threads, t \in Trades :
                 /\ ~Paper /\ Submitting(x, t)
                 /\ o = ExitId(t) /\ orders'[o].qty = quantity[t]
<1>1. ASSUME NEW c, NEW q, Accept(c, q)
      PROVE  o = c /\ orders'[o] = [qty |-> q, filled |-> 0, status |-> "live"]
  BY <1>1 DEF Accept, Put
<1>2. ASSUME NEW c \in DOMAIN orders, (\E n \in 1 .. orders[c].qty : Fill(c, n)) \/ Kill(c)
      PROVE  FALSE
  BY <1>2 DEF Fill, Kill, Put
<1> QED
  BY <1>1, <1>2, OrdersStep

\* Trades keep what they were created with.
LEMMA TradesKept ==
  ASSUME TypeOK, [Next]_vars, NEW t \in Used
  PROVE  /\ t \in Used' /\ trade'[t] = trade[t]
         /\ EntryId(t)' = EntryId(t) /\ ExitId(t)' = ExitId(t)
         /\ BaseOf(t)' = BaseOf(t) /\ AttemptOf(t)' = AttemptOf(t)
<1>1. CASE UNCHANGED trade
  BY <1>1 DEF Used, EntryId, ExitId, BaseOf, AttemptOf
<1>2. ASSUME NEW e \in todo, NEW u \in Trades, Enter(e, u)
      PROVE  trade'[t] = trade[t]
  BY <1>2 DEF Enter, Unused, TypeOK, TradesOK, Used
<1>3. trade'[t] = trade[t]
  BY <1>1, <1>2, Steps
  DEF vars, Poll, Dedup, SizingFails, FillPaper, CashHeld, InsufficientFunds, ReserveFails,
      ReserveMalformed, ReserveUnchanged, EntryAccepted, EntryFails, EntryMalformed,
      SubmitUnchanged, ReleaseAfterFailure, ClaimExits, Claim, ExitsDone, ExitPaper,
      ExitAccepted, ExitFails, ExitMalformed, LogExit, Liquidate, Snapshot, PassOver, Fetch,
      FetchMalformed, PollUnchanged, EntryFilled, EntryDead, ExitFilled, ExitDead,
      StillWorking, SettleHold, ApplyUnchanged, MarketFill, MarketKill, MarketUnchanged,
      CloseReached, NextDay, ClockUnchanged
<1> QED
  BY <1>3 DEF Used, EntryId, ExitId, BaseOf, AttemptOf

\* A trade is new only when the consumer enters it, with the key of the current attempt
\* of a signal, if that is free.
LEMMA NewTrade ==
  ASSUME ProcessInv, [Next]_vars, NEW t \in Used', t \notin Used
  PROVE  /\ \E e \in todo : Enter(e, t)
         /\ cur' = t /\ pc' = IF Paper THEN "fill" ELSE "reserve"
         /\ t \in Trades /\ pos[t] = "none"
         /\ BaseOf(t)' \in Bases /\ AttemptOf(t)' = attempts[BaseOf(t)']
         /\ trade'[t].key = NextKey(BaseOf(t)') /\ trade'[t].key \notin seen
         /\ UNCHANGED <<attempts, orders, book, hold>>
<1>1. trade' # trade
  BY DEF Used
<1>2. PICK e \in todo, u \in Trades : Enter(e, u)
  BY <1>1, Steps
  DEF vars, Poll, Dedup, SizingFails, FillPaper, CashHeld, InsufficientFunds, ReserveFails,
      ReserveMalformed, ReserveUnchanged, EntryAccepted, EntryFails, EntryMalformed,
      SubmitUnchanged, ReleaseAfterFailure, ClaimExits, Claim, ExitsDone, ExitPaper,
      ExitAccepted, ExitFails, ExitMalformed, LogExit, Liquidate, Snapshot, PassOver, Fetch,
      FetchMalformed, PollUnchanged, EntryFilled, EntryDead, ExitFilled, ExitDead,
      StillWorking, SettleHold, ApplyUnchanged, MarketFill, MarketKill, MarketUnchanged,
      CloseReached, NextDay, ClockUnchanged
<1> DEFINE base == KeyBase(e, tick.date)
           key  == ComposeKey(base, attempts[base])
<1>3. trade' = [trade EXCEPT ![u] = [entry |-> e, key |-> key]] /\ key \notin seen
  BY <1>2 DEF Enter, NextKey
<1>4. u = t /\ t \in Trades
  BY <1>3 DEF Used, ProcessInv, TypeOK, TradesOK
<1>5. base \in Bases /\ attempts[base] \in Nat
  BY <1>2, BaseInBases DEF Enter, ProcessInv, TypeOK, ConsumerOK, RecordsOK, Ticks
<1>6. trade'[t].key = key
  BY <1>3, <1>4 DEF ProcessInv, TypeOK, TradesOK
<1>7. BaseOf(t)' = base /\ AttemptOf(t)' = attempts[base]
  BY <1>5, <1>6, SplitCompose DEF BaseOf, AttemptOf
<1>8. pos[t] = "none"
  BY <1>4 DEF ProcessInv, TypeOK, BookOK, Tracked
<1> QED
  BY <1>2, <1>3, <1>4, <1>5, <1>6, <1>7, <1>8 DEF Enter, TakeKey, book, NextKey

\* Under the key of a new trade there is no order before a crash.
LEMMA NewTrades ==
  ASSUME IndInv, [Next]_vars, NEW t \in Used', t \notin Used
  PROVE  /\ \A u \in Used : trade[u].key # trade'[t].key
         /\ EntryId(t)' \notin DOMAIN orders /\ ExitId(t)' \notin DOMAIN orders
         /\ UNCHANGED orders
<1>1. \A u \in Used : trade[u].key # trade'[t].key
  BY NewTrade, FreshKey
<1>2. \A o \in DOMAIN orders : \E u \in Used : o.key = trade[u].key
  BY DEF ProcessInv, TypeOK, OrdersOK, OrderIds
<1>3. EntryId(t)'.key = trade'[t].key /\ ExitId(t)'.key = trade'[t].key
  BY DEF EntryId, ExitId, OrderId
<1> QED
  BY <1>1, <1>2, <1>3, NewTrade

\* An entry is never an exit, and both are orders.
LEMMA IdShape ==
  ASSUME TypeOK, NEW t \in Used, NEW u \in Used
  PROVE  /\ EntryId(t) # ExitId(u)
         /\ EntryId(t) # NoId /\ ExitId(t) # NoId
         /\ ExitId(t) = ExitId(u) <=> trade[t].key = trade[u].key
         /\ EntryId(t) = EntryId(u) <=> trade[t].key = trade[u].key
<1>1. EntryId(t).leg = "entry" /\ ExitId(u).leg = "exit"
  BY DEF EntryId, ExitId, OrderId
<1>2. trade[t].key \in [base : Bases, suffix : Seq(Nat)]
  BY DEF TypeOK, TradesOK, Used, TradeRecord
<1>3. EntryId(t) # NoId /\ ExitId(t) # NoId
  BY <1>2, IdAssumption DEF EntryId, ExitId, OrderId
<1>4. /\ EntryId(t).key = trade[t].key /\ ExitId(t).key = trade[t].key
      /\ EntryId(u).key = trade[u].key /\ ExitId(u).key = trade[u].key
  BY DEF EntryId, ExitId, OrderId
<1>5. trade[t].key = trade[u].key => EntryId(t) = EntryId(u) /\ ExitId(t) = ExitId(u)
  BY DEF EntryId, ExitId
<1> QED
  BY <1>1, <1>3, <1>4, <1>5

\* Different trades, and the two orders of one, have different order ids.
LEMMA OwnIds ==
  ASSUME IndInv, NEW t \in Used, NEW u \in Used
  PROVE  /\ EntryId(t) = EntryId(u) => t = u
         /\ ExitId(t) = ExitId(u) => t = u
         /\ EntryId(t) # ExitId(u)
         /\ EntryId(t) # NoId /\ ExitId(t) # NoId
BY IdShape DEF ProcessInv, KeysUnique

\* What a step may do to one position.
LEMMA BookStep ==
  ASSUME ProcessInv, [Next]_vars, NEW t \in Trades
  PROVE  \/ /\ pos'[t] = pos[t] /\ quantity'[t] = quantity[t]
            /\ entryOrder'[t] = entryOrder[t] /\ exitOrder'[t] = exitOrder[t]
         \/ t = cur /\ (FillPaper \/ EntryAccepted)
         \/ /\ \E x \in Threads : t \in claimed'[x]
            /\ pos[t] = "OPEN" /\ pos'[t] = "EXITING" /\ quantity'[t] = quantity[t]
            /\ entryOrder'[t] = entryOrder[t] /\ exitOrder'[t] = exitOrder[t]
         \/ \E x \in Threads : ExitPaper(x, t) \/ ExitAccepted(x, t) \/ ExitFails(x, t)
         \/ t = rcur.trade /\ (EntryFilled \/ EntryDead \/ ExitFilled \/ ExitDead)
<1> DEFINE Same == /\ pos'[t] = pos[t] /\ quantity'[t] = quantity[t]
                   /\ entryOrder'[t] = entryOrder[t] /\ exitOrder'[t] = exitOrder[t]
<1>1. /\ pos \in [Trades -> PositionState \cup {"none"}] /\ quantity \in [Trades -> Nat]
      /\ entryOrder \in [Trades -> OrderIds \cup {NoId}]
      /\ exitOrder \in [Trades -> OrderIds \cup {NoId}]
  BY DEF ProcessInv, TypeOK, BookOK
<1>2. CASE UNCHANGED book
  BY <1>2 DEF book
<1>3. CASE FillPaper \/ EntryAccepted
  BY <1>1, <1>3 DEF FillPaper, EntryAccepted, Open
<1>4. ASSUME NEW x \in Threads, NEW claims \in SUBSET AllOpen, Claim(x, claims)
      PROVE  \/ Same
             \/ /\ t \in claimed'[x]
                /\ pos[t] = "OPEN" /\ pos'[t] = "EXITING" /\ quantity'[t] = quantity[t]
                /\ entryOrder'[t] = entryOrder[t] /\ exitOrder'[t] = exitOrder[t]
  BY <1>1, <1>4 DEF Claim, Flip, AllOpen, ProcessInv, TypeOK, ExitsOK
<1>5. CASE ClaimExits \/ Liquidate
  <2>1. "consumer" \in Threads /\ "liquidator" \in Threads
    BY DEF Threads
  <2>2. ExitsFor(tick.symbol, tick.price) \subseteq AllOpen
    BY DEF ExitsFor, AllOpen
  <2> QED
    BY <1>4, <1>5, <2>1, <2>2 DEF ClaimExits, Liquidate
<1>6. ASSUME NEW x \in Threads, NEW u \in Trades,
             ExitPaper(x, u) \/ ExitAccepted(x, u) \/ ExitFails(x, u)
      PROVE  Same \/ t = u
  BY <1>1, <1>6 DEF ExitPaper, ExitAccepted, ExitFails, Remove, ReleaseExit
<1>7. CASE EntryFilled \/ EntryDead \/ ExitFilled \/ ExitDead
  BY <1>1, <1>7
  DEF EntryFilled, EntryDead, ExitFilled, ExitDead, MarkOpen, Remove, ReleaseExit
<1> QED
  BY <1>2, <1>3, <1>5, <1>6, <1>7, Steps
  DEF vars, Poll, Dedup, SizingFails, Enter, CashHeld, InsufficientFunds, ReserveFails,
      ReserveMalformed, ReserveUnchanged, EntryFails, EntryMalformed,
      SubmitUnchanged, ReleaseAfterFailure, ExitsDone, ExitMalformed, LogExit, Snapshot,
      PassOver, Fetch, FetchMalformed, PollUnchanged, StillWorking, SettleHold,
      MarketFill, MarketKill, MarketUnchanged, CloseReached, NextDay, ClockUnchanged

\* What a step may do to one row.
LEMMA RowStep ==
  ASSUME ProcessInv, [Next]_vars, NEW t \in Trades
  PROVE  \/ row'[t] = row[t]
         \/ \E e \in todo : Enter(e, t)
         \/ /\ t = cur
            /\ \/ FillPaper \/ CashHeld \/ InsufficientFunds \/ ReserveFails
               \/ EntryAccepted \/ EntryFails
         \/ \E x \in Threads : \/ ExitPaper(x, t) \/ ExitFails(x, t)
                               \/ LogExit(x) /\ t = unlogged[x]
         \/ /\ t = rcur.trade
            /\ EntryFilled \/ EntryDead \/ ExitFilled \/ ExitDead \/ StillWorking
<1>1. ASSUME NEW u, NEW s, SetRow(u, s)
      PROVE  row'[t] = row[t] \/ t = u
  BY <1>1 DEF SetRow, ProcessInv, TypeOK, RecordsOK
<1>2. CASE UNCHANGED row
  BY <1>2
<1>3. CASE \/ FillPaper \/ CashHeld \/ InsufficientFunds \/ ReserveFails
           \/ EntryAccepted \/ EntryFails
  BY <1>1, <1>3
  DEF FillPaper, CashHeld, InsufficientFunds, ReserveFails, EntryAccepted, EntryFails
<1>4. ASSUME NEW e \in todo, NEW u \in Trades, Enter(e, u)
      PROVE  row'[t] = row[t] \/ t = u
  BY <1>1, <1>4 DEF Enter
<1>5. ASSUME NEW x \in Threads, NEW u \in Trades, ExitPaper(x, u) \/ ExitFails(x, u)
      PROVE  row'[t] = row[t] \/ t = u
  BY <1>1, <1>5 DEF ExitPaper, ExitFails
<1>6. ASSUME NEW x \in Threads, LogExit(x)
      PROVE  row'[t] = row[t] \/ t = unlogged[x]
  BY <1>1, <1>6 DEF LogExit
<1>7. CASE EntryFilled \/ EntryDead \/ ExitFilled \/ ExitDead \/ StillWorking
  BY <1>1, <1>7 DEF EntryFilled, EntryDead, ExitFilled, ExitDead, StillWorking
<1> QED
  BY <1>2, <1>3, <1>4, <1>5, <1>6, <1>7, Steps
  DEF vars, Poll, Dedup, SizingFails, ReserveMalformed, EntryMalformed, SubmitUnchanged,
      ReleaseAfterFailure, ClaimExits, Claim, ExitsDone, ExitAccepted, ExitMalformed,
      Liquidate, Snapshot, PassOver, Fetch, FetchMalformed, PollUnchanged, SettleHold,
      MarketFill, MarketKill, MarketUnchanged, CloseReached, NextDay, ClockUnchanged

\* What a step may do to the answer that the reconciler is to apply.
LEMMA JobStep ==
  ASSUME [Next]_vars
  PROVE  \/ UNCHANGED rcur
         \/ \E t \in Trades : Fetch(t)
         \/ EntryFilled \/ EntryDead
         \/ rcur' = NoJob /\ (ExitFilled \/ ExitDead \/ StillWorking \/ SettleHold)
BY Steps
DEF vars, Poll, Dedup, SizingFails, Enter, FillPaper, CashHeld, InsufficientFunds,
    ReserveFails, ReserveMalformed, ReserveUnchanged, EntryAccepted, EntryFails,
    EntryMalformed, SubmitUnchanged, ReleaseAfterFailure, ClaimExits, Claim, ExitsDone,
    ExitPaper, ExitAccepted, ExitFails, ExitMalformed, LogExit, Liquidate, Snapshot,
    PassOver, FetchMalformed, PollUnchanged, ExitFilled, ExitDead, StillWorking, SettleHold,
    MarketFill, MarketKill, MarketUnchanged, CloseReached, NextDay, ClockUnchanged, reconciler

\* What a step may do to one hold.
LEMMA HoldStep ==
  ASSUME ProcessInv, [Next]_vars, NEW t \in Trades
  PROVE  \/ hold'[t] = hold[t]
         \/ t = cur /\ (CashHeld \/ ReserveFails \/ ReserveMalformed \/ ReleaseAfterFailure)
         \/ t = rcur.trade /\ SettleHold
<1>1. hold \in [Trades -> {"none", "held", "captured", "released"}]
  BY DEF ProcessInv, TypeOK, RecordsOK
<1>2. CASE UNCHANGED hold
  BY <1>2
<1>3. CASE CashHeld \/ ReserveFails \/ ReserveMalformed \/ ReleaseAfterFailure
  BY <1>1, <1>3 DEF CashHeld, ReserveFails, ReserveMalformed, ReleaseAfterFailure, Settle
<1>4. CASE SettleHold
  BY <1>1, <1>4 DEF SettleHold, Settle
<1> QED
  BY <1>2, <1>3, <1>4, Steps
  DEF vars, Poll, Dedup, SizingFails, Enter, FillPaper, InsufficientFunds, EntryAccepted,
      EntryFails, EntryMalformed, SubmitUnchanged, ClaimExits, Claim, ExitsDone, ExitPaper,
      ExitAccepted, ExitFails, ExitMalformed, LogExit, Liquidate, Snapshot, PassOver, Fetch,
      FetchMalformed, PollUnchanged, EntryFilled, EntryDead, ExitFilled, ExitDead,
      StillWorking, ApplyUnchanged, MarketFill, MarketKill, MarketUnchanged, CloseReached,
      NextDay, ClockUnchanged

\* What a step may do to where the consumer is and what it opens.
LEMMA ConsumerStep ==
  ASSUME ProcessInv, [Next]_vars
  PROVE  \/ UNCHANGED <<pc, cur>>
         \/ pc' \in {"idle", "entries", "exits"} /\ cur' = NoTrade
         \/ \E e \in todo, t \in Trades : Enter(e, t)
         \/ CashHeld \/ EntryFails
<1>1. pc = "idle" \/ pc = "entries" => cur = NoTrade
  BY DEF ProcessInv, TypeOK, ConsumerOK
<1> QED
  BY <1>1, Steps
  DEF vars, Poll, Dedup, SizingFails, SkipMessage, MessageDone, FillPaper, InsufficientFunds,
      ReserveFails, ReserveMalformed, EntryDone, EntryAccepted,
      EntryMalformed, SubmitUnchanged, ReleaseAfterFailure, ClaimExits, Claim, ExitsDone,
      ExitPaper, ExitAccepted, ExitFails, ExitMalformed, LogExit, Liquidate, Snapshot,
      PassOver, Fetch, FetchMalformed, PollUnchanged, EntryFilled, EntryDead, ExitFilled,
      ExitDead, StillWorking, SettleHold, ApplyUnchanged, MarketFill, MarketKill,
      MarketUnchanged, CloseReached, NextDay, ClockUnchanged, consumer

-----------------------------------------------------------------------------
(* Modes and order ids                                                     *)

\* Initially the modes are apart and there are no orders and no answers.
LEMMA ModesInit == Init => ModesApart /\ OwnOrders /\ AnswersHold
BY DEF Init, BookInit, ModesApart, OwnOrders, AnswersHold, NoJob

\* A paper process stays in the process.
LEMMA ModesNext ==
  ASSUME ProcessInv, ModesApart, [Next]_vars
  PROVE  ModesApart'
<1>1. pc' = "fill" => Paper
  BY ConsumerStep DEF ModesApart, Enter, CashHeld, EntryFails
<1>2. ASSUME Paper
      PROVE  /\ DOMAIN orders' = {}
             /\ pc' \notin {"reserve", "submit", "release"}
             /\ \A x \in Threads : unlogged'[x] = NoTrade
             /\ rtodo' = {} /\ rcur' = NoJob
  <2>1. /\ DOMAIN orders = {} /\ pc \notin {"reserve", "submit", "release"}
        /\ \A x \in Threads : unlogged[x] = NoTrade
        /\ rtodo = {} /\ rcur = NoJob
    BY <1>2 DEF ModesApart
  <2>2. DOMAIN orders' = {}
    <3>1. ASSUME NEW o \in DOMAIN orders' PROVE FALSE
      <4>1. o \notin DOMAIN orders
        BY <2>1
      <4> QED
        BY <1>2, <2>1, <4>1, NewOrders DEF ProcessInv
    <3> QED
      BY <3>1
  <2>3. pc' \notin {"reserve", "submit", "release"}
    BY <1>2, <2>1, ConsumerStep DEF Enter, CashHeld, EntryFails
  <2>4. unlogged' = unlogged /\ rtodo' = {} /\ rcur' = NoJob
    BY <1>2, <2>1, Steps
    DEF vars, exits, reconciler, Poll, Dedup, SizingFails, Enter, FillPaper, CashHeld, InsufficientFunds,
        ReserveFails, ReserveMalformed, ReserveUnchanged, EntryAccepted, EntryFails,
        EntryMalformed, SubmitUnchanged, ReleaseAfterFailure, ClaimExits, Claim, ExitsDone,
        ExitPaper, ExitAccepted, ExitFails, ExitMalformed, LogExit, Liquidate, Snapshot,
        PassOver, Fetch, Polling, FetchMalformed, PollUnchanged, EntryFilled, EntryDead,
        ExitFilled, ExitDead, StillWorking, SettleHold, Applying, NoJob, ApplyUnchanged,
        MarketFill, MarketKill, MarketUnchanged, CloseReached, NextDay, ClockUnchanged
  <2> QED
    BY <2>1, <2>2, <2>3, <2>4
<1> QED
  BY <1>1, <1>2 DEF ModesApart

\* The book's order ids stay those of orders that the broker has.
LEMMA OwnOrdersNext ==
  ASSUME ProcessInv, OwnOrders, [Next]_vars
  PROVE  OwnOrders'
<1> SUFFICES ASSUME NEW t \in Trades
             PROVE  /\ entryOrder'[t] # NoId =>
                         t \in Used' /\ entryOrder'[t] = EntryId(t)' /\ Exists(EntryId(t))'
                    /\ exitOrder'[t] # NoId =>
                         t \in Used' /\ exitOrder'[t] = ExitId(t)' /\ Exists(ExitId(t))'
  BY DEF OwnOrders
<1>1. ASSUME NEW o, Exists(o) PROVE o \in DOMAIN orders'
  BY <1>1, OrdersGrow DEF Exists, ProcessInv
<1>2. ASSUME entryOrder[t] # NoId
      PROVE  t \in Used' /\ entryOrder[t] = EntryId(t)' /\ Exists(EntryId(t))'
  <2>1. t \in Used /\ entryOrder[t] = EntryId(t) /\ Exists(EntryId(t))
    BY <1>2 DEF OwnOrders
  <2>2. t \in Used' /\ EntryId(t)' = EntryId(t)
    BY <2>1, TradesKept DEF ProcessInv
  <2> QED
    BY <1>1, <2>1, <2>2 DEF Exists
<1>3. ASSUME exitOrder[t] # NoId
      PROVE  t \in Used' /\ exitOrder[t] = ExitId(t)' /\ Exists(ExitId(t))'
  <2>1. t \in Used /\ exitOrder[t] = ExitId(t) /\ Exists(ExitId(t))
    BY <1>3 DEF OwnOrders
  <2>2. t \in Used' /\ ExitId(t)' = ExitId(t)
    BY <2>1, TradesKept DEF ProcessInv
  <2> QED
    BY <1>1, <2>1, <2>2 DEF Exists
<1>4. /\ entryOrder \in [Trades -> OrderIds \cup {NoId}]
      /\ exitOrder \in [Trades -> OrderIds \cup {NoId}]
  BY DEF ProcessInv, TypeOK, BookOK
<1>5. CASE entryOrder'[t] = entryOrder[t] /\ exitOrder'[t] = exitOrder[t]
  BY <1>2, <1>3, <1>5
<1>6. CASE t = cur /\ (FillPaper \/ EntryAccepted)
  <2>1. exitOrder'[t] = NoId
    BY <1>4, <1>6 DEF FillPaper, EntryAccepted, Open
  <2>2. CASE FillPaper
    <3>1. entryOrder'[t] = NoId
      BY <1>4, <1>6, <2>2 DEF FillPaper, Open
    <3> QED
      BY <2>1, <3>1
  <2>3. CASE EntryAccepted
    <3>1. t \in Used /\ entryOrder'[t] = EntryId(t)
      BY <1>4, <1>6, <2>3 DEF EntryAccepted, Open, ProcessInv, TypeOK, ConsumerOK
    <3>2. EntryId(t) \in DOMAIN orders'
      BY <1>6, <2>3 DEF EntryAccepted, Accept, Put
    <3>3. t \in Used' /\ EntryId(t)' = EntryId(t)
      BY <3>1, TradesKept DEF ProcessInv
    <3> QED
      BY <2>1, <3>1, <3>2, <3>3 DEF Exists
  <2> QED
    BY <1>6, <2>2, <2>3
<1>7. ASSUME NEW x \in Threads, ExitPaper(x, t) \/ ExitFails(x, t)
      PROVE  (entryOrder'[t] = entryOrder[t] \/ entryOrder'[t] = NoId) /\ exitOrder'[t] = NoId
  BY <1>4, <1>7 DEF ExitPaper, ExitFails, Remove, ReleaseExit
<1>8. ASSUME NEW x \in Threads, ExitAccepted(x, t)
      PROVE  /\ entryOrder'[t] = entryOrder[t]
             /\ t \in Used' /\ exitOrder'[t] = ExitId(t)' /\ Exists(ExitId(t))'
  <2>1. t \in Used /\ exitOrder'[t] = ExitId(t) /\ entryOrder'[t] = entryOrder[t]
    BY <1>4, <1>8 DEF ExitAccepted, Submitting, ProcessInv, TypeOK, ExitsOK
  <2>2. ExitId(t) \in DOMAIN orders'
    BY <1>8 DEF ExitAccepted, Accept, Put
  <2>3. t \in Used' /\ ExitId(t)' = ExitId(t)
    BY <2>1, TradesKept DEF ProcessInv
  <2> QED
    BY <2>1, <2>2, <2>3 DEF Exists
<1>9. ASSUME EntryFilled \/ EntryDead \/ ExitFilled \/ ExitDead, t = rcur.trade
      PROVE  /\ entryOrder'[t] = entryOrder[t] \/ entryOrder'[t] = NoId
             /\ exitOrder'[t] = exitOrder[t] \/ exitOrder'[t] = NoId
  BY <1>4, <1>9
  DEF EntryFilled, EntryDead, ExitFilled, ExitDead, MarkOpen, Remove, ReleaseExit
<1> QED
  BY <1>2, <1>3, <1>5, <1>6, <1>7, <1>8, <1>9, BookStep

\* Answers stay true until they are applied, however old they are by then.
LEMMA AnswersNext ==
  ASSUME ProcessInv, OwnOrders, AnswersHold, [Next]_vars
  PROVE  AnswersHold'
<1>1. rcur \in Job /\ (rcur.doing # "none" => rcur.trade \in Used)
  BY DEF ProcessInv, TypeOK, ReconcilerOK
<1>2. ASSUME rcur.doing # "none"
      PROVE  /\ PolledOrder \in DOMAIN orders'
             /\ rcur.filled =< orders'[PolledOrder].filled
             /\ rcur.report \in {"filled", "dead"} =>
                  /\ orders'[PolledOrder].status = rcur.report
                  /\ orders'[PolledOrder].filled = rcur.filled
             /\ trade'[rcur.trade] = trade[rcur.trade]
  <2>1. PolledOrder \in DOMAIN orders
    BY <1>2 DEF AnswersHold, Exists
  <2>2. /\ PolledOrder \in DOMAIN orders'
        /\ orders[PolledOrder].filled =< orders'[PolledOrder].filled
        /\ orders[PolledOrder].status # "live" => orders'[PolledOrder] = orders[PolledOrder]
        /\ orders[PolledOrder] \in Order
    BY <2>1, OrdersGrow DEF ProcessInv
  <2>3. PolledOrder \in DOMAIN orders' /\ orders'[PolledOrder] \in Order
    BY <2>2, TypeNext DEF ProcessInv, TypeOK, OrdersOK
  <2>4. rcur.filled =< orders'[PolledOrder].filled
    BY <1>1, <1>2, <2>2, <2>3 DEF AnswersHold, Order, Job
  <2>5. trade'[rcur.trade] = trade[rcur.trade]
    BY <1>1, <1>2, TradesKept DEF ProcessInv
  <2> QED
    BY <1>2, <2>2, <2>4, <2>5 DEF AnswersHold
<1>3. CASE UNCHANGED rcur
  BY <1>2, <1>3 DEF AnswersHold, PolledOrder, Exists
<1>4. ASSUME NEW t \in Trades, Fetch(t)
      PROVE  AnswersHold'
  <2>1. /\ rcur' = [trade |-> t, doing |-> IF pos[t] = "PENDING_ENTRY" THEN "entry" ELSE "exit",
                    report |-> Report(PollId(t)), filled |-> Filled(PollId(t))]
        /\ UNCHANGED <<orders, trade>> /\ PollId(t) # NoId
    BY <1>4 DEF Fetch, PollUnchanged
  <2>2. Exists(PollId(t)) /\ PollId(t) = PolledOrder'
    BY <2>1 DEF PollId, OwnOrders, PolledOrder, EntryId, ExitId, OrderId
  <2>3. orders[PollId(t)] \in Order
    BY <2>2 DEF Exists, ProcessInv, TypeOK, OrdersOK
  <2>4. /\ Report(PollId(t)) \in {"filled", "dead"} => orders[PollId(t)].status = Report(PollId(t))
        /\ Filled(PollId(t)) = orders[PollId(t)].filled
        /\ Filled(PollId(t)) =< orders[PollId(t)].filled
    BY <2>2, <2>3 DEF Report, Filled, Order, OrderStatus
  <2>5. rcur'.doing \in {"entry", "exit"}
    BY <2>1
  <2> QED
    BY <2>1, <2>2, <2>4, <2>5 DEF AnswersHold, Exists
<1>5. CASE EntryFilled \/ EntryDead
  <2>1. PICK d \in {"capture", "release"} :
          /\ rcur' = [rcur EXCEPT !.doing = d] /\ rcur.doing = "entry"
          /\ rcur.report = IF d = "capture" THEN "filled" ELSE "dead"
    BY <1>5 DEF EntryFilled, EntryDead, Applying
  <2>. rcur'.trade = rcur.trade /\ rcur'.filled = rcur.filled
       /\ rcur'.report = rcur.report /\ rcur'.doing = d
    BY <1>1, <2>1 DEF Job
  <2>2. PolledOrder' = PolledOrder
    BY <1>2, <2>1 DEF PolledOrder
  <2> QED
    BY <1>2, <2>1, <2>2 DEF AnswersHold, Exists
<1>6. CASE rcur' = NoJob
  BY <1>6 DEF NoJob, AnswersHold
<1> QED
  BY <1>3, <1>4, <1>5, <1>6, JobStep

-----------------------------------------------------------------------------
(* Shares                                                                  *)

\* What an order has filled never decreases.
LEMMA FilledGrows ==
  ASSUME TypeOK, [Next]_vars, NEW o
  PROVE  /\ Filled(o) \in Nat /\ Filled(o)' \in Nat
         /\ Filled(o) =< Filled(o)'
<1>1. TypeOK'
  BY TypeNext
<1>2. Filled(o) \in Nat /\ Filled(o)' \in Nat
  BY <1>1 DEF TypeOK, OrdersOK, Order, Filled, Exists
<1>3. CASE o \in DOMAIN orders
  <2>1. o \in DOMAIN orders' /\ orders[o].filled =< orders'[o].filled
    BY <1>3, OrdersGrow
  <2> QED
    BY <1>2, <1>3, <2>1 DEF Filled, Exists
<1>4. CASE o \notin DOMAIN orders
  <2>1. Filled(o) = 0
    BY <1>4 DEF Filled, Exists
  <2> QED
    BY <1>2, <2>1
<1> QED
  BY <1>2, <1>3, <1>4

\* Initially nothing is bought.
LEMMA SharesInit == Init => SharesCovered
BY DEF Init, SharesCovered, Used, Exists

\* A live position counts exactly the shares that its entry has bought.
LEMMA QuantityNext ==
  ASSUME ProcessInv, ModesApart, AnswersHold, SharesCovered, [Next]_vars,
         NEW t \in Used, ~Paper, pos'[t] \in {"OPEN", "EXITING"}
  PROVE  FilledUp(EntryId(t))' /\ quantity'[t] = Filled(EntryId(t))'
<1>1. EntryId(t)' = EntryId(t)
  BY TradesKept DEF ProcessInv
<1>2. t \in Trades
  BY DEF Used
<1>3. ASSUME quantity'[t] = quantity[t], pos[t] \in {"OPEN", "EXITING"}
      PROVE  FilledUp(EntryId(t))' /\ quantity'[t] = Filled(EntryId(t))'
  <2>1. FilledUp(EntryId(t)) /\ quantity[t] = Filled(EntryId(t))
    BY <1>3 DEF SharesCovered
  <2>2. EntryId(t) \in DOMAIN orders' /\ orders'[EntryId(t)] = orders[EntryId(t)]
    BY <2>1, OrdersGrow DEF FilledUp, Exists, ProcessInv
  <2> QED
    BY <1>1, <1>3, <2>1, <2>2 DEF FilledUp, Filled, Exists
<1>4. CASE FillPaper \/ EntryAccepted
  <2>1. CASE FillPaper
    BY <2>1 DEF FillPaper, ModesApart
  <2>2. CASE EntryAccepted
    <3>1. CASE t = cur
      BY <2>2, <3>1 DEF EntryAccepted, Open, ProcessInv, TypeOK, BookOK, Used
    <3>2. CASE t # cur
      BY <1>2, <1>3, <2>2, <3>2 DEF EntryAccepted, Open, ProcessInv, TypeOK, BookOK
    <3> QED
      BY <3>1, <3>2
  <2> QED
    BY <1>4, <2>1, <2>2
<1>5. ASSUME NEW x \in Threads, ExitPaper(x, t) \/ ExitAccepted(x, t) \/ ExitFails(x, t)
      PROVE  quantity'[t] = quantity[t] /\ pos[t] = "EXITING"
  <2>1. t \in claimed[x] /\ quantity'[t] = quantity[t]
    BY <1>5 DEF ExitPaper, ExitAccepted, ExitFails, Submitting, ReleaseExit
  <2> QED
    BY <2>1 DEF ProcessInv, ExclusiveExit
<1>6. ASSUME EntryFilled, t = rcur.trade
      PROVE  FilledUp(EntryId(t))' /\ quantity'[t] = Filled(EntryId(t))'
  <2>1. /\ quantity'[t] = rcur.filled /\ rcur.doing = "entry" /\ rcur.report = "filled"
        /\ UNCHANGED <<trade, orders>>
    BY <1>2, <1>6 DEF EntryFilled, MarkOpen, Applying, ApplyUnchanged, ProcessInv, TypeOK, BookOK
  <2>2. PolledOrder = EntryId(t)
    BY <1>6, <2>1 DEF PolledOrder, EntryId
  <2>3. FilledUp(EntryId(t)) /\ rcur.filled = orders[EntryId(t)].filled
    BY <2>1, <2>2 DEF AnswersHold, FilledUp
  <2> QED
    BY <1>1, <2>1, <2>3 DEF FilledUp, Filled, Exists
<1>7. ASSUME EntryDead \/ ExitFilled \/ ExitDead, t = rcur.trade
      PROVE  quantity'[t] = quantity[t] /\ pos[t] = "EXITING"
  <2>1. CASE EntryDead \/ ExitFilled
    BY <1>2, <1>7, <2>1 DEF EntryDead, ExitFilled, Remove, ProcessInv, TypeOK, BookOK
  <2>2. CASE ExitDead
    BY <1>7, <2>2 DEF ExitDead, ReleaseExit, Applying, ProcessInv, PolledPositions
  <2> QED
    BY <1>7, <2>1, <2>2
<1> QED
  BY <1>2, <1>3, <1>4, <1>5, <1>6, <1>7, BookStep

\* The orders of a key are found with any trade that carries it.
LEMMA OrderOfKey ==
  ASSUME ProcessInv, [Next]_vars, NEW t \in Used', ExitId(t)' \in DOMAIN orders'
  PROVE  \E u \in Used : EntryId(u) = EntryId(t)' /\ ExitId(u) = ExitId(t)'
<1>1. CASE t \in Used
  BY <1>1, TradesKept DEF ProcessInv
<1>2. CASE t \notin Used
  <2>1. ExitId(t)' \in DOMAIN orders
    BY <1>2, NewTrade
  <2>2. PICK u \in Used : ExitId(t)'.key = trade[u].key
    BY <2>1 DEF ProcessInv, TypeOK, OrdersOK, OrderIds
  <2>3. trade'[t].key = trade[u].key
    BY <2>2 DEF ExitId, OrderId
  <2> QED
    BY <2>3 DEF EntryId, ExitId
<1> QED
  BY <1>1, <1>2

\* An exit order asks for exactly the shares that its entry has bought.
LEMMA ExitQuantityNext ==
  ASSUME ProcessInv, SharesCovered, [Next]_vars, NEW t \in Used', Exists(ExitId(t))'
  PROVE  FilledUp(EntryId(t))' /\ orders'[ExitId(t)'].qty = Filled(EntryId(t))'
<1>1. PICK u \in Used : EntryId(u) = EntryId(t)' /\ ExitId(u) = ExitId(t)'
  BY OrderOfKey DEF Exists
<1>2. ExitId(u) \in DOMAIN orders'
  BY <1>1 DEF Exists
<1>3. FilledUp(EntryId(u)) /\ orders'[ExitId(u)].qty = Filled(EntryId(u))
  <2>1. CASE ExitId(u) \in DOMAIN orders
    BY <2>1, OrdersGrow DEF ProcessInv, SharesCovered, Exists
  <2>2. CASE ExitId(u) \notin DOMAIN orders
    <3>1. ~(pc = "submit" /\ ExitId(u) = EntryId(cur))
      BY IdShape DEF ProcessInv, TypeOK, ConsumerOK
    <3>2. PICK x \in Threads, v \in Trades :
            ~Paper /\ Submitting(x, v) /\ ExitId(u) = ExitId(v) /\ orders'[ExitId(u)].qty = quantity[v]
      BY <1>2, <2>2, <3>1, NewOrders DEF ProcessInv
    <3>3. v \in Used /\ pos[v] = "EXITING"
      BY <3>2 DEF Submitting, ProcessInv, TypeOK, ExitsOK, ExclusiveExit
    <3>4. EntryId(v) = EntryId(u)
      BY <3>2, <3>3, IdShape DEF ProcessInv
    <3> QED
      BY <3>2, <3>3, <3>4 DEF SharesCovered
  <2> QED
    BY <2>1, <2>2
<1>4. EntryId(u) \in DOMAIN orders' /\ orders'[EntryId(u)] = orders[EntryId(u)]
  BY <1>3, OrdersGrow DEF ProcessInv, FilledUp, Exists
<1> QED
  BY <1>1, <1>3, <1>4 DEF FilledUp, Filled, Exists

\* An order never fills beyond its quantity, and is filled when nothing is left.
LEMMA OrderFills ==
  ASSUME TypeOK, SharesCovered, [Next]_vars, NEW o \in DOMAIN orders'
  PROVE  /\ 0 < orders'[o].qty /\ orders'[o].filled =< orders'[o].qty
         /\ orders'[o].status = "filled" => orders'[o].filled = orders'[o].qty
<1>1. \A c \in DOMAIN orders : orders[c] \in Order
  BY DEF TypeOK, OrdersOK
<1>2. ASSUME NEW c, NEW q, Accept(c, q), c \in OrderIds, q \in Nat
      PROVE  /\ 0 < orders'[o].qty /\ orders'[o].filled =< orders'[o].qty
             /\ orders'[o].status = "filled" => orders'[o].filled = orders'[o].qty
  BY <1>1, <1>2 DEF Accept, Acceptable, Exists, Put, SharesCovered
<1>3. ASSUME NEW c \in DOMAIN orders, NEW n \in 1 .. orders[c].qty, Fill(c, n)
      PROVE  /\ 0 < orders'[o].qty /\ orders'[o].filled =< orders'[o].qty
             /\ orders'[o].status = "filled" => orders'[o].filled = orders'[o].qty
  BY <1>1, <1>3 DEF Fill, Put, Order, SharesCovered
<1>4. ASSUME NEW c \in DOMAIN orders, Kill(c)
      PROVE  /\ 0 < orders'[o].qty /\ orders'[o].filled =< orders'[o].qty
             /\ orders'[o].status = "filled" => orders'[o].filled = orders'[o].qty
  BY <1>1, <1>4 DEF Kill, Put, Order, SharesCovered
<1>5. pc = "submit" => EntryId(cur) \in OrderIds /\ SizedQuantity(tick.price) \in Nat
  BY SizeInNat DEF TypeOK, ConsumerOK, Ticks, EntryId, OrderId, OrderIds
<1>6. ASSUME NEW x \in Threads, NEW t \in Trades, Submitting(x, t)
      PROVE  ExitId(t) \in OrderIds /\ quantity[t] \in Nat
  BY <1>6 DEF Submitting, TypeOK, ExitsOK, BookOK, ExitId, OrderId, OrderIds
<1> QED
  BY <1>2, <1>3, <1>4, <1>5, <1>6, OrdersStep DEF SharesCovered

\* Every step keeps the shares of a position and of its exit order those of its entry.
LEMMA SharesNext ==
  ASSUME ProcessInv, ModesApart, AnswersHold, SharesCovered, [Next]_vars
  PROVE  SharesCovered'
<1>1. ASSUME NEW o \in DOMAIN orders'
      PROVE  /\ 0 < orders'[o].qty /\ orders'[o].filled =< orders'[o].qty
             /\ orders'[o].status = "filled" => orders'[o].filled = orders'[o].qty
  BY OrderFills DEF ProcessInv
<1>2. ASSUME NEW t \in Used', ~Paper, pos'[t] \in {"OPEN", "EXITING"}
      PROVE  FilledUp(EntryId(t))' /\ quantity'[t] = Filled(EntryId(t))'
  BY <1>2, QuantityNext, NewTrade DEF book
<1>3. ASSUME NEW t \in Used', Exists(ExitId(t))'
      PROVE  FilledUp(EntryId(t))' /\ orders'[ExitId(t)'].qty = Filled(EntryId(t))'
  BY <1>3, ExitQuantityNext
<1> QED
  BY <1>1, <1>2, <1>3 DEF SharesCovered

-----------------------------------------------------------------------------
(* Re-entry                                                                *)

\* Initially every counter is zero and there are no trades.
LEMMA CountersInit == Init => CountersBacked /\ ReentryAfterExit
BY DEF Init, CountersBacked, ReentryAfterExit, Used

\* What was sold, and is neither in the book nor being opened, stays sold.
LEMMA ExitedKept ==
  ASSUME ProcessInv, ModesApart, [Next]_vars, NEW u \in Used, Exited(u), ~Active(u)
  PROVE  Exited(u)'
<1>1. u \in Trades /\ u # cur /\ pos[u] = "none" /\ u # NoTrade
  BY TradeAssumption DEF Used, Active, Exited
<1>2. ASSUME NEW x \in Threads
      PROVE  ~ Submitting(x, u)
  BY <1>1 DEF Submitting, ProcessInv, ExclusiveExit
<1>3. pos'[u] = "none"
  <2>1. ASSUME NEW x \in Threads
        PROVE  ~(ExitPaper(x, u) \/ ExitAccepted(x, u) \/ ExitFails(x, u))
    BY <1>2 DEF ExitPaper, ExitAccepted, ExitFails
  <2>2. ~(u = rcur.trade /\ (EntryFilled \/ EntryDead \/ ExitFilled \/ ExitDead))
    BY <1>1
    DEF ProcessInv, PolledPositions, EntryFilled, EntryDead, ExitFilled, ExitDead, Applying
  <2> QED
    BY <1>1, <2>1, <2>2, BookStep
<1>4. ASSUME Paper
      PROVE  row'[u] = "CLOSED"
  <2>1. row[u] = "CLOSED"
    BY <1>4 DEF Exited
  <2>2. ASSUME NEW x \in Threads
        PROVE  ~(ExitPaper(x, u) \/ ExitFails(x, u) \/ (LogExit(x) /\ u = unlogged[x]))
    BY <1>2, <1>4 DEF ExitPaper, ExitFails, LogExit, ModesApart
  <2>3. u # rcur.trade
    BY <1>1, <1>4 DEF ModesApart, NoJob
  <2>4. ASSUME NEW e
        PROVE  ~ Enter(e, u)
    BY DEF Enter, Unused
  <2> QED
    BY <1>1, <2>1, <2>2, <2>3, <2>4, RowStep
<1>5. ASSUME ~Paper
      PROVE  Exists(ExitId(u))' /\ orders'[ExitId(u)'].status = "filled"
  <2>1. ExitId(u) \in DOMAIN orders /\ orders[ExitId(u)].status = "filled"
    BY <1>5 DEF Exited, Exists
  <2>2. ExitId(u) \in DOMAIN orders' /\ orders'[ExitId(u)] = orders[ExitId(u)]
    BY <2>1, OrdersGrow DEF ProcessInv
  <2>3. ExitId(u)' = ExitId(u)
    BY TradesKept DEF ProcessInv
  <2> QED
    BY <2>1, <2>2, <2>3 DEF Exists
<1> QED
  BY <1>3, <1>4, <1>5 DEF Exited

\* What was sold before the current attempt of its signal stays sold.
LEMMA EarlierExits ==
  ASSUME IndInv, ModesApart, [Next]_vars,
         NEW u \in Used, Exited(u), AttemptOf(u) < attempts[BaseOf(u)]
  PROVE  u \in Used' /\ Exited(u)' /\ BaseOf(u)' = BaseOf(u) /\ AttemptOf(u)' = AttemptOf(u)
<1>1. attempts[BaseOf(u)] \in Nat /\ AttemptOf(u) \in Nat
  BY UsedKeys DEF ProcessInv, TypeOK, RecordsOK
<1>2. ~Active(u)
  BY <1>1 DEF ProcessInv, CurrentKeys
<1> QED
  BY <1>2, ExitedKept, TradesKept DEF ProcessInv

\* A counter moves on only when a trade of its signal has been sold.
LEMMA CounterStep ==
  ASSUME ProcessInv, ModesApart, OwnOrders, AnswersHold, [Next]_vars
  PROVE  \/ UNCHANGED attempts
         \/ \E t \in Used :
              /\ attempts' = [attempts EXCEPT ![BaseOf(t)] = AttemptOf(t) + 1]
              /\ Exited(t)'
<1>1. ASSUME NEW x \in Threads, NEW t \in Trades, ExitPaper(x, t)
      PROVE  t \in Used /\ attempts' = [attempts EXCEPT ![BaseOf(t)] = AttemptOf(t) + 1] /\ Exited(t)'
  <2>1. t \in Used /\ Paper /\ Forget(trade[t].key)
    BY <1>1 DEF ExitPaper, Submitting, ProcessInv, TypeOK, ExitsOK
  <2>2. pos'[t] = "none" /\ row'[t] = "CLOSED"
    BY <1>1 DEF ExitPaper, Remove, SetRow, ProcessInv, TypeOK, BookOK, RecordsOK
  <2> QED
    BY <2>1, <2>2 DEF Exited, Forget, BaseOf, AttemptOf
<1>2. ASSUME ExitFilled
      PROVE  \E t \in Used : /\ attempts' = [attempts EXCEPT ![BaseOf(t)] = AttemptOf(t) + 1]
                             /\ Exited(t)'
  <2> DEFINE t == rcur.trade
  <2>1. /\ rcur.doing = "exit" /\ rcur.report = "filled"
        /\ Forget(trade[t].key) /\ UNCHANGED <<trade, orders>>
    BY <1>2 DEF ExitFilled, Applying, ApplyUnchanged
  <2>2. t \in Used /\ t \in Trades
    BY <2>1 DEF ProcessInv, TypeOK, ReconcilerOK, Used
  <2>3. ~Paper
    BY <2>1 DEF ModesApart, NoJob
  <2>4. Exists(ExitId(t)) /\ orders[ExitId(t)].status = "filled"
    BY <2>1 DEF AnswersHold, PolledOrder, ExitId
  <2>5. pos'[t] = "none"
    BY <1>2, <2>2 DEF ExitFilled, Remove, ProcessInv, TypeOK, BookOK
  <2>6. ASSUME NEW u \in Used, u = t
        PROVE  Exited(u)'
    BY <2>1, <2>3, <2>4, <2>5, <2>6 DEF Exited, Exists, ExitId
  <2>7. attempts' = [attempts EXCEPT ![BaseOf(t)] = AttemptOf(t) + 1]
    BY <2>1 DEF Forget, BaseOf, AttemptOf
  <2> QED
    BY <2>2, <2>6, <2>7
<1> QED
  BY <1>1, <1>2, Steps
  DEF vars, keys, TakeKey, Poll, Dedup, SizingFails, Enter, FillPaper, CashHeld,
      InsufficientFunds, ReserveFails, ReserveMalformed, ReserveUnchanged, EntryAccepted,
      EntryFails, EntryMalformed, SubmitUnchanged, ReleaseAfterFailure, ClaimExits, Claim,
      ExitsDone, ExitAccepted, ExitFails, ExitMalformed, LogExit, Liquidate, Snapshot,
      PassOver, Fetch, FetchMalformed, PollUnchanged, EntryFilled, EntryDead, ExitDead,
      StillWorking, SettleHold, MarketFill, MarketKill, MarketUnchanged, CloseReached,
      NextDay, ClockUnchanged

\* Counters stay backed by trades that were sold, and so do the attempts made.
LEMMA CountersNext ==
  ASSUME IndInv, ModesApart, OwnOrders, AnswersHold, CountersBacked, ReentryAfterExit,
         [Next]_vars
  PROVE  CountersBacked' /\ ReentryAfterExit'
<1>1. attempts \in [Bases -> Nat]
  BY DEF ProcessInv, TypeOK, RecordsOK
<1>2. ASSUME NEW b \in Bases, attempts[b] > 0
      PROVE  \E u \in Used' : BaseOf(u)' = b /\ AttemptOf(u)' = attempts[b] - 1 /\ Exited(u)'
  <2>1. PICK u \in Used : BaseOf(u) = b /\ AttemptOf(u) = attempts[b] - 1 /\ Exited(u)
    BY <1>2 DEF CountersBacked
  <2>2. AttemptOf(u) < attempts[BaseOf(u)]
    BY <1>1, <2>1
  <2> QED
    BY <2>1, <2>2, EarlierExits
<1>3. ASSUME NEW b \in Bases, attempts'[b] > 0
      PROVE  \E u \in Used' : BaseOf(u)' = b /\ AttemptOf(u)' = attempts'[b] - 1 /\ Exited(u)'
  <2>1. CASE attempts'[b] = attempts[b]
    BY <1>2, <1>3, <2>1
  <2>2. CASE attempts'[b] # attempts[b]
    <3>1. PICK t \in Used : /\ attempts' = [attempts EXCEPT ![BaseOf(t)] = AttemptOf(t) + 1]
                            /\ Exited(t)'
      BY <2>2, CounterStep
    <3>2. BaseOf(t) = b /\ attempts'[b] = AttemptOf(t) + 1 /\ AttemptOf(t) \in Nat
      BY <1>1, <2>2, <3>1, UsedKeys DEF ProcessInv
    <3>3. t \in Used' /\ BaseOf(t)' = BaseOf(t) /\ AttemptOf(t)' = AttemptOf(t)
      BY TradesKept DEF ProcessInv
    <3>4. AttemptOf(t)' = attempts'[b] - 1
      BY <3>2, <3>3
    <3> QED
      BY <3>1, <3>2, <3>3, <3>4
  <2> QED
    BY <2>1, <2>2
<1>4. ASSUME NEW t \in Used', AttemptOf(t)' > 0
      PROVE  \E u \in Used' : /\ BaseOf(u)' = BaseOf(t)'
                              /\ AttemptOf(u)' = AttemptOf(t)' - 1
                              /\ Exited(u)'
  <2>1. CASE t \in Used
    <3>1. BaseOf(t)' = BaseOf(t) /\ AttemptOf(t)' = AttemptOf(t)
      BY <2>1, TradesKept DEF ProcessInv
    <3>2. PICK u \in Used : /\ BaseOf(u) = BaseOf(t) /\ AttemptOf(u) = AttemptOf(t) - 1
                            /\ Exited(u)
      BY <1>4, <2>1, <3>1 DEF ReentryAfterExit
    <3>3. AttemptOf(t) \in Nat /\ AttemptOf(t) =< attempts[BaseOf(t)] /\ attempts[BaseOf(t)] \in Nat
      BY <1>1, <2>1, UsedKeys DEF ProcessInv, CurrentKeys
    <3>4. AttemptOf(u) < attempts[BaseOf(u)]
      BY <3>2, <3>3
    <3> QED
      BY <3>1, <3>2, <3>4, EarlierExits
  <2>2. CASE t \notin Used
    <3>1. BaseOf(t)' \in Bases /\ AttemptOf(t)' = attempts[BaseOf(t)']
      BY <2>2, NewTrade
    <3> QED
      BY <1>2, <1>4, <3>1
  <2> QED
    BY <2>1, <2>2
<1> QED
  BY <1>3, <1>4 DEF CountersBacked, ReentryAfterExit

-----------------------------------------------------------------------------
(* Claims, and the orders the executor knows of                            *)

\* Initially nothing is claimed.
LEMMA ClaimsInit == Init => ClaimsOfAMessage /\ ClaimsAreServed
BY DEF Init, BookInit, ClaimsOfAMessage, ClaimsAreServed, Threads

\* What is claimed stays claimed until its exit was tried.
LEMMA ClaimsKept ==
  ASSUME ProcessInv, ClaimsOfAMessage, "malformed_reply" \notin Faults, [Next]_vars,
         NEW x \in Threads, NEW t \in claimed[x]
  PROVE  t \in claimed'[x] \/ ExitPaper(x, t) \/ ExitAccepted(x, t) \/ ExitFails(x, t)
<1>1. claimed \in [Threads -> SUBSET Used]
  BY DEF ProcessInv, TypeOK, ExitsOK
<1>2. CASE UNCHANGED claimed
  BY <1>2
<1>3. CASE ClaimExits \/ Liquidate
  BY <1>1, <1>3
  DEF ClaimExits, Liquidate, Claim, Submitted, ClaimsOfAMessage, Threads
<1>4. ASSUME NEW y \in Threads, NEW u \in Trades,
             ExitPaper(y, u) \/ ExitAccepted(y, u) \/ ExitFails(y, u)
      PROVE  t \in claimed'[x] \/ (x = y /\ t = u)
  BY <1>1, <1>4 DEF ExitPaper, ExitAccepted, ExitFails, Handled
<1> QED
  BY <1>2, <1>3, <1>4, Steps
  DEF vars, exits, Poll, Dedup, SizingFails, Enter, FillPaper, CashHeld, InsufficientFunds,
      ReserveFails, ReserveMalformed, ReserveUnchanged, EntryAccepted, EntryFails,
      EntryMalformed, SubmitUnchanged, ReleaseAfterFailure, ExitsDone, ExitMalformed, LogExit,
      Snapshot, PassOver, Fetch, FetchMalformed, PollUnchanged, EntryFilled, EntryDead,
      ExitFilled, ExitDead, StillWorking, SettleHold, ApplyUnchanged, MarketFill, MarketKill,
      MarketUnchanged, CloseReached, NextDay, ClockUnchanged

\* The consumer claims when it turns to the exits, and leaves none behind.
LEMMA MessageClaims ==
  ASSUME ProcessInv, ClaimsOfAMessage, [Next]_vars
  PROVE  ClaimsOfAMessage'
<1>1. claimed \in [Threads -> SUBSET Used] /\ "consumer" \in Threads
  BY DEF ProcessInv, TypeOK, ExitsOK, Threads
<1>2. CASE UNCHANGED claimed /\ (UNCHANGED pc \/ pc # "exits" \/ ExitsDone)
  BY <1>2 DEF ClaimsOfAMessage, ExitsDone, Submitted
<1>3. CASE ClaimExits
  BY <1>3 DEF ClaimExits, ClaimsOfAMessage
<1>4. CASE Liquidate
  BY <1>1, <1>4 DEF Liquidate, Claim, consumer, ClaimsOfAMessage
<1>5. ASSUME NEW x \in Threads, NEW t \in Trades,
             ExitPaper(x, t) \/ ExitAccepted(x, t) \/ ExitFails(x, t)
      PROVE  ClaimsOfAMessage'
  BY <1>1, <1>5 DEF ExitPaper, ExitAccepted, ExitFails, Handled, consumer, ClaimsOfAMessage
<1>6. ASSUME NEW x \in Threads, NEW t \in Trades, ExitMalformed(x, t)
      PROVE  ClaimsOfAMessage'
  BY <1>1, <1>6 DEF ExitMalformed, SkipMessage, MessageDone, consumer, ClaimsOfAMessage
<1> QED
  BY <1>2, <1>3, <1>4, <1>5, <1>6, Steps
  DEF vars, exits, consumer, Poll, Dedup, SizingFails, Enter, FillPaper, CashHeld,
      InsufficientFunds, ReserveFails, ReserveMalformed, ReserveUnchanged, EntryAccepted,
      EntryFails, EntryMalformed, SubmitUnchanged, ReleaseAfterFailure, ExitsDone, LogExit,
      Snapshot, PassOver, Fetch, FetchMalformed, PollUnchanged, EntryFilled, EntryDead,
      ExitFilled, ExitDead, StillWorking, SettleHold, ApplyUnchanged, MarketFill, MarketKill,
      MarketUnchanged, CloseReached, NextDay, ClockUnchanged

\* As long as replies validate, no EXITING position is left without an owner.
LEMMA ClaimsNext ==
  ASSUME IndInv, ClaimsOfAMessage, ClaimsAreServed, "malformed_reply" \notin Faults,
         [Next]_vars
  PROVE  ClaimsAreServed'
<1> SUFFICES ASSUME NEW t \in Trades, pos'[t] = "EXITING", exitOrder'[t] = NoId
             PROVE  \E x \in Threads : t \in claimed'[x]
  BY DEF ClaimsAreServed
<1>1. /\ pos \in [Trades -> PositionState \cup {"none"}]
      /\ exitOrder \in [Trades -> OrderIds \cup {NoId}]
  BY DEF ProcessInv, TypeOK, BookOK
<1>2. ASSUME NEW x \in Threads
      PROVE  ~(ExitPaper(x, t) \/ ExitAccepted(x, t) \/ ExitFails(x, t))
  <2>1. ASSUME ExitAccepted(x, t)
        PROVE  FALSE
    <3>1. t \in Used /\ exitOrder'[t] = ExitId(t)
      BY <1>1, <2>1 DEF ExitAccepted, Submitting, ProcessInv, TypeOK, ExitsOK
    <3> QED
      BY <3>1, OwnIds
  <2> QED
    BY <1>1, <2>1 DEF ExitPaper, ExitFails, Remove, ReleaseExit
<1>3. CASE pos'[t] = pos[t] /\ exitOrder'[t] = exitOrder[t]
  <2>1. PICK x \in Threads : t \in claimed[x]
    BY <1>3 DEF ClaimsAreServed
  <2> QED
    BY <1>2, <2>1, ClaimsKept
<1>4. ~(t = cur /\ (FillPaper \/ EntryAccepted))
  BY <1>1 DEF FillPaper, EntryAccepted, Open
<1>5. ~(t = rcur.trade /\ (EntryFilled \/ EntryDead \/ ExitFilled \/ ExitDead))
  BY <1>1 DEF EntryFilled, EntryDead, ExitFilled, ExitDead, MarkOpen, Remove, ReleaseExit
<1> QED
  BY <1>2, <1>3, <1>4, <1>5, BookStep

\* Initially no order works.
LEMMA KnownInit == Init => OrdersKnown
BY DEF Init, OrdersKnown, Used

\* When no reply is lost and every reply validates, a new order is one that the
\* executor has recorded.
LEMMA NewOrdersKnown ==
  ASSUME ProcessInv, "lost_reply" \notin Faults, "malformed_reply" \notin Faults, [Next]_vars,
         NEW o \in DOMAIN orders', o \notin DOMAIN orders
  PROVE  \/ EntryAccepted /\ o = EntryId(cur)
         \/ \E x \in Threads, t \in Trades : ExitAccepted(x, t) /\ o = ExitId(t)
<1>1. ASSUME NEW c, NEW q, Accept(c, q)
      PROVE  o = c
  BY <1>1 DEF Accept, Put
<1>2. ASSUME NEW c \in DOMAIN orders, (\E n \in 1 .. orders[c].qty : Fill(c, n)) \/ Kill(c)
      PROVE  FALSE
  BY <1>2 DEF Fill, Kill, Put
<1>3. EntryAccepted => o = EntryId(cur)
  BY <1>1 DEF EntryAccepted
<1>4. ASSUME NEW x \in Threads, NEW t \in Trades, ExitAccepted(x, t)
      PROVE  o = ExitId(t)
  BY <1>1, <1>4 DEF ExitAccepted
<1>5. ~ UNCHANGED orders
  OBVIOUS
<1> QED
  BY <1>2, <1>3, <1>4, <1>5, Steps
  DEF vars, Poll, Dedup, SizingFails, Enter, FillPaper, CashHeld, InsufficientFunds,
      ReserveFails, ReserveMalformed, ReserveUnchanged, EntryFails, EntryMalformed,
      SubmissionFails, ReleaseAfterFailure, ClaimExits, Liquidate, Claim, ExitsDone, ExitPaper,
      ExitFails, ExitMalformed, LogExit, Snapshot, PassOver, Fetch, FetchMalformed,
      PollUnchanged, EntryFilled, EntryDead, ExitFilled, ExitDead, StillWorking, SettleHold,
      ApplyUnchanged, MarketFill, MarketKill, CloseReached, NextDay, ClockUnchanged

\* The executor goes on knowing an order that it knew and that still works.
LEMMA OrdersKept ==
  ASSUME ProcessInv, AnswersHold, ModesApart, [Next]_vars, NEW t \in Used
  PROVE  /\ Working(EntryId(t)) /\ pos[t] = "PENDING_ENTRY" /\ entryOrder[t] = EntryId(t) =>
              pos'[t] = "PENDING_ENTRY" /\ entryOrder'[t] = EntryId(t)
         /\ Working(ExitId(t)) /\ pos[t] = "EXITING" /\ exitOrder[t] = ExitId(t) =>
              pos'[t] = "EXITING" /\ exitOrder'[t] = ExitId(t)
<1>1. t \in Trades /\ ExitId(t) # NoId
  BY IdShape DEF Used, ProcessInv
<1>2. ASSUME pos[t] # "none"
      PROVE  t # cur
  BY <1>2, TradeAssumption DEF ProcessInv, EntryUntracked, Used
<1>3. ASSUME NEW x \in Threads, ExitPaper(x, t) \/ ExitAccepted(x, t) \/ ExitFails(x, t)
      PROVE  pos[t] = "EXITING" /\ exitOrder[t] = NoId
  <2>1. t \in claimed[x]
    BY <1>3 DEF ExitPaper, ExitAccepted, ExitFails, Submitting
  <2> QED
    BY <2>1 DEF ProcessInv, ExclusiveExit
<1>4. ASSUME EntryFilled \/ EntryDead, t = rcur.trade
      PROVE  pos[t] = "PENDING_ENTRY" /\ ~Working(EntryId(t))
  <2>1. rcur.doing = "entry" /\ rcur.report \in {"filled", "dead"}
    BY <1>4 DEF EntryFilled, EntryDead, Applying
  <2>2. PolledOrder = EntryId(t)
    BY <1>4, <2>1 DEF PolledOrder, EntryId
  <2> QED
    BY <1>4, <2>1, <2>2 DEF AnswersHold, Working, ProcessInv, PolledPositions
<1>5. ASSUME ExitFilled \/ ExitDead, t = rcur.trade
      PROVE  pos[t] = "EXITING" /\ ~Working(ExitId(t))
  <2>1. rcur.doing = "exit" /\ rcur.report \in {"filled", "dead"}
    BY <1>5 DEF ExitFilled, ExitDead, Applying
  <2>2. PolledOrder = ExitId(t)
    BY <1>5, <2>1 DEF PolledOrder, ExitId
  <2> QED
    BY <1>5, <2>1, <2>2 DEF AnswersHold, Working, ProcessInv, PolledPositions
<1> QED
  BY <1>1, <1>2, <1>3, <1>4, <1>5, BookStep

\* An order that works is known.
LEMMA KnownNext ==
  ASSUME IndInv, AnswersHold, ModesApart, OrdersKnown,
         "lost_reply" \notin Faults, "malformed_reply" \notin Faults, [Next]_vars
  PROVE  OrdersKnown'
<1> SUFFICES ASSUME NEW t \in Used'
             PROVE  /\ Working(EntryId(t))' =>
                         pos'[t] = "PENDING_ENTRY" /\ entryOrder'[t] = EntryId(t)'
                    /\ Working(ExitId(t))' =>
                         pos'[t] = "EXITING" /\ exitOrder'[t] = ExitId(t)'
  BY DEF OrdersKnown
<1>1. CASE t \notin Used
  BY <1>1, NewTrades DEF Working, Exists
<1>2. CASE t \in Used
  <2>1. EntryId(t)' = EntryId(t) /\ ExitId(t)' = ExitId(t)
    BY <1>2, TradesKept DEF ProcessInv
  <2>2. /\ pos \in [Trades -> PositionState \cup {"none"}]
        /\ entryOrder \in [Trades -> OrderIds \cup {NoId}]
        /\ exitOrder \in [Trades -> OrderIds \cup {NoId}]
        /\ t \in Trades
    BY <1>2 DEF ProcessInv, TypeOK, BookOK, Used
  <2>3. ASSUME NEW o \in DOMAIN orders, Working(o)'
        PROVE  Working(o)
    BY <2>3, OrdersGrow DEF ProcessInv, Working, Exists
  <2>4. ASSUME Working(EntryId(t))'
        PROVE  pos'[t] = "PENDING_ENTRY" /\ entryOrder'[t] = EntryId(t)
    <3>1. EntryId(t) \in DOMAIN orders'
      BY <2>1, <2>4 DEF Working, Exists
    <3>2. CASE EntryId(t) \in DOMAIN orders
      <4>1. Working(EntryId(t))
        BY <2>1, <2>3, <2>4, <3>2 DEF Working, Exists
      <4> QED
        BY <1>2, <4>1, OrdersKept DEF OrdersKnown
    <3>3. CASE EntryId(t) \notin DOMAIN orders
      <4>1. EntryAccepted /\ EntryId(t) = EntryId(cur)
        BY <1>2, <3>1, <3>3, NewOrdersKnown, OwnIds
        DEF ExitAccepted, Submitting, ProcessInv, TypeOK, ExitsOK
      <4>2. t = cur
        BY <1>2, <4>1, OwnIds DEF EntryAccepted, ProcessInv, TypeOK, ConsumerOK
      <4> QED
        BY <2>2, <4>1, <4>2 DEF EntryAccepted, Open
    <3> QED
      BY <3>2, <3>3
  <2>5. ASSUME Working(ExitId(t))'
        PROVE  pos'[t] = "EXITING" /\ exitOrder'[t] = ExitId(t)
    <3>1. ExitId(t) \in DOMAIN orders'
      BY <2>1, <2>5 DEF Working, Exists
    <3>2. CASE ExitId(t) \in DOMAIN orders
      <4>1. Working(ExitId(t))
        BY <2>1, <2>3, <2>5, <3>2 DEF Working, Exists
      <4> QED
        BY <1>2, <4>1, OrdersKept DEF OrdersKnown
    <3>3. CASE ExitId(t) \notin DOMAIN orders
      <4>1. ~(EntryAccepted /\ ExitId(t) = EntryId(cur))
        BY <1>2, OwnIds DEF EntryAccepted, ProcessInv, TypeOK, ConsumerOK
      <4>2. PICK x \in Threads, u \in Trades : ExitAccepted(x, u) /\ ExitId(t) = ExitId(u)
        BY <3>1, <3>3, <4>1, NewOrdersKnown
      <4>3. u \in claimed[x] /\ u \in Used
        BY <4>2 DEF ExitAccepted, Submitting, ProcessInv, TypeOK, ExitsOK
      <4>4. t = u
        BY <1>2, <4>2, <4>3, OwnIds
      <4> QED
        BY <2>2, <4>2, <4>3, <4>4 DEF ExitAccepted, ProcessInv, ExclusiveExit
    <3> QED
      BY <3>2, <3>3
  <2> QED
    BY <2>1, <2>4, <2>5
<1> QED
  BY <1>1, <1>2

-----------------------------------------------------------------------------
(* Live rows                                                               *)

\* Initially there are no rows.
LEMMA RowsInit == Init => RowsFit
BY DEF Init, BookInit, RowsFit, Threads

\* What the reconciler applies is about the entry of a pending position or the exit
\* of one that is being sold.
LEMMA AppliedPosition ==
  ASSUME ProcessInv, AnswersHold,
         EntryFilled \/ EntryDead \/ ExitFilled \/ ExitDead \/ StillWorking
  PROVE  /\ rcur.trade \in Used
         /\ \/ /\ rcur.doing = "entry" /\ pos[rcur.trade] = "PENDING_ENTRY"
               /\ entryOrder[rcur.trade] # NoId
            \/ rcur.doing = "exit" /\ pos[rcur.trade] = "EXITING"
<1>1. rcur.report # "none"
  BY DEF EntryFilled, EntryDead, ExitFilled, ExitDead, StillWorking, Applying
<1>2. rcur.doing \in {"entry", "exit"}
  <2>1. rcur \in Job /\ rcur.doing # "none"
    BY <1>1 DEF AnswersHold, ProcessInv, TypeOK, ReconcilerOK
  <2>2. rcur.doing \notin {"capture", "release"}
    BY DEF AnswersHold, EntryFilled, EntryDead, ExitFilled, ExitDead, StillWorking, Applying
  <2> QED
    BY <2>1, <2>2 DEF Job
<1> QED
  BY <1>2 DEF ProcessInv, PolledPositions, TypeOK, ReconcilerOK

\* What a step may do to the row of a live trade.
LEMMA RowMove ==
  ASSUME ProcessInv, ModesApart, AnswersHold, RowsFit, ~Paper, [Next]_vars,
         NEW t \in Trades, row'[t] # row[t]
  PROVE  /\ RowMayBecome(row[t], row'[t])
         /\ \/ t \notin Used /\ t \in Used' /\ row'[t] = "NEW" /\ t = cur'
            \/ t = cur /\ CashHeld /\ row'[t] = "CASH_HELD"
            \/ t = cur /\ EntryAccepted /\ row'[t] = "SUBMITTED"
            \/ t = cur /\ (InsufficientFunds \/ ReserveFails \/ EntryFails)
            \/ BoughtRow(t) /\ BoughtRow(t)'
            \/ pos[t] = "PENDING_ENTRY" /\ row'[t] = "PARTIALLY_FILLED"
            \/ pos[t] = "PENDING_ENTRY" /\ pos'[t] = "OPEN" /\ row'[t] = "FILLED"
            \/ pos[t] = "PENDING_ENTRY" /\ pos'[t] = "none" /\ row'[t] = "REJECTED"
<1> USE DEF SetRow
<1>1. row \in [Trades -> TradeStatus] /\ pos \in [Trades -> PositionState \cup {"none"}]
  BY DEF ProcessInv, TypeOK, RecordsOK, BookOK
<1>2. ASSUME NEW e \in todo, Enter(e, t)
      PROVE  /\ row[t] = "none" /\ row'[t] = "NEW" /\ t = cur'
             /\ t \notin Used /\ t \in Used'
  <2>1. t \notin Used /\ row'[t] = "NEW" /\ t = cur'
    BY <1>1, <1>2 DEF Enter, Unused
  <2>2. TypeOK'
    BY TypeNext DEF ProcessInv
  <2>3. cur' \in Used' \cup {NoTrade} /\ t # NoTrade
    BY <2>2, TradeAssumption DEF TypeOK, ConsumerOK
  <2> QED
    BY <2>1, <2>3 DEF RowsFit
<1>3. ASSUME t = cur, FillPaper \/ CashHeld \/ InsufficientFunds \/ ReserveFails
                      \/ EntryAccepted \/ EntryFails
      PROVE  /\ RowMayBecome(row[t], row'[t])
             /\ \/ CashHeld /\ row'[t] = "CASH_HELD"
                \/ EntryAccepted /\ row'[t] = "SUBMITTED"
                \/ InsufficientFunds \/ ReserveFails \/ EntryFails
  <2>1. ~FillPaper
    BY DEF FillPaper, ModesApart
  <2>2. CASE CashHeld \/ InsufficientFunds \/ ReserveFails
    BY <1>1, <1>3, <2>2
    DEF CashHeld, InsufficientFunds, ReserveFails, RowsFit, RowMayBecome, EntryStep, BoughtStatuses
  <2>3. CASE EntryAccepted \/ EntryFails
    BY <1>1, <1>3, <2>3 DEF EntryAccepted, EntryFails, RowsFit, RowMayBecome, EntryStep, BoughtStatuses
  <2> QED
    BY <1>3, <2>1, <2>2, <2>3
<1>4. ASSUME BoughtRow(t), row'[t] \in {"CLOSED"} \cup ExitStatuses
      PROVE  RowMayBecome(row[t], row'[t]) /\ BoughtRow(t)'
  BY <1>4 DEF BoughtRow, RowMayBecome, EntryStep, BoughtStatuses, ExitStatuses
<1>5. ASSUME NEW x \in Threads, ExitPaper(x, t) \/ ExitFails(x, t)
      PROVE  BoughtRow(t) /\ row'[t] \in {"CLOSED"} \cup ExitStatuses
  <2>1. t \in claimed[x] /\ row'[t] = "EXIT_FAILED"
    BY <1>1, <1>5 DEF ExitPaper, ExitFails, Submitting
  <2> QED
    BY <2>1 DEF ProcessInv, ExclusiveExit, RowsFit, ExitStatuses
<1>6. ASSUME NEW x \in Threads, LogExit(x), t = unlogged[x]
      PROVE  BoughtRow(t) /\ row'[t] \in {"CLOSED"} \cup ExitStatuses
  BY <1>1, <1>6 DEF LogExit, RowsFit, ExitStatuses
<1>7. ASSUME t = rcur.trade, EntryFilled \/ EntryDead
      PROVE  /\ pos[t] = "PENDING_ENTRY" /\ RowMayBecome(row[t], row'[t])
             /\ \/ pos'[t] = "OPEN" /\ row'[t] = "FILLED"
                \/ pos'[t] = "none" /\ row'[t] = "REJECTED"
  <2>1. pos[t] = "PENDING_ENTRY" /\ entryOrder[t] # NoId
    BY <1>7, AppliedPosition DEF EntryFilled, EntryDead, Applying
  <2>2. \/ pos'[t] = "OPEN" /\ row'[t] = "FILLED"
        \/ pos'[t] = "none" /\ row'[t] = "REJECTED"
    BY <1>1, <1>7 DEF EntryFilled, EntryDead, MarkOpen, Remove
  <2> QED
    BY <2>1, <2>2 DEF RowsFit, RowMayBecome, EntryStep, BoughtStatuses
<1>8. ASSUME t = rcur.trade, ExitFilled \/ ExitDead
      PROVE  BoughtRow(t) /\ row'[t] \in {"CLOSED"} \cup ExitStatuses
  <2>1. pos[t] = "EXITING"
    BY <1>8, AppliedPosition DEF ExitFilled, ExitDead, Applying
  <2>2. row'[t] \in {"CLOSED", "EXIT_FAILED"}
    BY <1>1, <1>8 DEF ExitFilled, ExitDead
  <2> QED
    BY <2>1, <2>2 DEF RowsFit, ExitStatuses
<1>9. ASSUME t = rcur.trade, StillWorking
      PROVE  \/ /\ pos[t] = "PENDING_ENTRY" /\ row'[t] = "PARTIALLY_FILLED"
                /\ RowMayBecome(row[t], row'[t])
             \/ BoughtRow(t) /\ row'[t] \in {"CLOSED"} \cup ExitStatuses
  <2>1. row'[t] = PartialStatus
    BY <1>1, <1>9 DEF StillWorking
  <2>2. CASE rcur.doing = "entry"
    <3>1. pos[t] = "PENDING_ENTRY" /\ entryOrder[t] # NoId /\ row'[t] = "PARTIALLY_FILLED"
      BY <1>9, <2>1, <2>2, AppliedPosition DEF PartialStatus
    <3> QED
      BY <3>1 DEF RowsFit, RowMayBecome, EntryStep, BoughtStatuses
  <2>3. CASE rcur.doing = "exit"
    BY <1>9, <2>1, <2>3, AppliedPosition DEF PartialStatus, RowsFit, ExitStatuses
  <2> QED
    BY <1>9, <2>2, <2>3, AppliedPosition
<1> QED
  BY <1>2, <1>3, <1>4, <1>5, <1>6, <1>7, <1>8, <1>9, RowStep DEF RowMayBecome, EntryStep, BoughtStatuses

\* The row of a position that was bought stays one.
LEMMA BoughtKept ==
  ASSUME ProcessInv, ModesApart, AnswersHold, RowsFit, ~Paper, [Next]_vars,
         NEW t \in Trades, BoughtRow(t)
  PROVE  BoughtRow(t)'
<1>1. row[t] \notin {"none", "NEW", "CASH_HELD", "SUBMITTED", "PARTIALLY_FILLED"}
  BY DEF BoughtRow, ExitStatuses
<1>2. t \in Used /\ pos[t] # "PENDING_ENTRY"
  BY <1>1 DEF RowsFit
<1>3. ~(t = cur /\ (CashHeld \/ EntryAccepted \/ InsufficientFunds \/ ReserveFails \/ EntryFails))
  BY <1>1
  DEF RowsFit, CashHeld, EntryAccepted, InsufficientFunds, ReserveFails, EntryFails
<1>4. CASE row'[t] = row[t]
  BY <1>4 DEF BoughtRow
<1>5. CASE row'[t] # row[t]
  BY <1>2, <1>3, <1>5, RowMove
<1> QED
  BY <1>4, <1>5

\* The row of the trade that is being opened is moved by the consumer alone.
LEMMA EntryRow ==
  ASSUME ProcessInv, ModesApart, AnswersHold, RowsFit, ~Paper, [Next]_vars
  PROVE  /\ pc' \in {"fill", "reserve"} => row'[cur'] = "NEW"
         /\ pc' = "submit" => row'[cur'] = "CASH_HELD"
<1>1. row \in [Trades -> TradeStatus]
  BY DEF ProcessInv, TypeOK, RecordsOK
<1>2. ASSUME UNCHANGED <<pc, cur>>, pc \in {"reserve", "submit"}
      PROVE  row'[cur] = row[cur]
  <2>1. cur \in Used /\ cur \in Trades /\ pos[cur] = "none"
    BY <1>2, TradeAssumption DEF ProcessInv, EntryUntracked, TypeOK, ConsumerOK, Used
  <2>2. ~BoughtRow(cur)
    BY <1>2 DEF RowsFit, BoughtRow, ExitStatuses
  <2>3. ~(CashHeld \/ EntryAccepted \/ InsufficientFunds \/ ReserveFails \/ EntryFails)
    BY <1>2
    DEF CashHeld, EntryAccepted, InsufficientFunds, ReserveFails, EntryFails, EntryDone
  <2> QED
    BY <2>1, <2>2, <2>3, RowMove
<1>3. CASE UNCHANGED <<pc, cur>>
  <2>1. pc # "fill"
    BY DEF ModesApart
  <2> QED
    BY <1>2, <1>3, <2>1 DEF RowsFit
<1>4. ASSUME NEW e \in todo, NEW t \in Trades, Enter(e, t)
      PROVE  pc' # "submit" /\ row'[cur'] = "NEW"
  BY <1>1, <1>4 DEF Enter, SetRow
<1>5. CASE CashHeld
  <2>1. cur \in Trades
    BY <1>5 DEF CashHeld, ProcessInv, TypeOK, ConsumerOK, Used
  <2> QED
    BY <1>1, <1>5, <2>1 DEF CashHeld, SetRow
<1>6. CASE EntryFails
  BY <1>6 DEF EntryFails
<1> QED
  BY <1>3, <1>4, <1>5, <1>6, ConsumerStep

\* A row stays where its position in the book expects it.
LEMMA BookRow ==
  ASSUME ProcessInv, ModesApart, AnswersHold, RowsFit, ~Paper, [Next]_vars, NEW t \in Trades
  PROVE  /\ pos'[t] = "PENDING_ENTRY" =>
              \/ row'[t] \in {"SUBMITTED", "PARTIALLY_FILLED"}
              \/ row'[t] = "CASH_HELD" /\ entryOrder'[t] = NoId
         /\ pos'[t] \in {"OPEN", "EXITING"} => BoughtRow(t)'
<1>1. /\ row \in [Trades -> TradeStatus] /\ pos \in [Trades -> PositionState \cup {"none"}]
      /\ t # NoTrade
  BY TradeAssumption DEF ProcessInv, TypeOK, RecordsOK, BookOK
<1>2. pos[t] # "none" => t # cur /\ t \in Used
  BY <1>1 DEF ProcessInv, EntryUntracked, TypeOK, BookOK, Tracked
<1>3. CASE pos[t] = "PENDING_ENTRY"
  <2>1. \/ pos'[t] = "PENDING_ENTRY" /\ entryOrder'[t] = entryOrder[t]
        \/ pos'[t] = "none"
        \/ EntryFilled /\ t = rcur.trade
    <3>1. ASSUME NEW x \in Threads
          PROVE  ~(ExitPaper(x, t) \/ ExitAccepted(x, t) \/ ExitFails(x, t))
      BY <1>3 DEF ExitPaper, ExitAccepted, ExitFails, Submitting, ProcessInv, ExclusiveExit
    <3>2. ASSUME EntryDead, t = rcur.trade
          PROVE  pos'[t] = "none"
      BY <1>1, <3>2 DEF EntryDead, Remove
    <3>3. ~(t = rcur.trade /\ (ExitFilled \/ ExitDead))
      BY <1>3 DEF ExitFilled, ExitDead, Applying, ProcessInv, PolledPositions
    <3> QED
      BY <1>2, <1>3, <3>1, <3>2, <3>3, BookStep
  <2>2. CASE EntryFilled /\ t = rcur.trade
    BY <1>1, <2>2 DEF EntryFilled, MarkOpen, SetRow, BoughtRow
  <2>3. CASE pos'[t] = "PENDING_ENTRY"
    <3>1. /\ row[t] \in {"SUBMITTED", "PARTIALLY_FILLED", "CASH_HELD"} /\ ~BoughtRow(t)
          /\ row[t] = "CASH_HELD" => entryOrder[t] = NoId
      BY <1>3 DEF RowsFit, BoughtRow, ExitStatuses
    <3>2. entryOrder'[t] = entryOrder[t]
      BY <1>1, <2>1, <2>3 DEF EntryFilled, MarkOpen
    <3> QED
      BY <1>2, <1>3, <2>3, <3>1, <3>2, RowMove
  <2> QED
    BY <2>1, <2>2, <2>3
<1>4. CASE pos[t] \in {"OPEN", "EXITING"}
  <2>1. BoughtRow(t)'
    BY <1>4, BoughtKept DEF RowsFit
  <2>2. ~(t = cur /\ EntryAccepted)
    BY <1>2, <1>4
  <2>3. pos'[t] # "PENDING_ENTRY"
    BY <1>1, <1>2, <1>4, BookStep
    DEF FillPaper, EntryAccepted, ExitPaper, ExitAccepted, ExitFails, EntryFilled, EntryDead,
        ExitFilled, ExitDead, Open, Remove, MarkOpen, ReleaseExit
  <2> QED
    BY <2>1, <2>3
<1>5. CASE pos[t] = "none"
  <2>1. pos'[t] = "none" \/ (t = cur /\ EntryAccepted)
    <3>1. ASSUME NEW x \in Threads
          PROVE  ~(ExitPaper(x, t) \/ ExitAccepted(x, t) \/ ExitFails(x, t))
      BY <1>5 DEF ExitPaper, ExitAccepted, ExitFails, Submitting, ProcessInv, ExclusiveExit
    <3>2. ~(t = rcur.trade /\ (EntryFilled \/ EntryDead \/ ExitFilled \/ ExitDead))
      BY <1>5
      DEF EntryFilled, EntryDead, ExitFilled, ExitDead, Applying, ProcessInv, PolledPositions
    <3>3. ~FillPaper
      BY DEF FillPaper, ModesApart
    <3> QED
      BY <1>5, <3>1, <3>2, <3>3, BookStep
  <2>2. CASE t = cur /\ EntryAccepted
    BY <1>1, <2>2 DEF EntryAccepted, Open, SetRow
  <2> QED
    BY <2>1, <2>2
<1> QED
  BY <1>1, <1>3, <1>4, <1>5 DEF PositionState

\* Rows stay where the threads that write them next expect them.
LEMMA RowsNext ==
  ASSUME ProcessInv, ModesApart, AnswersHold, RowsFit, ~Paper, [Next]_vars
  PROVE  RowsFit'
<1>1. ASSUME NEW t \in Trades \ Used'
      PROVE  row'[t] = "none"
  <2>1. t \notin Used
    BY TradesKept DEF ProcessInv
  <2>2. row[t] = "none" /\ ~BoughtRow(t) /\ pos[t] # "PENDING_ENTRY"
    BY <2>1 DEF RowsFit, BoughtRow, ExitStatuses, ProcessInv, TypeOK, BookOK, Tracked
  <2>3. ~(t = cur /\ (CashHeld \/ EntryAccepted \/ InsufficientFunds \/ ReserveFails \/ EntryFails))
    BY <2>1
    DEF CashHeld, EntryAccepted, InsufficientFunds, ReserveFails, EntryFails, ProcessInv, TypeOK,
        ConsumerOK
  <2> QED
    BY <1>1, <2>1, <2>2, <2>3, RowMove
<1>2. ASSUME NEW x \in Threads, unlogged'[x] # NoTrade
      PROVE  BoughtRow(unlogged[x])'
  <2>1. /\ unlogged \in [Threads -> Used \cup {NoTrade}]
        /\ row \in [Trades -> TradeStatus]
    BY DEF ProcessInv, TypeOK, ExitsOK, RecordsOK
  <2>2. \A t \in Trades : BoughtRow(t) => BoughtRow(t)'
    BY BoughtKept
  <2>3. CASE unlogged'[x] = unlogged[x]
    <3>1. unlogged[x] \in Trades /\ BoughtRow(unlogged[x])
      BY <1>2, <2>1, <2>3 DEF RowsFit, Used
    <3> QED
      BY <2>2, <2>3, <3>1 DEF BoughtRow
  <2>4. ASSUME NEW y \in Threads, NEW t \in Trades, ExitAccepted(y, t), unlogged'[x] # unlogged[x]
        PROVE  BoughtRow(unlogged[x])'
    <3>1. unlogged'[x] = t /\ t \in claimed[y]
      BY <2>1, <2>4 DEF ExitAccepted, Submitting
    <3>2. BoughtRow(t)
      BY <3>1 DEF ProcessInv, ExclusiveExit, RowsFit
    <3> QED
      BY <2>2, <3>1, <3>2 DEF BoughtRow
  <2>5. ASSUME NEW y \in Threads, LogExit(y)
        PROVE  unlogged'[x] = unlogged[x]
    BY <1>2, <2>1, <2>5 DEF LogExit
  <2> QED
    BY <2>3, <2>4, <2>5, Steps
    DEF vars, exits, Poll, Dedup, SizingFails, Enter, FillPaper, CashHeld, InsufficientFunds,
        ReserveFails, ReserveMalformed, ReserveUnchanged, EntryAccepted, EntryFails,
        EntryMalformed, SubmitUnchanged, ReleaseAfterFailure, ClaimExits, Claim, ExitsDone,
        ExitPaper, ExitFails, ExitMalformed, Liquidate, Snapshot, PassOver, Fetch,
        FetchMalformed, PollUnchanged, EntryFilled, EntryDead, ExitFilled, ExitDead,
        StillWorking, SettleHold, ApplyUnchanged, MarketFill, MarketKill, MarketUnchanged,
        CloseReached, NextDay, ClockUnchanged
<1> QED
  BY <1>1, <1>2, EntryRow, BookRow DEF RowsFit

\* An exit order is forgotten as unwritten only when it is written.
LEMMA UnwrittenStep ==
  ASSUME ProcessInv, [Next]_vars, NEW x \in Threads
  PROVE  \/ unlogged'[x] = unlogged[x]
         \/ unlogged[x] = NoTrade
         \/ LogExit(x) /\ row' = [row EXCEPT ![unlogged[x]] = "EXIT_SUBMITTED"]
<1>1. unlogged \in [Threads -> Used \cup {NoTrade}]
  BY DEF ProcessInv, TypeOK, ExitsOK
<1>2. ASSUME NEW y \in Threads, NEW t \in Trades, ExitAccepted(y, t)
      PROVE  unlogged'[x] = unlogged[x] \/ unlogged[x] = NoTrade
  BY <1>1, <1>2 DEF ExitAccepted, Submitting
<1>3. ASSUME NEW y \in Threads, LogExit(y)
      PROVE  \/ unlogged'[x] = unlogged[x]
             \/ LogExit(x) /\ row' = [row EXCEPT ![unlogged[x]] = "EXIT_SUBMITTED"]
  BY <1>1, <1>3 DEF LogExit, SetRow
<1> QED
  BY <1>2, <1>3, Steps
  DEF vars, exits, Poll, Dedup, SizingFails, Enter, FillPaper, CashHeld, InsufficientFunds,
      ReserveFails, ReserveMalformed, ReserveUnchanged, EntryAccepted, EntryFails,
      EntryMalformed, SubmitUnchanged, ReleaseAfterFailure, ClaimExits, Claim, ExitsDone,
      ExitPaper, ExitFails, ExitMalformed, Liquidate, Snapshot, PassOver, Fetch,
      FetchMalformed, PollUnchanged, EntryFilled, EntryDead, ExitFilled, ExitDead,
      StillWorking, SettleHold, ApplyUnchanged, MarketFill, MarketKill, MarketUnchanged,
      CloseReached, NextDay, ClockUnchanged

\* What a step may do to the row of a live trade that was bought.
LEMMA BoughtRowStep ==
  ASSUME ProcessInv, ModesApart, AnswersHold, RowsFit, ~Paper, [Next]_vars,
         NEW t \in Trades, BoughtRow(t), row'[t] # row[t]
  PROVE  \/ \E x \in Threads :
              LogExit(x) /\ t = unlogged[x] /\ row'[t] = "EXIT_SUBMITTED"
         \/ /\ row'[t] = "EXIT_FAILED" /\ pos[t] = "EXITING" /\ exitOrder[t] = NoId
            /\ \E x \in Threads : ExitFails(x, t)
         \/ /\ t = rcur.trade /\ pos[t] = "EXITING" /\ exitOrder[t] # NoId
            /\ \/ ExitFilled /\ row'[t] = "CLOSED"
               \/ ExitDead /\ row'[t] = "EXIT_FAILED"
               \/ StillWorking /\ row'[t] = "EXIT_PARTIALLY_FILLED"
<1> USE DEF SetRow
<1>1. row \in [Trades -> TradeStatus] /\ t \in Used /\ pos[t] # "PENDING_ENTRY"
  BY DEF ProcessInv, TypeOK, RecordsOK, RowsFit, BoughtRow, ExitStatuses
<1>2. ~\E e \in todo : Enter(e, t)
  BY <1>1 DEF Enter, Unused
<1>3. ~(t = cur /\ (\/ FillPaper \/ CashHeld \/ InsufficientFunds \/ ReserveFails
                    \/ EntryAccepted \/ EntryFails))
  BY DEF RowsFit, BoughtRow, ExitStatuses, ModesApart, FillPaper, CashHeld,
         InsufficientFunds, ReserveFails, EntryAccepted, EntryFails
<1>4. ASSUME NEW x \in Threads, ExitPaper(x, t) \/ ExitFails(x, t)
      PROVE  /\ ExitFails(x, t) /\ row'[t] = "EXIT_FAILED"
             /\ pos[t] = "EXITING" /\ exitOrder[t] = NoId
  BY <1>1, <1>4 DEF ExitPaper, ExitFails, Submitting, ProcessInv, ExclusiveExit
<1>5. ASSUME NEW x \in Threads, LogExit(x), t = unlogged[x]
      PROVE  row'[t] = "EXIT_SUBMITTED"
  BY <1>1, <1>5 DEF LogExit
<1>6. ASSUME t = rcur.trade,
             EntryFilled \/ EntryDead \/ ExitFilled \/ ExitDead \/ StillWorking
      PROVE  /\ pos[t] = "EXITING" /\ exitOrder[t] # NoId
             /\ \/ ExitFilled /\ row'[t] = "CLOSED"
                \/ ExitDead /\ row'[t] = "EXIT_FAILED"
                \/ StillWorking /\ row'[t] = "EXIT_PARTIALLY_FILLED"
  <2>1. rcur.doing = "exit" /\ pos[t] = "EXITING" /\ exitOrder[t] # NoId
    BY <1>1, <1>6, AppliedPosition DEF ProcessInv, PolledPositions
  <2>2. ~EntryFilled /\ ~EntryDead
    BY <2>1 DEF EntryFilled, EntryDead, Applying
  <2> QED
    BY <1>1, <1>6, <2>1, <2>2 DEF ExitFilled, ExitDead, StillWorking, PartialStatus
<1> QED
  BY <1>2, <1>3, <1>4, <1>5, <1>6, RowStep

LEMMA ExitRowsInit == Init => ExitRowsFit
BY DEF Init, BookInit, ExitRowsFit

\* The row of an exiting position is one its exit order may be recorded in.
LEMMA ExitRowsNext ==
  ASSUME ProcessInv, ModesApart, AnswersHold, RowsFit, ExitRowsFit, ~Paper, [Next]_vars
  PROVE  ExitRowsFit'
<1>1. /\ row \in [Trades -> TradeStatus] /\ pos \in [Trades -> PositionState \cup {"none"}]
      /\ exitOrder \in [Trades -> OrderIds \cup {NoId}]
      /\ unlogged \in [Threads -> Used \cup {NoTrade}]
  BY DEF ProcessInv, TypeOK, RecordsOK, BookOK, ExitsOK
<1>2. ASSUME NEW t \in Trades, exitOrder'[t] # NoId
      PROVE  (ExitUnwritten(t) \/ row[t] \in {"EXIT_SUBMITTED", "EXIT_PARTIALLY_FILLED"})'
  <2>1. ASSUME NEW x \in Threads, ExitAccepted(x, t)
        PROVE  ExitUnwritten(t)'
    BY <1>1, <2>1 DEF ExitAccepted, ExitUnwritten
  <2>2. ASSUME NEW x \in Threads, ExitPaper(x, t) \/ ExitFails(x, t)
        PROVE  FALSE
    BY <1>1, <1>2, <2>2 DEF ExitPaper, ExitFails, ReleaseExit
  <2>3. \/ \E x \in Threads : ExitAccepted(x, t)
        \/ exitOrder'[t] = exitOrder[t]
    BY <1>1, <1>2, <2>2, BookStep
    DEF FillPaper, EntryAccepted, Open, EntryFilled, EntryDead, ExitFilled, ExitDead,
        MarkOpen, Remove, ReleaseExit
  <2>4. CASE exitOrder[t] # NoId /\ ExitUnwritten(t)
    <3>1. PICK x \in Threads : unlogged[x] = t
      BY <2>4 DEF ExitUnwritten
    <3>2. t # NoTrade
      BY TradeAssumption
    <3>3. CASE unlogged'[x] = t
      BY <3>3 DEF ExitUnwritten
    <3>4. CASE row' = [row EXCEPT ![unlogged[x]] = "EXIT_SUBMITTED"]
      BY <1>1, <3>1, <3>4
    <3> QED
      BY <3>1, <3>2, <3>3, <3>4, UnwrittenStep
  <2>5. CASE /\ exitOrder[t] # NoId /\ exitOrder'[t] = exitOrder[t]
             /\ row[t] \in {"EXIT_SUBMITTED", "EXIT_PARTIALLY_FILLED"}
    <3>1. BoughtRow(t)
      BY <2>5 DEF BoughtRow, ExitStatuses
    <3>2. ASSUME t = rcur.trade, ExitFilled \/ ExitDead
          PROVE  exitOrder'[t] = NoId
      BY <1>1, <3>2 DEF ExitFilled, ExitDead, Remove, ReleaseExit
    <3> QED
      BY <1>2, <2>5, <3>1, <3>2, BoughtRowStep
  <2> QED
    BY <1>2, <2>1, <2>3, <2>4, <2>5 DEF ExitRowsFit
<1>3. ASSUME NEW t \in Trades, row'[t] = "CLOSED"
      PROVE  pos'[t] = "none"
  <2>1. CASE row[t] = "CLOSED"
    <3>1. pos[t] = "none" /\ BoughtRow(t)
      BY <2>1 DEF ExitRowsFit, BoughtRow
    <3>2. ~(t = cur /\ (FillPaper \/ EntryAccepted))
      BY <2>1 DEF FillPaper, EntryAccepted, ModesApart, RowsFit
    <3>3. ASSUME NEW x \in Threads
          PROVE  ~(ExitPaper(x, t) \/ ExitAccepted(x, t) \/ ExitFails(x, t))
      BY <3>1 DEF ExitPaper, ExitAccepted, ExitFails, Submitting, ProcessInv, ExclusiveExit
    <3>4. ~(t = rcur.trade /\ (EntryFilled \/ EntryDead \/ ExitFilled \/ ExitDead))
      BY <3>1
      DEF EntryFilled, EntryDead, ExitFilled, ExitDead, Applying, ProcessInv, PolledPositions
    <3> QED
      BY <3>1, <3>2, <3>3, <3>4, BookStep
  <2>2. CASE row[t] # "CLOSED"
    <3>1. BoughtRow(t)
      BY <1>3, <2>2, RowMove
      DEF RowMayBecome, EntryStep, BoughtStatuses, BoughtRow, ExitStatuses
    <3>2. ExitFilled /\ t = rcur.trade
      BY <1>3, <2>2, <3>1, BoughtRowStep
    <3> QED
      BY <1>1, <3>2 DEF ExitFilled, Remove
  <2> QED
    BY <2>1, <2>2
<1> QED
  BY <1>2, <1>3 DEF ExitRowsFit

\* A step of the lifecycle, or one in the window of an exit that is not yet written.
LEMMA LifecycleMove ==
  ASSUME ProcessInv, ModesApart, AnswersHold, RowsFit, ExitRowsFit, ~Paper, [Next]_vars,
         NEW t \in Trades, row'[t] # row[t]
  PROVE  \/ EntryStep(row[t], row'[t]) \/ ExitStep(row[t], row'[t])
         \/ /\ ExitUnwritten(t)
            /\ row[t] \in BoughtStatuses /\ row'[t] \in BoughtStatuses \ {"FILLED"}
            /\ row[t] = "CLOSED" => row'[t] = "EXIT_SUBMITTED"
<1>1. SUFFICES ASSUME row[t] \in BoughtStatuses, row'[t] \in BoughtStatuses \ {"FILLED"}
               PROVE  \/ ExitStep(row[t], row'[t])
                      \/ /\ ExitUnwritten(t)
                         /\ row[t] = "CLOSED" => row'[t] = "EXIT_SUBMITTED"
  BY RowMove DEF RowMayBecome
<1>2. BoughtRow(t)
  BY <1>1 DEF BoughtStatuses, BoughtRow
<1>3. ASSUME NEW x \in Threads, t = unlogged[x], row'[t] = "EXIT_SUBMITTED"
      PROVE  ExitUnwritten(t)
  BY <1>3 DEF ExitUnwritten
<1>4. CASE row'[t] = "EXIT_FAILED" /\ pos[t] = "EXITING"
  BY <1>1, <1>4 DEF ExitRowsFit, ExitStep, BoughtStatuses, ExitStatuses
<1>5. CASE /\ pos[t] = "EXITING" /\ exitOrder[t] # NoId
           /\ row'[t] \in {"CLOSED", "EXIT_PARTIALLY_FILLED"}
  BY <1>1, <1>5 DEF ExitRowsFit, ExitStep
<1> QED
  BY <1>2, <1>3, <1>4, <1>5, BoughtRowStep

-----------------------------------------------------------------------------
(* Cash holds, when no remote call fails in a way that hides its effect    *)

\* Initially there are no holds.
LEMMA HoldsInit == Init => HoldsFit /\ HoldsFollowOrders
BY DEF Init, BookInit, HoldsFit, HoldsFollowOrders, Used

\* What the reconciler settles is the hold of an entry that has ended.
LEMMA SettledEntry ==
  ASSUME ProcessInv, AnswersHold, NEW t \in Trades, Settling(t)
  PROVE  /\ t \in Used /\ Exists(EntryId(t))
         /\ orders[EntryId(t)].status = IF rcur.doing = "capture" THEN "filled" ELSE "dead"
<1>1. t \in Used /\ rcur.doing \in {"capture", "release"} /\ PolledOrder = EntryId(t)
  BY DEF Settling, ProcessInv, TypeOK, ReconcilerOK, PolledOrder, EntryId
<1> QED
  BY <1>1 DEF AnswersHold

\* While an entry is being executed its hold is the consumer's.
LEMMA EntryHold ==
  ASSUME IndInv, ModesApart, AnswersHold, HoldsFit, Faults = {}, [Next]_vars
  PROVE  /\ pc' \in {"fill", "reserve"} => hold'[cur'] = "none"
         /\ pc' \in {"submit", "release"} => hold'[cur'] = "held"
         /\ pc' \in {"reserve", "submit", "release"} => ~Exists(EntryId(cur))'
<1>1. hold \in [Trades -> {"none", "held", "captured", "released"}]
  BY DEF ProcessInv, TypeOK, RecordsOK
<1>2. ASSUME UNCHANGED <<pc, cur>>, pc \in {"fill", "reserve", "submit", "release"}
      PROVE  /\ hold'[cur] = hold[cur]
             /\ pc # "fill" => ~Exists(EntryId(cur))'
  <2>1. cur \in Used /\ cur \in Trades
    BY <1>2 DEF ProcessInv, TypeOK, ConsumerOK, Used
  <2>2. ~(CashHeld \/ ReserveFails \/ ReserveMalformed \/ ReleaseAfterFailure \/ EntryAccepted)
    BY <1>2
    DEF CashHeld, ReserveFails, ReserveMalformed, ReleaseAfterFailure, EntryAccepted,
        EntryDone, SkipMessage, MessageDone
  <2>3. ~Settling(cur)
    <3>1. CASE pc \in {"fill", "reserve"}
      BY <2>1, <3>1 DEF HoldsFit
    <3>2. CASE pc \in {"submit", "release"}
      BY <2>1, <3>2, SettledEntry DEF HoldsFit
    <3> QED
      BY <1>2, <3>1, <3>2
  <2>4. hold'[cur] = hold[cur]
    BY <2>1, <2>2, <2>3, HoldStep DEF SettleHold, Settling
  <2>5. ASSUME pc # "fill"
        PROVE  ~Exists(EntryId(cur))'
    <3>1. EntryId(cur)' = EntryId(cur)
      BY <1>2, <2>1, TradesKept DEF ProcessInv, EntryId
    <3>2. EntryId(cur) \notin DOMAIN orders
      BY <1>2, <2>5 DEF HoldsFit, Exists
    <3>3. ASSUME NEW x \in Threads, NEW t \in Trades, ExitAccepted(x, t)
          PROVE  EntryId(cur) # ExitId(t)
      BY <2>1, <3>3, OwnIds DEF ExitAccepted, Submitting, ProcessInv, TypeOK, ExitsOK
    <3>4. EntryId(cur) \notin DOMAIN orders'
      BY <2>2, <3>2, <3>3, NewOrdersKnown
    <3> QED
      BY <3>1, <3>4 DEF Exists
  <2> QED
    BY <2>4, <2>5
<1>3. CASE UNCHANGED <<pc, cur>>
  BY <1>2, <1>3 DEF HoldsFit
<1>4. ASSUME NEW e \in todo, NEW t \in Trades, Enter(e, t)
      PROVE  /\ pc' \in {"fill", "reserve"} /\ hold'[cur'] = "none"
             /\ ~Exists(EntryId(cur))'
  <2>1. cur' = t /\ pc' \in {"fill", "reserve"} /\ UNCHANGED <<hold, orders>> /\ t \notin Used
    BY <1>4 DEF Enter, Unused
  <2>2. t \in Used'
    <3>1. TypeOK'
      BY TypeNext DEF ProcessInv
    <3> QED
      BY <2>1, <3>1 DEF TypeOK, ConsumerOK
  <2>3. EntryId(cur)' = EntryId(t)'
    BY <2>1 DEF EntryId
  <2> QED
    BY <2>1, <2>2, <2>3, NewTrades DEF HoldsFit, Exists
<1>5. CASE CashHeld
  <2>1. cur \in Trades /\ ~Exists(EntryId(cur))
    BY <1>5 DEF CashHeld, HoldsFit, ProcessInv, TypeOK, ConsumerOK, Used
  <2> QED
    BY <1>1, <1>5, <2>1 DEF CashHeld, ReserveUnchanged, Exists, EntryId
<1>6. CASE EntryFails
  BY <1>6 DEF EntryFails, SubmissionFails, SubmitUnchanged, HoldsFit, Exists, EntryId
<1> QED
  BY <1>3, <1>4, <1>5, <1>6, ConsumerStep

\* A pending entry is one whose hold is outstanding and not being settled.
LEMMA PendingHold ==
  ASSUME IndInv, ModesApart, AnswersHold, HoldsFit, Faults = {}, [Next]_vars,
         NEW t \in Used, pos'[t] = "PENDING_ENTRY"
  PROVE  hold'[t] = "held" /\ ~Settling(t)'
<1>1. /\ t \in Trades /\ t # NoTrade /\ pos \in [Trades -> PositionState \cup {"none"}]
      /\ hold \in [Trades -> {"none", "held", "captured", "released"}]
  BY TradeAssumption DEF Used, ProcessInv, TypeOK, BookOK, RecordsOK
<1>2. CASE EntryAccepted /\ t = cur
  <2>1. hold[t] = "held" /\ UNCHANGED <<hold, rcur>> /\ ~Exists(EntryId(t))
    BY <1>2 DEF EntryAccepted, SubmitUnchanged, reconciler, HoldsFit
  <2>2. ~Settling(t)
    BY <1>1, <2>1, SettledEntry
  <2> QED
    BY <2>1, <2>2 DEF Settling
<1>3. CASE ~(EntryAccepted /\ t = cur)
  <2>1. ~(FillPaper /\ t = cur)
    BY <1>1 DEF FillPaper, Open
  <2>2. ASSUME NEW x \in Threads
        PROVE  ~(ExitPaper(x, t) \/ ExitFails(x, t))
    BY <1>1 DEF ExitPaper, ExitFails, Remove, ReleaseExit
  <2>3. ~(t = rcur.trade /\ (EntryFilled \/ EntryDead \/ ExitFilled \/ ExitDead))
    BY <1>1 DEF EntryFilled, EntryDead, ExitFilled, ExitDead, MarkOpen, Remove, ReleaseExit
  <2>4. pos[t] = "PENDING_ENTRY"
    BY <1>1, <1>3, <2>1, <2>2, <2>3, BookStep DEF ExitAccepted
  <2>5. hold[t] = "held" /\ ~Settling(t) /\ t # cur
    BY <1>1, <2>4 DEF HoldsFit, ProcessInv, EntryUntracked
  <2>6. hold'[t] = hold[t]
    BY <1>1, <2>5, HoldStep DEF SettleHold, Settling
  <2>7. ~Settling(t)'
    <3>1. ASSUME NEW u \in Trades, Fetch(u)
          PROVE  rcur'.doing \in {"entry", "exit"}
      BY <3>1 DEF Fetch
    <3>2. CASE EntryFilled \/ EntryDead
      <4>1. rcur'.trade = rcur.trade
        BY <3>2 DEF EntryFilled, EntryDead, ProcessInv, TypeOK, ReconcilerOK, Job
      <4> QED
        BY <2>3, <3>2, <4>1 DEF Settling
    <3> QED
      BY <2>5, <3>1, <3>2, JobStep DEF Settling, NoJob
  <2> QED
    BY <2>5, <2>6, <2>7
<1> QED
  BY <1>2, <1>3

\* What is being settled is an outstanding hold.
LEMMA SettlingHold ==
  ASSUME IndInv, AnswersHold, HoldsFit, Faults = {}, [Next]_vars,
         NEW t \in Used, Settling(t)'
  PROVE  hold'[t] = "held"
<1>1. t \in Trades /\ rcur \in Job
  BY DEF Used, ProcessInv, TypeOK, ReconcilerOK
<1>2. CASE UNCHANGED rcur
  <2>1. Settling(t) /\ hold[t] = "held"
    BY <1>2 DEF Settling, HoldsFit
  <2>2. Exists(EntryId(t))
    BY <1>1, <2>1, SettledEntry
  <2>3. ~(t = cur /\ (CashHeld \/ ReserveFails \/ ReserveMalformed \/ ReleaseAfterFailure))
    BY <2>2 DEF HoldsFit, CashHeld, ReserveFails, ReserveMalformed, ReleaseAfterFailure
  <2>4. ~SettleHold
    BY <1>2 DEF SettleHold, NoJob
  <2> QED
    BY <1>1, <2>1, <2>3, <2>4, HoldStep
<1>3. CASE EntryFilled \/ EntryDead
  <2>1. rcur'.trade = rcur.trade
    BY <1>1, <1>3 DEF EntryFilled, EntryDead, Job
  <2>2. rcur.doing = "entry" /\ UNCHANGED hold
    BY <1>3 DEF EntryFilled, EntryDead, Applying, ApplyUnchanged
  <2>3. pos[t] = "PENDING_ENTRY"
    BY <2>1, <2>2 DEF Settling, ProcessInv, PolledPositions
  <2> QED
    BY <2>2, <2>3 DEF HoldsFit
<1>4. ASSUME NEW u \in Trades, Fetch(u)
      PROVE  rcur'.doing \in {"entry", "exit"}
  BY <1>4 DEF Fetch
<1> QED
  BY <1>2, <1>3, <1>4, JobStep DEF Settling, NoJob

\* An outstanding hold has somebody who is still to settle it.
LEMMA HeldHold ==
  ASSUME IndInv, ModesApart, AnswersHold, HoldsFit, Faults = {}, [Next]_vars,
         NEW t \in Used, hold'[t] = "held"
  PROVE  t = cur' \/ pos'[t] = "PENDING_ENTRY" \/ Settling(t)'
<1>1. /\ t \in Trades /\ t # NoTrade /\ pos \in [Trades -> PositionState \cup {"none"}]
      /\ hold \in [Trades -> {"none", "held", "captured", "released"}]
      /\ rcur \in Job
  BY TradeAssumption DEF Used, ProcessInv, TypeOK, BookOK, RecordsOK, ReconcilerOK
<1>2. CASE hold[t] # "held"
  <2>1. ~SettleHold
    BY <1>1, <1>2 DEF SettleHold, Settle
  <2>2. ~(ReserveFails \/ ReserveMalformed \/ ReleaseAfterFailure)
    BY <1>1, <1>2
    DEF ReserveFails, ReserveMalformed, ReleaseAfterFailure, Settle
  <2>3. t = cur /\ CashHeld
    BY <1>1, <1>2, <2>1, <2>2, HoldStep
  <2> QED
    BY <2>3 DEF CashHeld
<1>3. CASE hold[t] = "held" /\ t = cur
  <2>1. pc \in {"submit", "release"}
    BY <1>1, <1>3 DEF ProcessInv, TypeOK, ConsumerOK, HoldsFit
  <2>2. CASE EntryAccepted
    BY <1>1, <1>3, <2>2 DEF EntryAccepted, Open
  <2>3. ~ReleaseAfterFailure
    BY <1>1, <1>3 DEF ReleaseAfterFailure, Settle
  <2>4. CASE cur' = cur
    BY <1>3, <2>4
  <2>5. EntryAccepted \/ ReleaseAfterFailure \/ cur' = cur
    BY <2>1, Steps
    DEF vars, consumer, Poll, Dedup, SizingFails, Enter, FillPaper, CashHeld,
        InsufficientFunds, ReserveFails, ReserveMalformed, EntryFails, EntryMalformed,
        ClaimExits, Claim, ExitsDone, ExitPaper, ExitAccepted, ExitFails, ExitMalformed,
        LogExit, Liquidate, Snapshot, PassOver, Fetch, FetchMalformed, PollUnchanged,
        EntryFilled, EntryDead, ExitFilled, ExitDead, StillWorking, SettleHold,
        ApplyUnchanged, MarketFill, MarketKill, MarketUnchanged, CloseReached, NextDay,
        ClockUnchanged
  <2> QED
    BY <2>2, <2>3, <2>4, <2>5
<1>4. CASE pos[t] = "PENDING_ENTRY"
  <2>1. t # cur
    BY <1>1, <1>4 DEF ProcessInv, EntryUntracked
  <2>2. ASSUME NEW x \in Threads
        PROVE  ~(ExitPaper(x, t) \/ ExitAccepted(x, t) \/ ExitFails(x, t))
    BY <1>4 DEF ExitPaper, ExitAccepted, ExitFails, Submitting, ProcessInv, ExclusiveExit
  <2>3. ~(t = rcur.trade /\ (ExitFilled \/ ExitDead))
    BY <1>4 DEF ExitFilled, ExitDead, Applying, ProcessInv, PolledPositions
  <2>4. ASSUME t = rcur.trade, EntryFilled \/ EntryDead
        PROVE  Settling(t)'
    BY <1>1, <2>4 DEF EntryFilled, EntryDead, Settling, Job
  <2> QED
    BY <1>1, <1>4, <2>1, <2>2, <2>3, <2>4, BookStep
<1>5. CASE Settling(t)
  <2>1. ~SettleHold
    BY <1>1, <1>5 DEF Settling, SettleHold, Settle
  <2>2. ASSUME NEW u \in Trades
        PROVE  ~Fetch(u)
    BY <1>5 DEF Fetch, Polling, NoJob, Settling
  <2>3. ~(EntryFilled \/ EntryDead \/ ExitFilled \/ ExitDead)
    BY <1>5 DEF EntryFilled, EntryDead, ExitFilled, ExitDead, Applying, Settling
  <2>4. ~StillWorking
    BY <1>5 DEF StillWorking, AnswersHold, Settling
  <2> QED
    BY <1>5, <2>1, <2>2, <2>3, <2>4, JobStep DEF Settling
<1> QED
  BY <1>2, <1>3, <1>4, <1>5 DEF HoldsFit

\* A hold is captured or released by what became of its entry order.
LEMMA SettledNext ==
  ASSUME IndInv, ModesApart, AnswersHold, HoldsFit, HoldsFollowOrders, Faults = {},
         [Next]_vars, NEW t \in Used
  PROVE  /\ hold'[t] = "captured" =>
              Exists(EntryId(t))' /\ orders'[EntryId(t)'].status = "filled"
         /\ hold'[t] = "released" =>
              ~Exists(EntryId(t))' \/ orders'[EntryId(t)'].status = "dead"
<1>1. /\ t \in Trades /\ EntryId(t)' = EntryId(t)
      /\ hold \in [Trades -> {"none", "held", "captured", "released"}]
  BY TradesKept DEF Used, ProcessInv, TypeOK, RecordsOK
<1>2. CASE hold'[t] = hold[t] /\ hold[t] = "captured"
  <2>1. EntryId(t) \in DOMAIN orders /\ orders[EntryId(t)].status = "filled"
    BY <1>2 DEF HoldsFit, HoldsFollowOrders, Exists
  <2>2. EntryId(t) \in DOMAIN orders' /\ orders'[EntryId(t)] = orders[EntryId(t)]
    BY <2>1, OrdersGrow DEF ProcessInv
  <2> QED
    BY <1>1, <1>2, <2>1, <2>2 DEF Exists
<1>3. CASE hold'[t] = hold[t] /\ hold[t] = "released"
  <2>1. CASE EntryId(t) \in DOMAIN orders
    <3>1. orders[EntryId(t)].status = "dead"
      BY <1>3, <2>1 DEF HoldsFollowOrders, Exists
    <3>2. EntryId(t) \in DOMAIN orders' /\ orders'[EntryId(t)] = orders[EntryId(t)]
      BY <2>1, <3>1, OrdersGrow DEF ProcessInv
    <3> QED
      BY <1>1, <1>3, <3>1, <3>2
  <2>2. CASE EntryId(t) \notin DOMAIN orders
    <3>1. ~(EntryAccepted /\ EntryId(t) = EntryId(cur))
      <4>1. ASSUME EntryAccepted, EntryId(t) = EntryId(cur)
            PROVE  FALSE
        <5>1. cur \in Used /\ pc = "submit"
          BY <4>1 DEF EntryAccepted, ProcessInv, TypeOK, ConsumerOK
        <5>2. t = cur
          BY <4>1, <5>1, OwnIds
        <5> QED
          BY <1>3, <5>1, <5>2 DEF HoldsFit
      <4> QED
        BY <4>1
    <3>2. ASSUME NEW x \in Threads, NEW u \in Trades, ExitAccepted(x, u)
          PROVE  EntryId(t) # ExitId(u)
      BY <3>2, OwnIds DEF ExitAccepted, Submitting, ProcessInv, TypeOK, ExitsOK
    <3>3. EntryId(t) \notin DOMAIN orders'
      BY <2>2, <3>1, <3>2, NewOrdersKnown
    <3> QED
      BY <1>1, <1>3, <3>3 DEF Exists
  <2> QED
    BY <2>1, <2>2
<1>4. CASE t = cur /\ (CashHeld \/ ReserveFails \/ ReserveMalformed)
  <2>1. hold[t] = "none"
    BY <1>4 DEF HoldsFit, CashHeld, ReserveFails, ReserveMalformed
  <2> QED
    BY <1>1, <1>4, <2>1 DEF CashHeld, ReserveFails, ReserveMalformed
<1>5. CASE t = cur /\ ReleaseAfterFailure
  <2>1. ~Exists(EntryId(t)) /\ UNCHANGED orders /\ hold'[t] = "released"
    BY <1>1, <1>5 DEF ReleaseAfterFailure, HoldsFit, Settle
  <2> QED
    BY <1>1, <2>1 DEF Exists
<1>6. CASE t = rcur.trade /\ SettleHold
  <2>1. Settling(t) /\ UNCHANGED orders
    BY <1>6 DEF SettleHold, Settling
  <2>2. hold'[t] = IF rcur.doing = "capture" THEN "captured" ELSE "released"
    BY <1>1, <1>6 DEF SettleHold, Settle
  <2>3. /\ Exists(EntryId(t))
        /\ orders[EntryId(t)].status = IF rcur.doing = "capture" THEN "filled" ELSE "dead"
    BY <1>1, <2>1, SettledEntry
  <2> QED
    BY <1>1, <2>1, <2>2, <2>3 DEF Exists
<1> QED
  BY <1>1, <1>2, <1>3, <1>4, <1>5, <1>6, HoldStep

\* Every step keeps the holds where the next step expects them.
LEMMA HoldsNext ==
  ASSUME IndInv, ModesApart, AnswersHold, HoldsFit, HoldsFollowOrders, Faults = {},
         [Next]_vars
  PROVE  HoldsFit' /\ HoldsFollowOrders'
<1>1. ASSUME NEW t \in Trades \ Used'
      PROVE  hold'[t] = "none"
  <2>1. t \notin Used /\ hold[t] = "none"
    BY TradesKept DEF ProcessInv, HoldsFit
  <2>2. ~(t = cur /\ (CashHeld \/ ReserveFails \/ ReserveMalformed \/ ReleaseAfterFailure))
    BY <2>1
    DEF CashHeld, ReserveFails, ReserveMalformed, ReleaseAfterFailure, ProcessInv, TypeOK,
        ConsumerOK
  <2>3. ~(t = rcur.trade /\ SettleHold)
    BY <2>1 DEF SettleHold, ProcessInv, TypeOK, ReconcilerOK
  <2> QED
    BY <2>1, <2>2, <2>3, HoldStep
<1>2. ASSUME NEW t \in Used'
      PROVE  /\ pos'[t] = "PENDING_ENTRY" => hold'[t] = "held" /\ ~Settling(t)'
             /\ Settling(t)' => hold'[t] = "held"
             /\ hold'[t] = "held" => t = cur' \/ pos'[t] = "PENDING_ENTRY" \/ Settling(t)'
             /\ hold'[t] = "captured" =>
                  Exists(EntryId(t))' /\ orders'[EntryId(t)'].status = "filled"
             /\ hold'[t] = "released" =>
                  ~Exists(EntryId(t))' \/ orders'[EntryId(t)'].status = "dead"
  <2>1. CASE t \in Used
    BY <2>1, PendingHold, SettlingHold, HeldHold, SettledNext
  <2>2. CASE t \notin Used
    <3>1. PICK e \in todo : Enter(e, t)
      BY <2>2, NewTrade
    <3>2. hold'[t] = "none" /\ pos'[t] = "none" /\ UNCHANGED rcur
      BY <2>2, <3>1, NewTrade DEF HoldsFit, Enter, book, reconciler
    <3>3. ~Settling(t)'
      BY <2>2, <3>2 DEF Settling, ProcessInv, TypeOK, ReconcilerOK
    <3> QED
      BY <3>2, <3>3
  <2> QED
    BY <2>1, <2>2
<1>3. HoldsFit'
  BY <1>1, <1>2, EntryHold DEF HoldsFit
<1>4. HoldsFollowOrders'
  BY <1>2 DEF HoldsFollowOrders, Settling
<1> QED
  BY <1>3, <1>4

-----------------------------------------------------------------------------
(* Theorems about orders, rows, cash and re-entry                          *)

\* What holds of one executor process in both modes and whatever the remote calls
\* do: it is inductive together with IndInv.
OrdersInv ==
  /\ ModesApart /\ OwnOrders /\ AnswersHold /\ SharesCovered
  /\ CountersBacked /\ ReentryAfterExit /\ ClaimsOfAMessage

\* OrdersInv is an invariant: the book and the answers in flight agree with the
\* broker, and counters with what was sold.
THEOREM OrdersInductive == Spec => []OrdersInv
<1>1. Init => OrdersInv
  BY ModesInit, SharesInit, CountersInit, ClaimsInit DEF OrdersInv
<1>2. IndInv /\ OrdersInv /\ [Next]_vars => OrdersInv'
  <2> SUFFICES ASSUME IndInv, OrdersInv, [Next]_vars
               PROVE  OrdersInv'
    OBVIOUS
  <2>1. ModesApart'
    BY ModesNext DEF OrdersInv
  <2>2. OwnOrders' /\ AnswersHold'
    BY OwnOrdersNext, AnswersNext DEF OrdersInv
  <2>3. SharesCovered'
    BY SharesNext DEF OrdersInv
  <2>4. CountersBacked' /\ ReentryAfterExit'
    BY CountersNext DEF OrdersInv
  <2>5. ClaimsOfAMessage'
    BY MessageClaims DEF OrdersInv
  <2> QED
    BY <2>1, <2>2, <2>3, <2>4, <2>5 DEF OrdersInv
<1> QED
  BY <1>1, <1>2, Inductive, PTL DEF Spec

\* What the shares covered mean: all that was sold was bought.
LEMMA Covered ==
  ASSUME ProcessInv, SharesCovered
  PROVE  NoOversell
<1> SUFFICES ASSUME NEW t \in Used
             PROVE  Filled(ExitId(t)) =< Filled(EntryId(t))
  BY DEF NoOversell
<1>1. Filled(EntryId(t)) \in Nat
  BY DEF ProcessInv, TypeOK, OrdersOK, Order, Filled, Exists
<1>2. CASE Exists(ExitId(t))
  <2>1. /\ orders[ExitId(t)].filled =< orders[ExitId(t)].qty
        /\ orders[ExitId(t)].qty = Filled(EntryId(t))
    BY <1>2 DEF SharesCovered, Exists
  <2>2. Filled(ExitId(t)) = orders[ExitId(t)].filled
    BY <1>2 DEF Filled
  <2> QED
    BY <2>1, <2>2
<1>3. CASE ~Exists(ExitId(t))
  BY <1>1, <1>3 DEF Filled
<1> QED
  BY <1>2, <1>3

\* The exits of a trade never sell more than its entry bought, with any of the faults
\* (ExecutionService._submit_exit, _reconcile_exit).
THEOREM NeverOversold == Spec => []NoOversell
<1>1. IndInv /\ OrdersInv => NoOversell
  BY Covered DEF ProcessInv, OrdersInv
<1> QED
  BY <1>1, Inductive, OrdersInductive, PTL

\* A signal trades again only after its previous trade was sold, with any of the faults
\* and whatever the threads interleave (ExecutionService.forget, _next_idem_key).
THEOREM ReentryIsAfterExit == Spec => []ReentryAfterExit
<1>1. OrdersInv => ReentryAfterExit
  BY DEF OrdersInv
<1> QED
  BY <1>1, OrdersInductive, PTL

\* While replies validate, a position that is being sold has a thread that will submit
\* its exit or an exit order that is polled (claim_exits, claim_all_open, release_exit).
THEOREM ClaimsServed ==
  ASSUME "malformed_reply" \notin Faults
  PROVE  Spec => []ClaimsAreServed
<1>1. Init => ClaimsAreServed
  BY ClaimsInit
<1>2. IndInv /\ OrdersInv /\ ClaimsAreServed /\ [Next]_vars => ClaimsAreServed'
  BY ClaimsNext DEF OrdersInv
<1> QED
  BY <1>1, <1>2, Inductive, OrdersInductive, PTL DEF Spec

\* While no reply is lost and every reply validates, no order works at the broker that
\* the reconciler does not poll, whether or not holds are lost (reconcile_once).
THEOREM OrdersAreKnown ==
  ASSUME "lost_reply" \notin Faults, "malformed_reply" \notin Faults
  PROVE  Spec => []OrdersKnown
<1>1. Init => OrdersKnown
  BY KnownInit
<1>2. IndInv /\ OrdersInv /\ OrdersKnown /\ [Next]_vars => OrdersKnown'
  BY KnownNext DEF OrdersInv
<1> QED
  BY <1>1, <1>2, Inductive, OrdersInductive, PTL DEF Spec

\* The row of a live trade follows the lifecycle of SPEC 3.3 through its entry and its exit,
\* with any of the faults, except where the reconciler overtakes the EXIT_SUBMITTED update
\* of _submit_exit; outside that window a CLOSED row is never written again.
THEOREM RowsAdvance ==
  ASSUME ~Paper
  PROVE  Spec => LiveRowsAdvance
<1>1. Init => RowsFit /\ ExitRowsFit
  BY RowsInit, ExitRowsInit
<1>2. IndInv /\ OrdersInv /\ RowsFit /\ ExitRowsFit /\ [Next]_vars => RowsFit' /\ ExitRowsFit'
  BY RowsNext, ExitRowsNext DEF OrdersInv
<1>3. IndInv /\ OrdersInv /\ RowsFit /\ ExitRowsFit /\ [Next]_vars =>
        [\A t \in Trades : row'[t] # row[t] =>
           \/ EntryStep(row[t], row'[t]) \/ ExitStep(row[t], row'[t])
           \/ /\ ExitUnwritten(t)
              /\ row[t] \in BoughtStatuses /\ row'[t] \in BoughtStatuses \ {"FILLED"}
              /\ row[t] = "CLOSED" => row'[t] = "EXIT_SUBMITTED"]_vars
  BY LifecycleMove DEF OrdersInv
<1> QED
  BY <1>1, <1>2, <1>3, Inductive, OrdersInductive, PTL DEF Spec, LiveRowsAdvance

\* When no remote call hides its effect, cash follows the entry order: a hold is captured
\* for a filled order, released when there is none or it died, and outstanding only while
\* somebody is to settle it (_capture_hold, _release_hold, _release_hold_safe).
THEOREM HoldsFollow ==
  ASSUME Faults = {}
  PROVE  Spec => []HoldsFollowOrders
<1>1. Init => HoldsFit /\ HoldsFollowOrders
  BY HoldsInit
<1>2. IndInv /\ OrdersInv /\ HoldsFit /\ HoldsFollowOrders /\ [Next]_vars =>
        HoldsFit' /\ HoldsFollowOrders'
  BY HoldsNext DEF OrdersInv
<1> QED
  BY <1>1, <1>2, Inductive, OrdersInductive, PTL DEF Spec
=============================================================================
