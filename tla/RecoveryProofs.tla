--------------------------- MODULE RecoveryProofs ---------------------------
(***************************************************************************)
(* Proofs about an executor that crashes and is started again, for every   *)
(* set of entries, prices, days and trades, any number of crashes, in both *)
(* modes and with any of the faults. RecoveryInv is the inductive          *)
(* invariant: what every step keeps of one process (ExecutionProofs), what *)
(* a table written at any moment tells of the orders at the broker, and    *)
(* what is left of the discipline of keys once a crash has lost rows.      *)
(***************************************************************************)
EXTENDS Recovery, ExecutionProofs, WellFoundedInduction

-----------------------------------------------------------------------------
(* What a table says                                                       *)

\* Only used trades have rows; a row with an exit order id is that of a live position
\* that was being sold. A paper row fills at once.
RowHolds(t, r, c) ==
  /\ r[t] # "none" => t \in Used
  /\ c[t].exitId => ~Paper /\ t \in Used /\ r[t] \in {"none", "CLOSED"} \cup ExitStatuses
  /\ Paper => r[t] \in {"none", "NEW", "FILLED", "CLOSED"}

TableFits(r, c) ==
  /\ r \in [Trades -> TradeStatus] /\ c \in [Trades -> Columns]
  /\ \A t \in Trades : RowHolds(t, r, c)

\* A row, however old it is, tells what is true of the orders of its trade: an order it
\* has an id for exists, and the shares it has as filled were bought.
RowTells(t, r, c) ==
  /\ r[t] \in {"SUBMITTED", "PARTIALLY_FILLED"} => Exists(EntryId(t))
  /\ r[t] \in {"FILLED", "CLOSED"} \cup ExitStatuses =>
       FilledUp(EntryId(t)) /\ FilledOr(c[t]) = Filled(EntryId(t))
  /\ r[t] = "EXIT_SUBMITTED" => c[t].exitId
  /\ c[t].exitId => Exists(ExitId(t))

TableTells(r, c) == ~Paper => \A t \in Used : RowTells(t, r, c)

OneRowPerKey(r) ==
  \A t, u \in Used : r[t] # "none" /\ r[u] # "none" /\ trade[t].key = trade[u].key => t = u

TablesOK ==
  /\ TableFits(row, column) /\ TableTells(row, column) /\ OneRowPerKey(Rows)
  /\ saved # UpToDate => /\ TableFits(saved.row, saved.column)
                         /\ TableTells(saved.row, saved.column)
                         /\ OneRowPerKey(saved.row)
  /\ refused \subseteq Used

-----------------------------------------------------------------------------
(* What a crash leaves of the keys                                         *)

\* Whatever is being opened or tracked has taken its key, alone, and has a row.
ActiveKeys ==
  /\ \A t \in Trades : Active(t) => t \in Used /\ trade[t].key \in seen /\ row[t] # "none"
  /\ \A t, u \in Trades : Active(t) /\ Active(u) /\ trade[t].key = trade[u].key => t = u
  /\ \A x \in Threads : unlogged[x] # NoTrade => row[unlogged[x]] # "none"

\* The attempts of the trades there are have a bound: one of them is the last.
AttemptsBounded == \E n \in Nat : \A t \in Used : AttemptOf(t) =< n

SoldUpTo(b, n) == \A m \in 0 .. n - 1 : FilledUp(OrderId(ComposeKey(b, m), "exit"))

\* Before the counter of a signal and before each of its trades there are only
\* attempts whose exit has filled. This is about orders, which no crash loses.
EarlierSold ==
  ~Paper => /\ \A b \in Bases : SoldUpTo(b, attempts[b])
            /\ \A t \in Used : SoldUpTo(BaseOf(t), AttemptOf(t))

\* An exit order whose row is still to be written is polled for as long as it works.
UnloggedExits ==
  \A x \in Threads : unlogged[x] # NoTrade =>
    /\ Exists(ExitId(unlogged[x]))
    /\ Working(ExitId(unlogged[x])) =>
         pos[unlogged[x]] = "EXITING" /\ exitOrder[unlogged[x]] = ExitId(unlogged[x])

\* The book of a paper process and its rows agree, and for the trades of which no crash
\* lost a write the row tells whether they are held.
PaperRows ==
  /\ \A t \in Used : t \in Tracked => row[t] = "FILLED"
  /\ loaded => \A t \in Used : row[t] = "FILLED" => t \in Tracked
  /\ \A t \in Used \ lost : row[t] = "FILLED" <=> t \in held

ByMode ==
  IF Paper THEN PaperRows /\ (pc = "fill" => row[cur] = "NEW")
           ELSE RowsFit /\ RecordedPositionsTracked

RecoveryInv ==
  /\ ProcessInv /\ ModesApart /\ OwnOrders /\ AnswersHold /\ SharesCovered
  /\ TablesOK /\ ActiveKeys /\ AttemptsBounded /\ EarlierSold /\ UnloggedExits
  /\ ByMode
  /\ held \subseteq Used /\ lost \subseteq Used
  /\ crashes \in 0 .. MaxCrashes /\ loaded \in BOOLEAN

-----------------------------------------------------------------------------
(* Steps of the process                                                    *)

\* Orders stay, and those that ended stay as they are.
LEMMA OrderStays ==
  ASSUME TypeOK, [Next]_vars, NEW o
  PROVE  /\ Exists(o) => Exists(o)'
         /\ FilledUp(o) => FilledUp(o)' /\ Filled(o)' = Filled(o)
         /\ Exists(o) /\ Working(o)' => Working(o)
<1>1. CASE Exists(o)
  <2>1. /\ o \in DOMAIN orders' /\ orders[o] \in Order
        /\ orders[o].status # "live" => orders'[o] = orders[o]
    BY <1>1, OrdersGrow DEF Exists
  <2>2. FilledUp(o) => FilledUp(o)' /\ Filled(o)' = Filled(o)
    BY <1>1, <2>1 DEF Exists, FilledUp, Filled
  <2>3. Working(o)' => Working(o)
    BY <1>1, <2>1 DEF Exists, Working
  <2> QED
    BY <2>1, <2>2, <2>3 DEF Exists
<1>2. CASE ~Exists(o)
  BY <1>2 DEF FilledUp
<1> QED
  BY <1>1, <1>2

\* The same for the two orders of a trade.
LEMMA TradeOrdersStay ==
  ASSUME TypeOK, [Next]_vars, NEW t \in Used
  PROVE  /\ Exists(EntryId(t)) => Exists(EntryId(t))'
         /\ FilledUp(EntryId(t)) =>
              FilledUp(EntryId(t))' /\ Filled(EntryId(t))' = Filled(EntryId(t))
         /\ Exists(ExitId(t)) => Exists(ExitId(t))'
         /\ Exists(ExitId(t)) /\ Working(ExitId(t))' => Working(ExitId(t))
<1>1. EntryId(t)' = EntryId(t) /\ ExitId(t)' = ExitId(t)
  BY TradesKept
<1> QED
  BY <1>1, OrderStays DEF Exists, FilledUp, Filled, Working

\* A row comes into being only with its trade, and none vanishes.
LEMMA RowBorn ==
  ASSUME ProcessInv, ActiveKeys, AnswersHold, [Next]_vars, NEW t \in Trades
  PROVE  /\ row[t] # "none" => row'[t] # "none"
         /\ row[t] = "none" /\ row'[t] # "none" => \E e \in todo : Enter(e, t)
<1> USE DEF SetRow
<1>1. row \in [Trades -> TradeStatus] /\ pos \in [Trades -> PositionState \cup {"none"}]
  BY DEF ProcessInv, TypeOK, RecordsOK, BookOK
<1>2. t = cur => row[t] # "none"
  BY DEF ActiveKeys, Active
<1>3. pos[t] # "none" => row[t] # "none"
  BY DEF ActiveKeys, Active, Tracked
<1>4. ASSUME NEW e \in todo, Enter(e, t)
      PROVE  row'[t] = "NEW"
  BY <1>1, <1>4 DEF Enter
<1>5. ASSUME t = cur, FillPaper \/ CashHeld \/ InsufficientFunds \/ ReserveFails
                      \/ EntryAccepted \/ EntryFails
      PROVE  row'[t] # "none"
  BY <1>1, <1>5
  DEF FillPaper, CashHeld, InsufficientFunds, ReserveFails, EntryAccepted, EntryFails
<1>6. ASSUME NEW x \in Threads, ExitPaper(x, t) \/ ExitFails(x, t)
      PROVE  row'[t] # "none" /\ pos[t] # "none"
  BY <1>1, <1>6 DEF ExitPaper, ExitFails, Submitting, ProcessInv, ExclusiveExit
<1>7. ASSUME NEW x \in Threads, LogExit(x), t = unlogged[x]
      PROVE  row'[t] # "none" /\ row[t] # "none"
  BY <1>1, <1>7 DEF LogExit, ActiveKeys
<1>8. ASSUME t = rcur.trade, EntryFilled \/ EntryDead \/ ExitFilled \/ ExitDead \/ StillWorking
      PROVE  pos[t] # "none" /\ (row[t] # "none" => row'[t] # "none")
  BY <1>1, <1>8, AppliedPosition
  DEF EntryFilled, EntryDead, ExitFilled, ExitDead, StillWorking, PartialStatus
<1> QED
  BY <1>2, <1>3, <1>4, <1>5, <1>6, <1>7, <1>8, RowStep

\* A thread has an exit order to record after it was accepted, until it is recorded.
LEMMA UnloggedStep ==
  ASSUME TypeOK, [Next]_vars, NEW x \in Threads
  PROVE  \/ unlogged'[x] = unlogged[x]
         \/ LogExit(x) /\ unlogged'[x] = NoTrade
         \/ \E t \in Trades : ExitAccepted(x, t) /\ unlogged'[x] = t
<1>1. unlogged \in [Threads -> Used \cup {NoTrade}]
  BY DEF TypeOK, ExitsOK
<1>2. ASSUME NEW y \in Threads, LogExit(y)
      PROVE  unlogged'[x] = unlogged[x] \/ (LogExit(x) /\ unlogged'[x] = NoTrade)
  BY <1>1, <1>2 DEF LogExit
<1>3. ASSUME NEW y \in Threads, NEW t \in Trades, ExitAccepted(y, t)
      PROVE  unlogged'[x] = unlogged[x] \/ (ExitAccepted(x, t) /\ unlogged'[x] = t)
  BY <1>1, <1>3 DEF ExitAccepted
<1>4. ASSUME NEW y \in Threads, NEW t \in Trades,
             ExitPaper(y, t) \/ ExitFails(y, t) \/ ExitMalformed(y, t)
      PROVE  unlogged'[x] = unlogged[x]
  BY <1>4 DEF ExitPaper, ExitFails, ExitMalformed
<1>5. ASSUME ClaimExits \/ Liquidate
      PROVE  unlogged'[x] = unlogged[x]
  BY <1>5 DEF ClaimExits, Liquidate, Claim
<1> QED
  BY <1>2, <1>3, <1>4, <1>5, Steps
  DEF vars, exits, Poll, Dedup, SizingFails, Enter, FillPaper, CashHeld, InsufficientFunds,
      ReserveFails, ReserveMalformed, ReserveUnchanged, EntryAccepted, EntryFails,
      EntryMalformed, SubmitUnchanged, ReleaseAfterFailure, ExitsDone, Snapshot, PassOver,
      Fetch, FetchMalformed, PollUnchanged, EntryFilled, EntryDead, ExitFilled, ExitDead,
      StillWorking, ApplyUnchanged, SettleHold, MarketFill, MarketKill, MarketUnchanged,
      CloseReached, NextDay, ClockUnchanged

\* The row of an exit order is recorded by the thread that submitted it.
LEMMA LoggedExit ==
  ASSUME TypeOK, [Next]_vars, NEW t \in Trades, LogsExit(t)
  PROVE  \E x \in Threads : LogExit(x) /\ unlogged[x] = t
<1>1. PICK x \in Threads : unlogged[x] = t /\ unlogged'[x] # t
  BY DEF LogsExit
<1>2. ~ \E u \in Trades : ExitAccepted(x, u)
  BY <1>1, TradeAssumption DEF ExitAccepted, Submitting
<1> QED
  BY <1>1, <1>2, UnloggedStep

\* A row is inserted with its trade.
LEMMA InsertedRow ==
  ASSUME ProcessInv, ActiveKeys, AnswersHold, [Next]_vars, NEW t \in Trades, Inserted(t)
  PROVE  /\ t \in Used' /\ t \notin Used
         /\ \E e \in todo : Enter(e, t)
         /\ SizedQuantity(tick.price) \in Nat
         /\ \A u \in Trades \ {t} : row'[u] = row[u]
<1>1. PICK e \in todo : Enter(e, t)
  BY RowBorn DEF Inserted
<1>2. t \notin Used /\ Sizable(tick.price) /\ pc = "entries"
  BY <1>1 DEF Enter, Unused
<1>3. t \in Used'
  BY <1>1, EnterTypes DEF Enter, ProcessInv, TypeOK, ConsumerOK
<1>4. SizedQuantity(tick.price) \in Nat
  BY <1>2, SizeInNat DEF ProcessInv, TypeOK, ConsumerOK, Ticks
<1>5. \A u \in Trades \ {t} : row'[u] = row[u]
  BY <1>1 DEF Enter, SetRow, ProcessInv, TypeOK, RecordsOK
<1> QED
  BY <1>1, <1>2, <1>3, <1>4, <1>5

\* The columns have their types, and each is written by one kind of step.
LEMMA ColumnStep ==
  ASSUME ProcessInv, ActiveKeys, AnswersHold, column \in [Trades -> Columns], Work
  PROVE  /\ column' \in [Trades -> Columns]
         /\ \A t \in Trades :
              /\ column'[t].exitId =>
                   column[t].exitId \/ \E x \in Threads : LogExit(x) /\ unlogged[x] = t
              /\ column[t].exitId => column'[t].exitId
              /\ (\E x \in Threads : LogExit(x) /\ unlogged[x] = t) => column'[t].exitId
              /\ ~Paper /\ row[t] # "none" =>
                   /\ column'[t].quantity = column[t].quantity
                   /\ ~ReportsFill(t) => column'[t].filled = column[t].filled
                   /\ ReportsFill(t) => column'[t].filled = rcur.filled
<1>1. [Next]_vars
  BY DEF Work
<1>2. column' = [t \in Trades |-> ColumnsAfter(t)]
  BY DEF Work
<1>3. rcur.filled \in Nat
  BY DEF ProcessInv, TypeOK, ReconcilerOK, Job
<1>4. \A t \in Trades : Inserted(t) => SizedQuantity(tick.price) \in Nat
  BY <1>1, InsertedRow
<1>5. \A t \in Trades : ColumnsAfter(t) \in Columns
  BY <1>3, <1>4 DEF ColumnsAfter, Columns, LogsExit
<1>6. ASSUME NEW t \in Trades
      PROVE  LogsExit(t) <=> \E x \in Threads : LogExit(x) /\ unlogged[x] = t
  <2>1. ASSUME NEW x \in Threads, LogExit(x), unlogged[x] = t
        PROVE  LogsExit(t)
    BY <2>1, TradeAssumption DEF LogExit, LogsExit, ProcessInv, TypeOK, ExitsOK
  <2> QED
    BY <1>1, <2>1, LoggedExit DEF ProcessInv
<1>7. ASSUME NEW t \in Trades
      PROVE  /\ column'[t].exitId <=> column[t].exitId \/ LogsExit(t)
             /\ ~Paper /\ row[t] # "none" =>
                  /\ column'[t].quantity = column[t].quantity
                  /\ ~ReportsFill(t) => column'[t].filled = column[t].filled
                  /\ ReportsFill(t) => column'[t].filled = rcur.filled
  BY <1>2 DEF ColumnsAfter, Inserted
<1> QED
  BY <1>2, <1>5, <1>6, <1>7

-----------------------------------------------------------------------------
(* Steps and the table                                                     *)

\* Under the book of a paper process a row is new, filled or closed.
LEMMA PaperRow ==
  ASSUME ProcessInv, ModesApart, AnswersHold, Paper, [Next]_vars, NEW t \in Trades
  PROVE  \/ row'[t] = row[t]
         \/ row'[t] = "NEW" /\ \E e \in todo : Enter(e, t)
         \/ row'[t] = "FILLED" /\ t = cur /\ FillPaper
         \/ row'[t] = "CLOSED" /\ \E x \in Threads : ExitPaper(x, t)
<1> USE DEF SetRow
<1>1. row \in [Trades -> TradeStatus]
  BY DEF ProcessInv, TypeOK, RecordsOK
<1>2. ~(CashHeld \/ InsufficientFunds \/ ReserveFails \/ EntryAccepted \/ EntryFails)
  BY DEF ModesApart, CashHeld, InsufficientFunds, ReserveFails, EntryAccepted, EntryFails
<1>3. ~(EntryFilled \/ EntryDead \/ ExitFilled \/ ExitDead \/ StillWorking)
  BY DEF ModesApart, NoJob, EntryFilled, EntryDead, ExitFilled, ExitDead, StillWorking, Applying
<1>4. ASSUME NEW x \in Threads
      PROVE  ~ExitFails(x, t) /\ ~LogExit(x)
  BY DEF ModesApart, ExitFails, LogExit
<1>5. ASSUME NEW e \in todo, Enter(e, t)
      PROVE  row'[t] = "NEW"
  BY <1>1, <1>5 DEF Enter
<1>6. ASSUME t = cur, FillPaper
      PROVE  row'[t] = "FILLED"
  BY <1>1, <1>6 DEF FillPaper
<1>7. ASSUME NEW x \in Threads, ExitPaper(x, t)
      PROVE  row'[t] = "CLOSED"
  BY <1>1, <1>7 DEF ExitPaper
<1> QED
  BY <1>2, <1>3, <1>4, <1>5, <1>6, <1>7, RowStep

\* A live row that records an exit order stays the row of an exit.
LEMMA ExitRow ==
  ASSUME ProcessInv, ModesApart, AnswersHold, ActiveKeys, RowsFit, ~Paper, [Next]_vars,
         NEW t \in Used, row[t] \in {"none", "CLOSED"} \cup ExitStatuses
  PROVE  row'[t] \in {"none", "CLOSED"} \cup ExitStatuses
<1>1. t \in Trades
  BY DEF Used
<1>2. CASE row[t] = "none"
  <2>1. ~ \E e \in todo : Enter(e, t)
    BY DEF Enter, Unused
  <2> QED
    BY <1>1, <1>2, <2>1, RowBorn
<1>3. CASE row[t] \in {"CLOSED"} \cup ExitStatuses
  <2>1. row'[t] # row[t] => RowMayBecome(row[t], row'[t])
    BY <1>1, RowMove
  <2> QED
    BY <1>3, <2>1 DEF RowMayBecome, EntryStep, BoughtStatuses, ExitStatuses
<1> QED
  BY <1>2, <1>3

\* Every step keeps the rows within what RowHolds says.
LEMMA FitsNext ==
  ASSUME RecoveryInv, Work
  PROVE  TableFits(row, column)'
<1> USE DEF RecoveryInv, TablesOK
<1>1. [Next]_vars /\ TypeOK' /\ TypeOK
  BY TypeNext DEF Work, ProcessInv
<1>2. row' \in [Trades -> TradeStatus] /\ column' \in [Trades -> Columns]
  BY <1>1, ColumnStep DEF TypeOK, RecordsOK, TableFits
<1>3. ASSUME NEW t \in Trades, row'[t] # "none"
      PROVE  t \in Used'
  <2>1. CASE row[t] # "none"
    BY <1>1, <2>1, TradesKept DEF TableFits, RowHolds
  <2>2. CASE row[t] = "none"
    <3>1. PICK e \in todo : Enter(e, t)
      BY <1>1, <1>3, <2>2, RowBorn
    <3>2. row'[t] = "NEW"
      BY <1>1, <3>1 DEF Enter, SetRow, TypeOK, RecordsOK
    <3> QED
      BY <1>1, <2>2, <3>2, InsertedRow DEF Inserted
  <2> QED
    BY <2>1, <2>2
<1>4. ASSUME NEW t \in Trades, column'[t].exitId
      PROVE  ~Paper /\ t \in Used' /\ row'[t] \in {"none", "CLOSED"} \cup ExitStatuses
  <2>1. CASE column[t].exitId
    <3>1. ~Paper /\ t \in Used /\ row[t] \in {"none", "CLOSED"} \cup ExitStatuses
      BY <2>1 DEF TableFits, RowHolds
    <3>2. t \in Used'
      BY <1>1, <3>1, TradesKept
    <3> QED
      BY <1>1, <3>1, <3>2, ExitRow DEF ByMode
  <2>2. CASE \E x \in Threads : LogExit(x) /\ unlogged[x] = t
    <3>1. PICK x \in Threads : LogExit(x) /\ unlogged[x] = t
      BY <2>2
    <3>2. ~Paper /\ t \in Used
      BY <1>1, <3>1 DEF ModesApart, LogExit, TypeOK, ExitsOK
    <3>3. row'[t] = "EXIT_SUBMITTED"
      BY <1>1, <3>1 DEF LogExit, SetRow, TypeOK, RecordsOK
    <3> QED
      BY <1>1, <3>2, <3>3, TradesKept DEF ExitStatuses
  <2> QED
    BY <1>4, <2>1, <2>2, ColumnStep DEF TableFits
<1>5. ASSUME NEW t \in Trades, Paper
      PROVE  row'[t] \in {"none", "NEW", "FILLED", "CLOSED"}
  BY <1>1, <1>5, PaperRow DEF TableFits, RowHolds
<1> QED
  BY <1>2, <1>3, <1>4, <1>5 DEF TableFits, RowHolds

\* A row that is filled by a step is filled with what the order was filled with.
LEMMA FilledRow ==
  ASSUME ProcessInv, ModesApart, AnswersHold, RowsFit, ~Paper, [Next]_vars,
         NEW t \in Used, ~BoughtRow(t), BoughtRow(t)'
  PROVE  EntryFilled /\ t = rcur.trade
<1>1. t \in Trades /\ t # NoTrade
  BY TradeAssumption DEF Used
<1>2. row'[t] # row[t]
  BY DEF BoughtRow
<1>3. pos[t] = "PENDING_ENTRY" /\ pos'[t] = "OPEN"
  BY <1>1, <1>2, RowMove
  DEF BoughtRow, ExitStatuses, CashHeld, InsufficientFunds, ReserveFails, EntryFails, SetRow,
      ProcessInv, TypeOK, RecordsOK
<1>4. t # cur
  BY <1>1, <1>3 DEF ProcessInv, EntryUntracked
<1>5. ASSUME NEW x \in Threads
      PROVE  ~(ExitPaper(x, t) \/ ExitAccepted(x, t) \/ ExitFails(x, t))
  BY <1>3 DEF ExitPaper, ExitAccepted, ExitFails, Submitting, ProcessInv, ExclusiveExit
<1>6. ASSUME t = rcur.trade, EntryDead \/ ExitFilled \/ ExitDead
      PROVE  FALSE
  <2>1. ~(ExitFilled \/ ExitDead)
    BY <1>3, <1>6 DEF ExitFilled, ExitDead, Applying, ProcessInv, PolledPositions
  <2>2. ~EntryDead
    BY <1>1, <1>3, <1>6 DEF EntryDead, Remove, ProcessInv, TypeOK, BookOK
  <2> QED
    BY <1>6, <2>1, <2>2
<1> QED
  BY <1>1, <1>3, <1>4, <1>5, <1>6, BookStep

\* The answer of a filled entry gives the shares of the order, at least one.
LEMMA FilledAnswer ==
  ASSUME ProcessInv, AnswersHold, SharesCovered, Applying("entry", "filled")
  PROVE  /\ rcur.trade \in Used /\ FilledUp(EntryId(rcur.trade))
         /\ rcur.filled = Filled(EntryId(rcur.trade)) /\ rcur.filled # 0
<1>1. rcur.trade \in Used /\ rcur.doing = "entry" /\ rcur.report = "filled"
  BY DEF Applying, ProcessInv, TypeOK, ReconcilerOK
<1>2. PolledOrder = EntryId(rcur.trade)
  BY <1>1 DEF PolledOrder, EntryId
<1>3. /\ Exists(EntryId(rcur.trade))
      /\ orders[EntryId(rcur.trade)].status = "filled"
      /\ orders[EntryId(rcur.trade)].filled = rcur.filled
  BY <1>1, <1>2 DEF AnswersHold
<1>4. orders[EntryId(rcur.trade)].filled # 0
  BY <1>3 DEF SharesCovered, Exists
<1> QED
  BY <1>1, <1>3, <1>4 DEF FilledUp, Filled

\* Every step keeps what the rows tell of the orders.
LEMMA TellsNext ==
  ASSUME RecoveryInv, Work
  PROVE  TableTells(row, column)'
<1> USE DEF RecoveryInv, TablesOK
<1> SUFFICES ASSUME ~Paper, NEW t \in Used'
             PROVE  RowTells(t, row, column)'
  BY DEF TableTells
<1>1. [Next]_vars /\ TypeOK /\ RowsFit
  BY DEF Work, ProcessInv, ByMode
<1>2. t \in Trades /\ row \in [Trades -> TradeStatus] /\ column \in [Trades -> Columns]
  BY <1>1 DEF Used, TypeOK, RecordsOK, TableFits
<1>3. CASE t \notin Used
  <2>1. PICK e \in todo : Enter(e, t)
    BY <1>1, <1>3, NewTrade
  <2>2. row'[t] = "NEW"
    BY <1>2, <2>1 DEF Enter, SetRow
  <2>3. ~column[t].exitId
    BY <1>2, <1>3 DEF TableFits, RowHolds
  <2>4. \A x \in Threads : unlogged[x] # t
    BY <1>1, <1>2, <1>3, TradeAssumption DEF TypeOK, ExitsOK
  <2>5. ~column'[t].exitId
    BY <1>2, <2>3, <2>4, ColumnStep
  <2> QED
    BY <2>2, <2>5 DEF RowTells, ExitStatuses
<1>4. CASE t \in Used
  <2>1. RowTells(t, row, column)
    BY <1>4 DEF TableTells
  <2>2. row'[t] \in {"SUBMITTED", "PARTIALLY_FILLED"} => Exists(EntryId(t))'
    <3>1. CASE row'[t] = row[t]
      BY <1>1, <1>4, <2>1, <3>1, TradeOrdersStay DEF RowTells
    <3>2. CASE t = cur /\ EntryAccepted
      BY <1>1, <1>4, <3>2, TradesKept DEF EntryAccepted, Accept, Put, Exists
    <3>3. CASE row'[t] # row[t] /\ row'[t] = "PARTIALLY_FILLED"
      <4>1. row[t] \in {"SUBMITTED", "PARTIALLY_FILLED"}
        BY <1>1, <1>2, <3>3, RowMove DEF RowMayBecome, EntryStep, BoughtStatuses, ExitStatuses
      <4> QED
        BY <1>1, <1>4, <2>1, <4>1, TradeOrdersStay DEF RowTells
    <3>4. CASE row'[t] # row[t] /\ row'[t] = "SUBMITTED"
      <4>1. t = cur /\ EntryAccepted
        BY <1>1, <1>2, <1>4, <3>4, RowMove
        DEF InsufficientFunds, ReserveFails, EntryFails, SetRow, BoughtRow, ExitStatuses
      <4> QED
        BY <3>2, <4>1
    <3> QED
      BY <3>1, <3>3, <3>4
  <2>3. BoughtRow(t)' => FilledUp(EntryId(t))' /\ FilledOr(column'[t]) = Filled(EntryId(t))'
    <3>1. CASE BoughtRow(t)
      <4>1. row[t] # "none" /\ ~ReportsFill(t)
        BY <1>1, <1>2, <3>1
        DEF ReportsFill, ProcessInv, PolledPositions, RowsFit, BoughtRow, ExitStatuses
      <4>2. FilledOr(column'[t]) = FilledOr(column[t])
        BY <1>2, <4>1, ColumnStep DEF FilledOr
      <4>3. FilledUp(EntryId(t)) /\ FilledOr(column[t]) = Filled(EntryId(t))
        BY <2>1, <3>1 DEF RowTells, BoughtRow
      <4> QED
        BY <1>1, <1>4, <4>2, <4>3, TradeOrdersStay
    <3>2. CASE ~BoughtRow(t) /\ BoughtRow(t)'
      <4>1. EntryFilled /\ t = rcur.trade
        BY <1>1, <1>4, <3>2, FilledRow
      <4>2. FilledUp(EntryId(t)) /\ rcur.filled = Filled(EntryId(t)) /\ rcur.filled # 0
        BY <4>1, FilledAnswer DEF EntryFilled
      <4>3. row[t] # "none"
        BY <1>1, <1>2, <4>1 DEF EntryFilled, Applying, ProcessInv, PolledPositions, RowsFit
      <4>4. ReportsFill(t)
        BY <4>1 DEF ReportsFill, EntryFilled, Applying, ProcessInv, TypeOK, ReconcilerOK, Job
      <4>5. FilledOr(column'[t]) = rcur.filled
        BY <1>2, <4>2, <4>3, <4>4, ColumnStep DEF FilledOr
      <4> QED
        BY <1>1, <1>4, <4>2, <4>5, TradeOrdersStay
    <3> QED
      BY <3>1, <3>2
  <2>4. row'[t] = "EXIT_SUBMITTED" => column'[t].exitId
    <3>1. CASE row[t] = "EXIT_SUBMITTED"
      BY <1>2, <2>1, <3>1, ColumnStep DEF RowTells
    <3>2. CASE row[t] # "EXIT_SUBMITTED" /\ row'[t] = "EXIT_SUBMITTED"
      <4>1. \E x \in Threads : LogExit(x) /\ t = unlogged[x]
        BY <1>1, <1>2, <3>2, RowStep
        DEF SetRow, Enter, FillPaper, CashHeld, InsufficientFunds, ReserveFails, EntryAccepted,
            EntryFails, ExitPaper, ExitFails, EntryFilled, EntryDead, ExitFilled, ExitDead,
            StillWorking, PartialStatus
      <4> QED
        BY <1>2, <4>1, ColumnStep
    <3> QED
      BY <3>1, <3>2
  <2>5. column'[t].exitId => Exists(ExitId(t))'
    <3>1. column[t].exitId => Exists(ExitId(t))
      BY <2>1 DEF RowTells
    <3>2. ASSUME NEW x \in Threads, LogExit(x), unlogged[x] = t
          PROVE  Exists(ExitId(t))
      BY <3>2 DEF UnloggedExits, LogExit
    <3> QED
      BY <1>1, <1>2, <1>4, <3>1, <3>2, TradeOrdersStay, ColumnStep
  <2> QED
    BY <2>2, <2>3, <2>4, <2>5 DEF RowTells, BoughtRow
<1> QED
  BY <1>3, <1>4

\* What an old table says stays true: rows are about orders, and orders stay.
LEMMA SavedNext ==
  ASSUME RecoveryInv, Work, saved # UpToDate
  PROVE  /\ TableFits(saved.row, saved.column)' /\ TableTells(saved.row, saved.column)'
         /\ OneRowPerKey(saved.row)'
<1>1. [Next]_vars /\ TypeOK /\ saved' = saved
  BY DEF Work, RecoveryInv, ProcessInv
<1>2. /\ TableFits(saved.row, saved.column) /\ TableTells(saved.row, saved.column)
      /\ OneRowPerKey(saved.row)
  BY DEF RecoveryInv, TablesOK
<1>3. TableFits(saved.row, saved.column)'
  BY <1>1, <1>2, TradesKept DEF TableFits, RowHolds
<1>4. ASSUME NEW t \in Used', ~Paper
      PROVE  RowTells(t, saved.row, saved.column)'
  <2>1. t \in Trades
    BY DEF Used
  <2>2. CASE t \in Used
    <3>1. RowTells(t, saved.row, saved.column)
      BY <1>2, <1>4, <2>2 DEF TableTells
    <3> QED
      BY <1>1, <2>2, <3>1, TradeOrdersStay DEF RowTells
  <2>3. CASE t \notin Used
    BY <1>1, <1>2, <2>1, <2>3 DEF TableFits, RowHolds, RowTells, ExitStatuses
  <2> QED
    BY <2>2, <2>3
<1>5. TableTells(saved.row, saved.column)'
  BY <1>4 DEF TableTells
<1>6. OneRowPerKey(saved.row)'
  <2> SUFFICES ASSUME NEW t \in Used', NEW u \in Used',
                      saved.row[t] # "none", saved.row[u] # "none",
                      trade'[t].key = trade'[u].key
               PROVE  t = u
    BY <1>1 DEF OneRowPerKey
  <2>1. t \in Used /\ u \in Used
    BY <1>2 DEF TableFits, RowHolds, Used
  <2>2. trade'[t] = trade[t] /\ trade'[u] = trade[u]
    BY <1>1, <2>1, TradesKept
  <2> QED
    BY <1>2, <2>1, <2>2 DEF OneRowPerKey
<1> QED
  BY <1>3, <1>5, <1>6

\* The unique index of the table keeps one row to a key.
LEMMA OneRowNext ==
  ASSUME RecoveryInv, Work
  PROVE  OneRowPerKey(Rows)' /\ refused' \subseteq Used'
<1>1. [Next]_vars /\ TypeOK
  BY DEF Work, RecoveryInv, ProcessInv
<1>2. refused' = refused \cup {t \in Trades : Inserted(t) /\ KeyTaken(t)}
  BY DEF Work
<1>3. \A t \in Trades : Inserted(t) =>
        t \in Used' /\ t \notin Used /\ \A u \in Trades \ {t} : row'[u] = row[u]
  BY <1>1, InsertedRow DEF RecoveryInv
<1>4. ASSUME NEW t \in Trades, row'[t] # "none", row[t] = "none"
      PROVE  Inserted(t)
  <2>1. PICK e \in todo : Enter(e, t)
    BY <1>1, <1>4, RowBorn DEF RecoveryInv
  <2> QED
    BY <1>1, <1>4, <2>1 DEF Inserted, Enter, SetRow, TypeOK, RecordsOK
<1>5. \A t \in Trades : row[t] # "none" => t \in Used
  BY DEF RecoveryInv, TablesOK, TableFits, RowHolds
<1>6. ASSUME NEW t \in Used', NEW u \in Used', Rows'[t] # "none", Rows'[u] # "none",
             trade'[t].key = trade'[u].key, Inserted(t), u # t
      PROVE  FALSE
  <2>1. t \in Trades /\ u \in Trades
    BY DEF Used
  <2>2. /\ t \notin refused' /\ u \notin refused' /\ u \notin refused
        /\ row'[u] # "none"
    BY <1>2, <1>6, <2>1 DEF Rows
  <2>3. u \in Used \ {t} /\ row[u] # "none"
    BY <1>3, <1>5, <1>6, <2>1, <2>2
  <2>4. trade[u].key = trade'[t].key
    BY <1>1, <1>6, <2>3, TradesKept
  <2>5. KeyTaken(t)
    BY <2>2, <2>3, <2>4 DEF KeyTaken
  <2> QED
    BY <1>2, <1>6, <2>1, <2>2, <2>5
<1>7. ASSUME NEW t \in Used', NEW u \in Used', Rows'[t] # "none", Rows'[u] # "none",
             trade'[t].key = trade'[u].key
      PROVE  t = u
  <2>1. t \in Trades /\ u \in Trades
    BY DEF Used
  <2>2. CASE Inserted(t) \/ Inserted(u)
    BY <1>6, <1>7, <2>2
  <2>3. CASE ~Inserted(t) /\ ~Inserted(u)
    <3>1. row[t] # "none" /\ row[u] # "none" /\ t \notin refused /\ u \notin refused
      BY <1>2, <1>4, <1>7, <2>1, <2>3 DEF Rows
    <3>2. t \in Used /\ u \in Used /\ Rows[t] # "none" /\ Rows[u] # "none"
      BY <1>5, <2>1, <3>1 DEF Rows
    <3>3. trade[t].key = trade[u].key
      BY <1>1, <1>7, <3>2, TradesKept
    <3> QED
      BY <3>2, <3>3 DEF RecoveryInv, TablesOK, OneRowPerKey
  <2> QED
    BY <2>2, <2>3
<1>8. refused' \subseteq Used'
  BY <1>1, <1>2, <1>3, TradesKept DEF RecoveryInv, TablesOK
<1> QED
  BY <1>7, <1>8 DEF OneRowPerKey

\* Every step keeps the tables as they should be.
LEMMA TablesNext ==
  ASSUME RecoveryInv, Work
  PROVE  TablesOK'
<1>1. saved' = saved
  BY DEF Work
<1> QED
  BY <1>1, FitsNext, TellsNext, SavedNext, OneRowNext DEF TablesOK

-----------------------------------------------------------------------------
(* Steps and the keys                                                      *)

\* Every step keeps the keys of the active trades taken and apart.
LEMMA ActiveNext ==
  ASSUME RecoveryInv, Work
  PROVE  ActiveKeys'
<1>1. [Next]_vars /\ ProcessInv /\ TypeOK /\ ActiveKeys /\ AnswersHold
  BY DEF Work, RecoveryInv, ProcessInv
<1>2. \A t \in Trades : row[t] # "none" => row'[t] # "none"
  BY <1>1, RowBorn
<1>3. \A t \in Used : t \in Used' /\ trade'[t] = trade[t]
  BY <1>1, TradesKept
<1>4. /\ \A t \in Trades : Active(t) => t \in Used /\ trade[t].key \in seen /\ row[t] # "none"
      /\ \A t, u \in Trades : Active(t) /\ Active(u) /\ trade[t].key = trade[u].key => t = u
  BY <1>1 DEF ActiveKeys
<1> DEFINE Apart ==
      /\ \A t \in Trades : Active(t)' => t \in Used' /\ trade'[t].key \in seen' /\ row'[t] # "none"
      /\ \A t, u \in Trades : Active(t)' /\ Active(u)' /\ trade'[t].key = trade'[u].key => t = u
<1> HIDE DEF Active
<1>5. ASSUME KeepsKeys
      PROVE  Apart
  <2>1. \A t \in Trades : Active(t)' => Active(t)
    BY <1>5 DEF KeepsKeys
  <2>2. seen \subseteq seen' /\ trade' = trade
    BY <1>5 DEF KeepsKeys
  <2> QED
    BY <1>2, <1>3, <1>4, <2>1, <2>2
<1>6. ASSUME NEW e \in todo, NEW t \in Trades, Enter(e, t)
      PROVE  Apart
  <2>1. t \in Used' /\ t \notin Used /\ trade'[t].key \notin seen
    <3>1. t \in Used'
      BY <1>1, <1>6, EnterTypes DEF Enter, TypeOK, ConsumerOK
    <3>2. t \notin Used
      BY <1>6 DEF Enter, Unused
    <3> QED
      BY <1>1, <3>1, <3>2, NewTrade
  <2>2. trade'[t].key \in seen' /\ seen \subseteq seen' /\ row'[t] # "none"
    <3>1. trade'[t].key = NextKey(KeyBase(e, tick.date))
      BY <1>1, <1>6 DEF Enter, TypeOK, TradesOK
    <3>2. seen' = seen \cup {NextKey(KeyBase(e, tick.date))} /\ row' = [row EXCEPT ![t] = "NEW"]
      BY <1>6 DEF Enter, TakeKey, SetRow
    <3> QED
      BY <1>1, <3>1, <3>2 DEF TypeOK, RecordsOK
  <2>3. \A u \in Trades : Active(u)' => Active(u) \/ u = t
    BY <1>6 DEF Active, Tracked, Enter, book
  <2> QED
    BY <1>2, <1>3, <1>4, <2>1, <2>2, <2>3
<1>7. ASSUME NEW t \in Used, FreesKey(t)
      PROVE  Apart
  <2>1. /\ Active(t) /\ t \in Trades /\ trade' = trade
        /\ \A u \in Trades : Active(u)' => Active(u) /\ u # t
    BY <1>7 DEF FreesKey, Used
  <2>2. seen' = seen \ {trade[t].key}
    BY <1>7 DEF FreesKey, Forget
  <2>3. \A u \in Trades : Active(u)' => trade[u].key # trade[t].key
    BY <1>4, <2>1
  <2> QED
    BY <1>2, <1>3, <1>4, <2>1, <2>2, <2>3
<1>8. Apart
  BY <1>1, <1>5, <1>6, <1>7, ActiveStep DEF KeySteps
<1>9. ASSUME NEW x \in Threads, unlogged'[x] # NoTrade
      PROVE  row'[unlogged'[x]] # "none"
  <2>1. unlogged[x] # NoTrade => unlogged[x] \in Trades
    BY <1>1 DEF TypeOK, ExitsOK, Used
  <2>2. CASE unlogged'[x] = unlogged[x]
    BY <1>1, <1>2, <1>9, <2>1, <2>2 DEF ActiveKeys
  <2>3. ASSUME NEW t \in Trades, ExitAccepted(x, t), unlogged'[x] = t
        PROVE  row'[t] # "none"
    <3>1. pos[t] = "EXITING"
      BY <1>1, <2>3 DEF ExitAccepted, Submitting, ProcessInv, ExclusiveExit
    <3>2. Active(t)
      BY <3>1 DEF Active, Tracked
    <3> QED
      BY <1>2, <1>4, <3>2
  <2> QED
    BY <1>1, <1>9, <2>2, <2>3, UnloggedStep
<1> QED
  BY <1>8, <1>9 DEF ActiveKeys

\* Every step keeps a bound of the attempts.
LEMMA AttemptsNext ==
  ASSUME RecoveryInv, Work
  PROVE  AttemptsBounded'
<1>1. [Next]_vars /\ ProcessInv /\ TypeOK
  BY DEF Work, RecoveryInv, ProcessInv
<1>2. PICK n \in Nat : \A t \in Used : AttemptOf(t) =< n
  BY DEF RecoveryInv, AttemptsBounded
<1>3. CASE Used' \subseteq Used
  <2>1. \A t \in Used' : AttemptOf(t)' =< n
    BY <1>1, <1>2, <1>3, TradesKept
  <2> QED
    BY <2>1 DEF AttemptsBounded
<1>4. ASSUME NEW t \in Used', t \notin Used
      PROVE  AttemptsBounded'
  <2>1. PICK e \in todo : Enter(e, t)
    BY <1>1, <1>4, NewTrade
  <2>2. Used' \subseteq Used \cup {t}
    BY <2>1 DEF Enter, Used
  <2>3. AttemptOf(t)' = attempts[BaseOf(t)'] /\ BaseOf(t)' \in Bases
    BY <1>1, <1>4, NewTrade
  <2>4. AttemptOf(t)' \in Nat
    BY <1>1, <2>3 DEF TypeOK, RecordsOK
  <2>5. \A u \in Used : AttemptOf(u)' =< n /\ AttemptOf(u)' \in Nat
    BY <1>1, <1>2, TradesKept, UsedKeys
  <2>6. PICK m \in Nat : n =< m /\ AttemptOf(t)' =< m
    <3>1. n + AttemptOf(t)' \in Nat /\ n =< n + AttemptOf(t)' /\ AttemptOf(t)' =< n + AttemptOf(t)'
      BY <2>4
    <3> QED
      BY <3>1
  <2>7. \A u \in Used' : AttemptOf(u)' =< m
    BY <2>2, <2>4, <2>5, <2>6
  <2> QED
    BY <2>7 DEF AttemptsBounded
<1> QED
  BY <1>3, <1>4

\* The exits of earlier attempts stay filled, and a counter moves on past one more.
LEMMA EarlierNext ==
  ASSUME RecoveryInv, Work
  PROVE  EarlierSold'
<1> SUFFICES ASSUME ~Paper PROVE EarlierSold'
  BY DEF EarlierSold
<1>1. [Next]_vars /\ ProcessInv /\ TypeOK /\ ModesApart /\ OwnOrders /\ AnswersHold
  BY DEF Work, RecoveryInv, ProcessInv
<1>2. /\ \A b \in Bases : SoldUpTo(b, attempts[b])
      /\ \A t \in Used : SoldUpTo(BaseOf(t), AttemptOf(t))
  BY DEF RecoveryInv, EarlierSold
<1>3. \A o : FilledUp(o) => FilledUp(o)'
  BY <1>1, OrderStays
<1>4. attempts \in [Bases -> Nat]
  BY <1>1 DEF TypeOK, RecordsOK
<1>5. ASSUME NEW b, NEW n, SoldUpTo(b, n)
      PROVE  SoldUpTo(b, n)'
  BY <1>3, <1>5 DEF SoldUpTo
<1>6. ASSUME NEW t \in Used'
      PROVE  SoldUpTo(BaseOf(t), AttemptOf(t))'
  <2>1. CASE t \in Used
    <3>1. BaseOf(t)' = BaseOf(t) /\ AttemptOf(t)' = AttemptOf(t)
      BY <1>1, <2>1, TradesKept
    <3> QED
      BY <1>2, <1>3, <2>1, <3>1 DEF SoldUpTo
  <2>2. CASE t \notin Used
    <3>1. AttemptOf(t)' = attempts[BaseOf(t)'] /\ BaseOf(t)' \in Bases
      BY <1>1, <2>2, NewTrade
    <3> QED
      BY <1>2, <1>3, <3>1 DEF SoldUpTo
  <2> QED
    BY <2>1, <2>2
<1>7. ASSUME NEW b \in Bases
      PROVE  SoldUpTo(b, attempts[b])'
  <2>1. CASE attempts'[b] = attempts[b]
    BY <1>2, <1>3, <2>1 DEF SoldUpTo
  <2>2. ASSUME NEW t \in Used, attempts' = [attempts EXCEPT ![BaseOf(t)] = AttemptOf(t) + 1],
               Exited(t)', b = BaseOf(t)
        PROVE  SoldUpTo(b, attempts[b])'
    <3>1. PICK n \in Nat : n = AttemptOf(t)
      BY <1>1, <2>2 DEF TypeOK, TradesOK
    <3>2. attempts'[b] = n + 1 /\ trade[t].key = ComposeKey(b, n)
      BY <1>1, <1>4, <2>2, <3>1 DEF TypeOK, TradesOK
    <3>3. ExitId(t)' = OrderId(ComposeKey(b, n), "exit")
      BY <1>1, <3>2, TradesKept DEF ExitId
    <3>4. FilledUp(OrderId(ComposeKey(b, n), "exit"))'
      BY <2>2, <3>3 DEF Exited, FilledUp, Exists
    <3>5. \A m \in 0 .. n - 1 : FilledUp(OrderId(ComposeKey(b, m), "exit"))'
      BY <1>2, <1>3, <2>2, <3>1 DEF SoldUpTo
    <3>6. \A m \in 0 .. attempts'[b] - 1 : m = n \/ m \in 0 .. n - 1
      BY <3>1, <3>2
    <3> QED
      BY <3>4, <3>5, <3>6 DEF SoldUpTo
  <2> QED
    BY <1>1, <1>4, <2>1, <2>2, CounterStep
<1> QED
  BY <1>6, <1>7 DEF EarlierSold

\* A working exit order stays known until its row is written.
LEMMA UnloggedNext ==
  ASSUME RecoveryInv, Work
  PROVE  UnloggedExits'
<1>1. [Next]_vars /\ ProcessInv /\ TypeOK /\ ModesApart /\ AnswersHold
  BY DEF Work, RecoveryInv, ProcessInv
<1> SUFFICES ASSUME NEW x \in Threads, unlogged'[x] # NoTrade
             PROVE  /\ Exists(ExitId(unlogged[x]))'
                    /\ Working(ExitId(unlogged[x]))' =>
                         /\ pos'[unlogged'[x]] = "EXITING"
                         /\ exitOrder'[unlogged'[x]] = ExitId(unlogged[x])'
  BY DEF UnloggedExits
<1>2. CASE unlogged'[x] = unlogged[x]
  <2>1. PICK t \in Used : t = unlogged[x]
    BY <1>1, <1>2 DEF TypeOK, ExitsOK
  <2>2. Exists(ExitId(t)) /\ (Working(ExitId(t)) => pos[t] = "EXITING" /\ exitOrder[t] = ExitId(t))
    BY <1>2, <2>1 DEF RecoveryInv, UnloggedExits
  <2>3. /\ Exists(ExitId(t))' /\ ExitId(t)' = ExitId(t)
        /\ Working(ExitId(t))' => Working(ExitId(t))
    BY <1>1, <2>2, TradeOrdersStay, TradesKept
  <2>4. Working(ExitId(t))' => pos'[t] = "EXITING" /\ exitOrder'[t] = ExitId(t)'
    BY <1>1, <2>2, <2>3, OrdersKept
  <2>5. unlogged'[x] = t
    BY <1>2, <2>1
  <2> QED
    BY <2>3, <2>4, <2>5 DEF Exists, Working, ExitId
<1>3. ASSUME NEW t \in Trades, ExitAccepted(x, t), unlogged'[x] = t
      PROVE  /\ Exists(ExitId(t))' /\ pos'[t] = "EXITING" /\ exitOrder'[t] = ExitId(t)'
  <2>1. t \in Used /\ pos[t] = "EXITING"
    BY <1>1, <1>3 DEF ExitAccepted, Submitting, ProcessInv, ExclusiveExit, TypeOK, ExitsOK
  <2>2. ExitId(t)' = ExitId(t)
    BY <1>1, <2>1, TradesKept
  <2>3. exitOrder'[t] = ExitId(t) /\ pos'[t] = "EXITING"
    BY <1>1, <1>3, <2>1 DEF ExitAccepted, TypeOK, BookOK
  <2> QED
    BY <1>3, <2>2, <2>3 DEF ExitAccepted, Accept, Put, Exists
<1>4. ASSUME NEW t \in Trades, ExitAccepted(x, t), unlogged'[x] = t
      PROVE  /\ Exists(ExitId(unlogged[x]))'
             /\ pos'[unlogged'[x]] = "EXITING"
             /\ exitOrder'[unlogged'[x]] = ExitId(unlogged[x])'
  BY <1>3, <1>4 DEF Exists, ExitId
<1> QED
  BY <1>1, <1>2, <1>4, UnloggedStep

-----------------------------------------------------------------------------
(* Steps and the book                                                      *)

\* Every step of a live process keeps in the book what its rows have under way.
LEMMA RecordedNext ==
  ASSUME RecoveryInv, Work, ~Paper
  PROVE  RecordedPositionsTracked'
<1>1. /\ [Next]_vars /\ ProcessInv /\ TypeOK /\ ModesApart /\ AnswersHold /\ SharesCovered
      /\ RowsFit /\ loaded' = loaded
  BY DEF Work, RecoveryInv, ProcessInv, ByMode
<1> SUFFICES ASSUME loaded, NEW t \in Used'
             PROVE  /\ row'[t] \in {"SUBMITTED", "PARTIALLY_FILLED"} =>
                         pos'[t] = "PENDING_ENTRY" /\ entryOrder'[t] = EntryId(t)'
                    /\ row'[t] = "FILLED" =>
                         pos'[t] \in {"OPEN", "EXITING"} /\ quantity'[t] = Filled(EntryId(t))'
                    /\ row'[t] = "EXIT_SUBMITTED" /\ Working(ExitId(t))' =>
                         pos'[t] = "EXITING" /\ exitOrder'[t] = ExitId(t)'
  BY <1>1 DEF RecordedPositionsTracked
<1>2. /\ t \in Trades /\ t # NoTrade
      /\ row \in [Trades -> TradeStatus] /\ pos \in [Trades -> PositionState \cup {"none"}]
  BY <1>1, TradeAssumption DEF Used, TypeOK, RecordsOK, BookOK
<1>3. CASE t \notin Used
  <2>1. PICK e \in todo : Enter(e, t)
    BY <1>1, <1>3, NewTrade
  <2>2. row'[t] = "NEW"
    BY <1>2, <2>1 DEF Enter, SetRow
  <2> QED
    BY <2>2
<1>4. CASE t \in Used
  <2>1. /\ row[t] \in {"SUBMITTED", "PARTIALLY_FILLED"} =>
             pos[t] = "PENDING_ENTRY" /\ entryOrder[t] = EntryId(t)
        /\ row[t] = "FILLED" => pos[t] \in {"OPEN", "EXITING"}
        /\ row[t] = "EXIT_SUBMITTED" /\ Working(ExitId(t)) =>
             pos[t] = "EXITING" /\ exitOrder[t] = ExitId(t)
    BY <1>4 DEF RecoveryInv, ByMode, RecordedPositionsTracked
  <2>2. EntryId(t)' = EntryId(t) /\ ExitId(t)' = ExitId(t)
    BY <1>1, <1>4, TradesKept
  <2>3. pos[t] # "none" => t # cur
    BY <1>2 DEF RecoveryInv, ProcessInv, EntryUntracked
  <2>4. ASSUME NEW x \in Threads, ExitAccepted(x, t) \/ ExitPaper(x, t) \/ ExitFails(x, t)
        PROVE  pos[t] = "EXITING" /\ (ExitFails(x, t) => row'[t] = "EXIT_FAILED")
    BY <1>1, <1>2, <2>4
    DEF ExitAccepted, ExitPaper, ExitFails, Submitting, SetRow, ProcessInv, ExclusiveExit
  <2>5. ASSUME t = rcur.trade, EntryFilled \/ EntryDead \/ ExitFilled \/ ExitDead
        PROVE  \/ EntryFilled /\ row'[t] = "FILLED" /\ pos'[t] = "OPEN"
               \/ row'[t] \in {"REJECTED", "CLOSED", "EXIT_FAILED"}
    BY <1>2, <2>5
    DEF EntryFilled, EntryDead, ExitFilled, ExitDead, SetRow, MarkOpen
  <2>6. row'[t] \in {"SUBMITTED", "PARTIALLY_FILLED"} =>
          pos'[t] = "PENDING_ENTRY" /\ entryOrder'[t] = EntryId(t)'
    <3>1. CASE t = cur /\ EntryAccepted
      BY <1>1, <1>2, <2>2, <3>1 DEF EntryAccepted, Open, TypeOK, BookOK
    <3>2. CASE row'[t] \in {"SUBMITTED", "PARTIALLY_FILLED"} /\ ~(t = cur /\ EntryAccepted)
      <4>1. row[t] \in {"SUBMITTED", "PARTIALLY_FILLED"}
        <5>1. CASE row'[t] = row[t]
          BY <3>2, <5>1
        <5>2. CASE row'[t] # row[t]
          <6>1. RowMayBecome(row[t], row'[t])
            BY <1>1, <1>2, <5>2, RowMove
          <6>2. row'[t] # "SUBMITTED"
            BY <1>1, <1>2, <1>4, <3>2, <5>2, RowMove
            DEF InsufficientFunds, ReserveFails, EntryFails, SetRow, BoughtRow, ExitStatuses
          <6> QED
            BY <3>2, <6>1, <6>2 DEF RowMayBecome, EntryStep, BoughtStatuses, ExitStatuses
        <5> QED
          BY <5>1, <5>2
      <4>2. pos[t] = "PENDING_ENTRY" /\ entryOrder[t] = EntryId(t)
        BY <2>1, <4>1
      <4>3. pos'[t] = pos[t] /\ entryOrder'[t] = entryOrder[t]
        BY <1>1, <1>2, <2>3, <2>4, <2>5, <3>2, <4>2, BookStep
      <4> QED
        BY <2>2, <4>2, <4>3
    <3> QED
      BY <3>1, <3>2
  <2>7. row'[t] = "FILLED" =>
          pos'[t] \in {"OPEN", "EXITING"} /\ quantity'[t] = Filled(EntryId(t))'
    <3>1. CASE row[t] = "FILLED" /\ row'[t] = "FILLED"
      <4>1. pos[t] \in {"OPEN", "EXITING"}
        BY <2>1, <3>1
      <4>2. ~ \E x \in Threads : ExitPaper(x, t) \/ ExitFails(x, t)
        BY <2>4, <3>1 DEF ExitPaper
      <4>3. \A x \in Threads : ExitAccepted(x, t) => pos'[t] = pos[t]
        BY DEF ExitAccepted
      <4>4. pos'[t] \in {"OPEN", "EXITING"}
        BY <1>1, <1>2, <2>3, <2>5, <3>1, <4>1, <4>2, <4>3, BookStep
      <4> QED
        BY <1>1, <1>4, <4>4, QuantityNext
    <3>2. CASE row[t] # "FILLED" /\ row'[t] = "FILLED"
      <4>1. ~BoughtRow(t)
        BY <1>1, <1>2, <3>2, RowMove DEF RowMayBecome, EntryStep, BoughtStatuses, BoughtRow, ExitStatuses
      <4>2. EntryFilled /\ t = rcur.trade
        BY <1>1, <1>4, <3>2, <4>1, FilledRow DEF BoughtRow
      <4>3. pos'[t] = "OPEN"
        BY <2>5, <3>2, <4>2
      <4> QED
        BY <1>1, <1>4, <4>3, QuantityNext
    <3> QED
      BY <3>1, <3>2
  <2>8. row'[t] = "EXIT_SUBMITTED" /\ Working(ExitId(t))' =>
          pos'[t] = "EXITING" /\ exitOrder'[t] = ExitId(t)'
    <3>1. CASE row[t] = "EXIT_SUBMITTED" /\ Working(ExitId(t))'
      <4>1. Exists(ExitId(t))
        BY <1>4, <3>1 DEF RecoveryInv, TablesOK, TableTells, RowTells
      <4>2. Working(ExitId(t))
        BY <1>1, <1>4, <3>1, <4>1, TradeOrdersStay
      <4> QED
        BY <1>1, <1>4, <2>1, <2>2, <3>1, <4>2, OrdersKept
    <3>2. CASE row[t] # "EXIT_SUBMITTED" /\ row'[t] = "EXIT_SUBMITTED" /\ Working(ExitId(t))'
      <4>1. PICK x \in Threads : LogExit(x) /\ t = unlogged[x]
        BY <1>1, <1>2, <3>2, RowStep
        DEF SetRow, Enter, FillPaper, CashHeld, InsufficientFunds, ReserveFails, EntryAccepted,
            EntryFails, ExitPaper, ExitFails, EntryFilled, EntryDead, ExitFilled, ExitDead,
            StillWorking, PartialStatus
      <4>2. UNCHANGED <<pos, exitOrder>>
        BY <4>1 DEF LogExit, book
      <4>3. Exists(ExitId(t))
        BY <4>1 DEF RecoveryInv, UnloggedExits, LogExit
      <4>4. Working(ExitId(t))
        BY <1>1, <1>4, <3>2, <4>3, TradeOrdersStay
      <4>5. pos[t] = "EXITING" /\ exitOrder[t] = ExitId(t)
        BY <4>1, <4>4 DEF RecoveryInv, UnloggedExits, LogExit
      <4> QED
        BY <2>2, <4>2, <4>5
    <3> QED
      BY <3>1, <3>2
  <2> QED
    BY <2>6, <2>7, <2>8
<1> QED
  BY <1>3, <1>4

\* Every step of a paper process keeps the filled rows and the book the same.
LEMMA PaperNext ==
  ASSUME RecoveryInv, Work, Paper
  PROVE  PaperRows' /\ (pc' = "fill" => row'[cur'] = "NEW")
<1>1. /\ [Next]_vars /\ ProcessInv /\ TypeOK /\ ModesApart /\ AnswersHold
      /\ PaperRows /\ (pc = "fill" => row[cur] = "NEW") /\ UNCHANGED <<loaded, lost>>
      /\ held' = (held \cup Tracked') \ (Tracked \ Tracked') /\ held \subseteq Used
  BY DEF Work, RecoveryInv, ProcessInv, ByMode
<1>2. row \in [Trades -> TradeStatus] /\ pos \in [Trades -> PositionState \cup {"none"}]
  BY <1>1 DEF TypeOK, RecordsOK, BookOK
<1>3. ~(EntryFilled \/ EntryDead \/ ExitFilled \/ ExitDead \/ EntryAccepted)
  BY <1>1
  DEF ModesApart, NoJob, EntryFilled, EntryDead, ExitFilled, ExitDead, EntryAccepted, Applying
<1>4. \A x \in Threads, t \in Trades : ~ExitAccepted(x, t) /\ ~ExitFails(x, t)
  BY DEF ExitAccepted, ExitFails
<1>5. ASSUME NEW x \in Threads, NEW t \in Trades, ExitPaper(x, t)
      PROVE  pos[t] = "EXITING" /\ pos'[t] = "none" /\ row'[t] = "CLOSED"
  BY <1>1, <1>2, <1>5
  DEF ExitPaper, Submitting, Remove, SetRow, ProcessInv, ExclusiveExit
<1>6. ASSUME NEW t \in Trades, t = cur, FillPaper
      PROVE  pos'[t] = "OPEN" /\ row'[t] = "FILLED"
  BY <1>2, <1>6 DEF FillPaper, Open, SetRow
<1>7. ASSUME NEW t \in Used'
      PROVE  /\ t \in Tracked' => row'[t] = "FILLED"
             /\ loaded' /\ row'[t] = "FILLED" => t \in Tracked'
             /\ t \notin lost' => (row'[t] = "FILLED" <=> t \in held')
  <2>1. t \in Trades
    BY DEF Used
  <2>2. (t \in Tracked <=> pos[t] # "none") /\ (t \in Tracked' <=> pos'[t] # "none")
    BY <2>1 DEF Tracked
  <2>3. CASE t \notin Used
    <3>1. PICK e \in todo : Enter(e, t)
      BY <1>1, <2>3, NewTrade
    <3>2. row'[t] = "NEW" /\ pos'[t] = pos[t] /\ pos[t] = "none"
      BY <1>1, <1>2, <2>1, <2>3, <3>1 DEF Enter, SetRow, book, TypeOK, BookOK, Tracked
    <3> QED
      BY <1>1, <2>2, <2>3, <3>2
  <2>4. CASE t \in Used
    <3>1. /\ t \in Tracked => row[t] = "FILLED"
          /\ loaded /\ row[t] = "FILLED" => t \in Tracked
          /\ t \notin lost => (row[t] = "FILLED" <=> t \in held)
      BY <1>1, <2>4 DEF PaperRows
    <3>2. ASSUME NEW x \in Threads, ExitPaper(x, t)
          PROVE  row'[t] = "CLOSED" /\ t \notin Tracked' /\ t \notin held'
      BY <1>1, <1>5, <2>1, <2>2, <3>2
    <3>3. ASSUME t = cur, FillPaper
          PROVE  row'[t] = "FILLED" /\ t \in Tracked' /\ t \in held'
      BY <1>1, <1>6, <2>1, <2>2, <3>3
    <3>4. CASE ~((\E x \in Threads : ExitPaper(x, t)) \/ (t = cur /\ FillPaper))
      <4>1. row'[t] = row[t]
        BY <1>1, <2>1, <2>4, <3>4, PaperRow DEF Enter, Unused
      <4>2. (pos'[t] # "none") <=> (pos[t] # "none")
        BY <1>1, <1>3, <1>4, <2>1, <3>4, BookStep
      <4> QED
        BY <1>1, <2>2, <3>1, <4>1, <4>2
    <3> QED
      BY <3>2, <3>3, <3>4
  <2> QED
    BY <2>3, <2>4
<1>8. PaperRows'
  BY <1>7 DEF PaperRows
<1>9. ASSUME pc' = "fill"
      PROVE  row'[cur'] = "NEW"
  <2>1. CASE UNCHANGED <<pc, cur>>
    <3>1. cur \in Used /\ cur \in Trades /\ cur # NoTrade /\ pos[cur] = "none"
      BY <1>1, <1>9, <2>1, TradeAssumption
      DEF TypeOK, ConsumerOK, Used, ProcessInv, EntryUntracked
    <3>2. ~FillPaper
      BY <1>9 DEF FillPaper, EntryDone
    <3>3. row'[cur] = row[cur]
      BY <1>1, <1>5, <3>1, <3>2, PaperRow DEF Enter, Unused
    <3> QED
      BY <1>1, <1>9, <2>1, <3>3
  <2>2. ASSUME NEW e \in todo, NEW t \in Trades, Enter(e, t)
        PROVE  row'[cur'] = "NEW"
    BY <1>2, <2>2 DEF Enter, SetRow
  <2>3. ~CashHeld /\ ~EntryFails
    BY <1>1 DEF CashHeld, EntryFails, ModesApart
  <2> QED
    BY <1>1, <1>9, <2>1, <2>2, <2>3, ConsumerStep
<1> QED
  BY <1>8, <1>9

\* A step of the process keeps the invariant.
LEMMA WorkNext ==
  ASSUME RecoveryInv, Work
  PROVE  RecoveryInv'
<1>1. /\ [Next]_vars /\ UNCHANGED <<saved, crashes, loaded, lost>>
      /\ ProcessInv /\ TypeOK /\ ModesApart /\ OwnOrders /\ AnswersHold /\ SharesCovered
  BY DEF Work, RecoveryInv, ProcessInv
<1>2. ProcessInv'
  BY <1>1, TypeNext, ActiveStep, ExitsNext DEF ProcessInv
<1>3. ModesApart' /\ OwnOrders' /\ AnswersHold' /\ SharesCovered'
  BY <1>1, ModesNext, OwnOrdersNext, AnswersNext, SharesNext
<1>4. TablesOK' /\ ActiveKeys' /\ AttemptsBounded' /\ EarlierSold' /\ UnloggedExits'
  BY TablesNext, ActiveNext, AttemptsNext, EarlierNext, UnloggedNext
<1>5. ByMode'
  <2>1. ~Paper => RowsFit'
    BY <1>1, RowsNext DEF RecoveryInv, ByMode
  <2> QED
    BY <2>1, RecordedNext, PaperNext DEF ByMode
<1>6. held' \subseteq Used' /\ lost' \subseteq Used'
  <2>1. Used \subseteq Used' /\ Tracked' \subseteq Used'
    BY <1>1, <1>2, TradesKept DEF ProcessInv, TypeOK, BookOK
  <2> QED
    BY <1>1, <2>1 DEF Work, RecoveryInv
<1> QED
  BY <1>1, <1>2, <1>3, <1>4, <1>5, <1>6 DEF RecoveryInv

-----------------------------------------------------------------------------
(* The writer falling behind                                               *)

\* The table a crash leaves, whichever it is, is one that rows and columns fit.
LEMMA TableAsItShouldBe ==
  ASSUME RecoveryInv
  PROVE  /\ TableFits(Rows, column) /\ TableTells(Rows, column) /\ OneRowPerKey(Rows)
         /\ TableFits(Table.row, Table.column) /\ TableTells(Table.row, Table.column)
         /\ OneRowPerKey(Table.row)
<1>1. \A t \in Trades : Rows[t] \in {"none", row[t]}
  BY DEF Rows
<1>2. TableFits(row, column) /\ TableTells(row, column) /\ OneRowPerKey(Rows)
  BY DEF RecoveryInv, TablesOK
<1>3. TableFits(Rows, column)
  <2>1. Rows \in [Trades -> TradeStatus]
    BY <1>2 DEF TableFits, Rows, TradeStatus
  <2> QED
    BY <1>1, <1>2, <2>1 DEF TableFits, RowHolds, ExitStatuses
<1>4. TableTells(Rows, column)
  BY <1>1, <1>2 DEF TableTells, RowTells, ExitStatuses, Used
<1>5. CASE saved = UpToDate
  BY <1>2, <1>3, <1>4, <1>5 DEF Table, Written
<1>6. CASE saved # UpToDate
  BY <1>2, <1>3, <1>4, <1>6 DEF Table, RecoveryInv, TablesOK
<1> QED
  BY <1>2, <1>3, <1>4, <1>5, <1>6

\* Nothing changes while the writer falls behind but what will be left.
LEMMA PauseNext ==
  ASSUME RecoveryInv, UNCHANGED <<vars, column, refused, crashes, loaded, held, lost>>,
         saved' \in {saved, Written}
  PROVE  RecoveryInv'
<1>1. [Next]_vars /\ ProcessInv /\ TypeOK /\ ModesApart /\ OwnOrders /\ AnswersHold /\ SharesCovered
  BY DEF RecoveryInv, ProcessInv
<1>2. ProcessInv'
  BY <1>1, TypeNext, ActiveStep, ExitsNext DEF ProcessInv
<1>3. ModesApart' /\ OwnOrders' /\ AnswersHold' /\ SharesCovered'
  BY <1>1, ModesNext, OwnOrdersNext, AnswersNext, SharesNext
<1>4. /\ UNCHANGED <<trade, pos, quantity, entryOrder, exitOrder, orders, row, seen, attempts>>
      /\ UNCHANGED <<pc, cur, unlogged>>
  BY DEF vars, book, keys, consumer, exits
<1>5. Used' = Used /\ Rows' = Rows
  BY <1>4 DEF Used, Rows
<1>6. \A o : Exists(o)' = Exists(o) /\ FilledUp(o)' = FilledUp(o) /\ Filled(o)' = Filled(o)
  BY <1>4 DEF Exists, FilledUp, Filled
<1>7. TableFits(row, column)' /\ TableTells(row, column)' /\ OneRowPerKey(Rows)'
  <2>1. TableFits(row, column) /\ TableTells(row, column) /\ OneRowPerKey(Rows)
    BY DEF RecoveryInv, TablesOK
  <2> QED
    BY <1>4, <1>5, <1>6, <2>1
    DEF TableFits, RowHolds, TableTells, RowTells, OneRowPerKey, Exists, FilledUp, Filled,
        EntryId, ExitId
<1>8. ASSUME saved' # UpToDate
      PROVE  /\ TableFits(saved.row, saved.column)' /\ TableTells(saved.row, saved.column)'
             /\ OneRowPerKey(saved.row)'
  <2>1. CASE saved' = saved
    <3>1. /\ TableFits(saved.row, saved.column) /\ TableTells(saved.row, saved.column)
          /\ OneRowPerKey(saved.row)
      BY <1>8, <2>1 DEF RecoveryInv, TablesOK
    <3> QED
      BY <1>4, <1>5, <1>6, <2>1, <3>1
      DEF TableFits, RowHolds, TableTells, RowTells, OneRowPerKey, Exists, FilledUp, Filled,
          EntryId, ExitId
  <2>2. CASE saved' = Written
    <3>1. saved'.row = Rows /\ saved'.column = column
      BY <2>2 DEF Written
    <3> QED
      BY <1>4, <1>5, <1>6, <3>1, TableAsItShouldBe
      DEF TableFits, RowHolds, TableTells, RowTells, OneRowPerKey, Exists, FilledUp, Filled,
          EntryId, ExitId
  <2> QED
    BY <2>1, <2>2
<1>9. TablesOK'
  BY <1>5, <1>7, <1>8 DEF TablesOK, RecoveryInv
<1>10. ActiveKeys' /\ AttemptsBounded' /\ UnloggedExits'
  <2>1. ActiveKeys'
    BY <1>4, <1>5 DEF RecoveryInv, ActiveKeys, Active, Tracked
  <2>2. AttemptsBounded'
    BY <1>4, <1>5 DEF RecoveryInv, AttemptsBounded, AttemptOf
  <2>3. UnloggedExits'
    BY <1>4 DEF RecoveryInv, UnloggedExits, Exists, Working, ExitId
  <2> QED
    BY <2>1, <2>2, <2>3
<1>11. EarlierSold'
  BY <1>4, <1>5, <1>6 DEF RecoveryInv, EarlierSold, SoldUpTo, BaseOf, AttemptOf
<1>12. ByMode'
  <2>1. ASSUME ~Paper
        PROVE  RowsFit' /\ RecordedPositionsTracked'
    <3>1. RowsFit'
      BY <1>1, <2>1, RowsNext DEF RecoveryInv, ByMode
    <3>2. RecordedPositionsTracked'
      BY <1>4, <1>5, <2>1
      DEF RecoveryInv, ByMode, RecordedPositionsTracked, Filled, Exists, Working, EntryId, ExitId
    <3> QED
      BY <3>1, <3>2
  <2>2. ASSUME Paper
        PROVE  PaperRows' /\ (pc' = "fill" => row'[cur'] = "NEW")
    BY <1>4, <1>5, <2>2 DEF RecoveryInv, ByMode, PaperRows, Tracked
  <2> QED
    BY <2>1, <2>2 DEF ByMode
<1> QED
  BY <1>2, <1>3, <1>5, <1>9, <1>10, <1>11, <1>12 DEF RecoveryInv

-----------------------------------------------------------------------------
(* A start                                                                 *)

\* A set of numbers that has a bound and a member has a last one.
LEMMA LastOf ==
  ASSUME NEW S \in SUBSET Nat, S # {}, NEW n \in Nat, \A x \in S : x =< n
  PROVE  (CHOOSE a \in S : \A c \in S : c =< a) \in S
<1> DEFINE T == {k \in Nat : \A x \in S : x =< k}
           R == {ss \in Nat \X Nat : ss[1] < ss[2]}
<1>1. PICK k \in T : \A y \in T : ~(<<y, k>> \in R)
  <2>1. n \in T /\ T \subseteq Nat
    OBVIOUS
  <2>2. IsWellFoundedOn(R, Nat)
    BY NatLessThanWellFounded DEF OpToRel
  <2> HIDE DEF T, R
  <2> QED
    BY <2>1, <2>2, WFMin
<1>2. \A y \in T : ~(y < k)
  BY <1>1
<1>3. k \in S
  <2> SUFFICES ASSUME k \notin S PROVE FALSE
    OBVIOUS
  <2>1. PICK x \in S : x \in Nat /\ x =< k
    BY <1>1
  <2>2. k - 1 \in Nat /\ k - 1 < k
    BY <1>1, <2>1
  <2>3. \A y \in S : y =< k - 1
    BY <1>1
  <2> QED
    BY <1>2, <2>2, <2>3
<1>4. \A c \in S : c =< k
  BY <1>1
<1> QED
  BY <1>3, <1>4

\* A restored counter is 0 or the attempt of a trade that is loaded.
LEMMA SeedStep ==
  ASSUME RecoveryInv, NEW trades \in SUBSET Used, Seed(trades), NEW b \in Bases
  PROVE  \/ attempts'[b] = 0
         \/ \E t \in trades : BaseOf(t) = b /\ attempts'[b] = AttemptOf(t)
<1> DEFINE S == AttemptsOf(b, trades)
<1>1. attempts'[b] = IF S = {} THEN 0 ELSE CHOOSE a \in S : \A c \in S : c =< a
  BY DEF Seed
<1>2. S \subseteq Nat
  BY DEF AttemptsOf, RecoveryInv, ProcessInv, TypeOK, TradesOK
<1>3. PICK n \in Nat : \A t \in Used : AttemptOf(t) =< n
  BY DEF RecoveryInv, AttemptsBounded
<1>4. \A x \in S : x =< n
  BY <1>3 DEF AttemptsOf
<1>5. \A x \in S : \E t \in trades : BaseOf(t) = b /\ x = AttemptOf(t)
  BY DEF AttemptsOf
<1> HIDE DEF S
<1>6. S # {} => attempts'[b] \in S
  BY <1>1, <1>2, <1>4, LastOf
<1> QED
  BY <1>1, <1>5, <1>6

\* The trades a start loads, and the book it makes of them.
LEMMA Restored ==
  ASSUME RecoveryInv, NEW trades \in SUBSET {t \in Used : Table.row[t] \in RehydrateStatuses},
         Start(trades)
  PROVE  /\ trades \subseteq Used
         /\ UNCHANGED <<trade, orders, hold>>
         /\ row' = Table.row /\ column' = Table.column
         /\ \A t \in Trades :
              \/ /\ t \notin trades /\ pos'[t] = "none" /\ quantity'[t] = 0
                 /\ entryOrder'[t] = NoId /\ exitOrder'[t] = NoId
              \/ /\ t \in trades
                 /\ pos'[t] = StateFromRow(row'[t])
                 /\ quantity'[t] = FilledOr(column'[t])
                 /\ entryOrder'[t] = IF HasEntryId(row'[t]) THEN EntryId(t) ELSE NoId
                 /\ exitOrder'[t] = IF column'[t].exitId THEN ExitId(t) ELSE NoId
BY DEF Start, Rebuild

\* By the status of its row a loaded position waits for its entry, is open or is being
\* sold, and it has the order of that state.
LEMMA RestoredStates ==
  ASSUME RecoveryInv, NEW trades \in SUBSET {t \in Used : Table.row[t] \in RehydrateStatuses},
         Start(trades), NEW t \in trades
  PROVE  /\ pos'[t] \in PositionState
         /\ pos'[t] = "PENDING_ENTRY" <=> row'[t] \in {"CASH_HELD", "SUBMITTED", "PARTIALLY_FILLED"}
         /\ pos'[t] = "OPEN" <=> row'[t] = "FILLED"
         /\ pos'[t] = "EXITING" <=> row'[t] \in {"EXIT_SUBMITTED", "EXIT_PARTIALLY_FILLED"}
         /\ entryOrder'[t] = IF Paper \/ row'[t] = "CASH_HELD" THEN NoId ELSE EntryId(t)
         /\ exitOrder'[t] # NoId => /\ pos'[t] = "EXITING" /\ ~Paper
                                    /\ exitOrder'[t] = ExitId(t) /\ column'[t].exitId
         /\ ~Paper => RowTells(t, row', column')
         /\ row'[t] \in RehydrateStatuses
<1>1. /\ t \in Trades /\ t \in Used
      /\ row'[t] = Table.row[t] /\ column' = Table.column /\ row' = Table.row
      /\ row'[t] \in RehydrateStatuses
      /\ pos'[t] = StateFromRow(row'[t])
      /\ entryOrder'[t] = IF HasEntryId(row'[t]) THEN EntryId(t) ELSE NoId
      /\ exitOrder'[t] = IF column'[t].exitId THEN ExitId(t) ELSE NoId
  BY Restored DEF Used
<1>2. /\ column'[t].exitId => ~Paper /\ row'[t] \in {"none", "CLOSED"} \cup ExitStatuses
      /\ ~Paper => RowTells(t, row', column')
  BY <1>1, TableAsItShouldBe DEF TableFits, TableTells, RowHolds
<1> QED
  BY <1>1, <1>2
  DEF StateFromRow, RehydrateStatuses, HasEntryId, PositionState, DeadStatuses, ExitStatuses

\* A start gives the types: an empty consumer, no claims, a book of loaded trades.
LEMMA StartProcess ==
  ASSUME RecoveryInv, NEW trades \in SUBSET {t \in Used : Table.row[t] \in RehydrateStatuses},
         Start(trades)
  PROVE  ProcessInv' /\ ModesApart' /\ OwnOrders' /\ AnswersHold'
<1>1. /\ UNCHANGED <<trade, orders, hold, today, afterClose>>
      /\ row' = Table.row /\ column' = Table.column /\ trades \subseteq Used
      /\ pc' = "idle" /\ todo' = {} /\ cur' = NoTrade
      /\ claimed' = [x \in Threads |-> {}] /\ unlogged' = [x \in Threads |-> NoTrade]
      /\ rtodo' = {} /\ rcur' = NoJob /\ lastRun' = 0
  BY DEF Start
<1>2. TypeOK /\ TradesOK' /\ OrdersOK' /\ Used' = Used /\ OrderIds' = OrderIds
  BY <1>1, Frame DEF RecoveryInv, ProcessInv
<1>3. row' \in [Trades -> TradeStatus] /\ column' \in [Trades -> Columns]
  BY <1>1, TableAsItShouldBe DEF TableFits
<1>4. ASSUME NEW t \in Trades
      PROVE  /\ pos'[t] \in PositionState \cup {"none"} /\ (pos'[t] # "none" => t \in trades)
             /\ quantity'[t] \in Nat
             /\ entryOrder'[t] \in OrderIds \cup {NoId} /\ exitOrder'[t] \in OrderIds \cup {NoId}
             /\ exitOrder'[t] # NoId => pos'[t] = "EXITING"
  <2>1. FilledOr(column'[t]) \in Nat
    BY <1>3 DEF FilledOr, Columns
  <2>2. CASE t \in trades
    <3>1. EntryId(t) \in OrderIds /\ ExitId(t) \in OrderIds
      BY <1>1, <2>2 DEF EntryId, ExitId, OrderId, OrderIds
    <3> QED
      BY <2>1, <2>2, <3>1, Restored, RestoredStates
  <2>3. CASE t \notin trades
    BY <2>3, Restored
  <2> QED
    BY <2>2, <2>3
<1>5. BookOK'
  <2>1. /\ pos' = [t \in Trades |-> pos'[t]] /\ quantity' = [t \in Trades |-> quantity'[t]]
        /\ entryOrder' = [t \in Trades |-> entryOrder'[t]]
        /\ exitOrder' = [t \in Trades |-> exitOrder'[t]]
    BY DEF Start, Rebuild
  <2> QED
    BY <1>1, <1>2, <1>4, <2>1 DEF BookOK, Tracked
<1>6. attempts' \in [Bases -> Nat]
  <2>1. Seed(trades)
    BY DEF Start
  <2>2. \A b \in Bases : attempts'[b] \in Nat
    BY <1>1, <1>2, <2>1, SeedStep DEF TypeOK, TradesOK
  <2>3. attempts' = [b \in Bases |-> attempts'[b]]
    BY <2>1 DEF Seed
  <2> QED
    BY <2>2, <2>3
<1>7. RecordsOK'
  BY <1>1, <1>2, <1>3, <1>6 DEF TypeOK, RecordsOK
<1>8. ConsumerOK' /\ ExitsOK' /\ ReconcilerOK' /\ ClockOK'
  <2>1. ConsumerOK'
    BY <1>1 DEF ConsumerOK
  <2>2. ExitsOK'
    BY <1>1 DEF ExitsOK
  <2>3. ReconcilerOK'
    BY <1>1 DEF ReconcilerOK, NoJob, Job
  <2>4. ClockOK'
    BY <1>1, <1>2 DEF TypeOK, ClockOK
  <2> QED
    BY <2>1, <2>2, <2>3, <2>4
<1>9. TypeOK'
  BY <1>2, <1>5, <1>7, <1>8 DEF TypeOK
<1>10. EntryUntracked' /\ ExclusiveExit' /\ PolledPositions'
  BY <1>1, <1>4 DEF EntryUntracked, ExclusiveExit, PolledPositions, NoJob
<1>11. ModesApart' /\ AnswersHold'
  BY <1>1 DEF RecoveryInv, ModesApart, AnswersHold, NoJob
<1>12. OwnOrders'
  <2> SUFFICES ASSUME NEW t \in Trades, entryOrder'[t] # NoId \/ exitOrder'[t] # NoId
               PROVE  /\ t \in Used
                      /\ entryOrder'[t] # NoId => entryOrder'[t] = EntryId(t) /\ Exists(EntryId(t))
                      /\ exitOrder'[t] # NoId => exitOrder'[t] = ExitId(t) /\ Exists(ExitId(t))
    BY <1>1, <1>2 DEF OwnOrders, EntryId, ExitId, Exists
  <2>1. t \in trades /\ t \in Used
    BY <1>1, Restored
  <2>2. entryOrder'[t] # NoId => Exists(EntryId(t))
    BY <2>1, RestoredStates DEF RowTells, RehydrateStatuses, FilledUp, ExitStatuses
  <2>3. exitOrder'[t] # NoId => Exists(ExitId(t))
    BY <2>1, RestoredStates DEF RowTells
  <2> QED
    BY <2>1, <2>2, <2>3, RestoredStates
<1> QED
  BY <1>9, <1>10, <1>11, <1>12 DEF ProcessInv

\* A start gives a book whose shares are what the orders have bought, and rows where
\* the threads expect them.
LEMMA StartBook ==
  ASSUME RecoveryInv, NEW trades \in SUBSET {t \in Used : Table.row[t] \in RehydrateStatuses},
         Start(trades)
  PROVE  SharesCovered' /\ (~Paper => RowsFit')
<1>1. /\ UNCHANGED <<trade, orders>> /\ row' = Table.row /\ column' = Table.column
      /\ trades \subseteq Used
      /\ pc' = "idle" /\ cur' = NoTrade /\ unlogged' = [x \in Threads |-> NoTrade]
  BY DEF Start
<1>2. Used' = Used
  BY <1>1 DEF Used
<1>3. ASSUME NEW t \in Used, ~Paper, pos'[t] \in {"OPEN", "EXITING"}
      PROVE  FilledUp(EntryId(t)) /\ quantity'[t] = Filled(EntryId(t))
  <2>1. t \in trades
    BY <1>3, Restored DEF Used
  <2>2. quantity'[t] = FilledOr(column'[t])
    BY <2>1, Restored DEF Used
  <2> QED
    BY <1>3, <2>1, <2>2, RestoredStates DEF RowTells, ExitStatuses
<1>4. SharesCovered'
  BY <1>1, <1>2, <1>3 DEF RecoveryInv, SharesCovered, FilledUp, Filled, Exists, EntryId, ExitId
<1>5. ASSUME NEW t \in Trades, ~Paper
      PROVE  /\ t \notin Used => row'[t] = "none"
             /\ pos'[t] = "PENDING_ENTRY" =>
                  \/ row'[t] \in {"SUBMITTED", "PARTIALLY_FILLED"}
                  \/ row'[t] = "CASH_HELD" /\ entryOrder'[t] = NoId
             /\ pos'[t] \in {"OPEN", "EXITING"} =>
                  row'[t] \in {"FILLED", "CLOSED"} \cup ExitStatuses
  <2>1. t \notin Used => row'[t] = "none"
    BY <1>1, TableAsItShouldBe DEF TableFits, RowHolds
  <2>2. CASE t \in trades
    BY <2>1, <2>2, RestoredStates DEF ExitStatuses
  <2>3. CASE t \notin trades
    BY <2>1, <2>3, Restored
  <2> QED
    BY <2>2, <2>3
<1>6. ~Paper => RowsFit'
  BY <1>1, <1>2, <1>5 DEF RowsFit, BoughtRow
<1> QED
  BY <1>4, <1>6

\* A start takes the table as it is for its rows, and there is no older one.
LEMMA StartTable ==
  ASSUME RecoveryInv, NEW trades \in SUBSET {t \in Used : Table.row[t] \in RehydrateStatuses},
         Start(trades)
  PROVE  TablesOK'
<1>1. /\ UNCHANGED <<trade, orders>> /\ row' = Table.row /\ column' = Table.column
      /\ refused' = {} /\ saved' = UpToDate
  BY DEF Start
<1>2. Used' = Used
  BY <1>1 DEF Used
<1>3. /\ TableFits(Table.row, Table.column) /\ TableTells(Table.row, Table.column)
      /\ OneRowPerKey(Table.row)
  BY TableAsItShouldBe
<1>4. TableFits(row, column)'
  BY <1>1, <1>2, <1>3 DEF TableFits, RowHolds
<1>5. TableTells(row, column)'
  BY <1>1, <1>2, <1>3
  DEF TableTells, RowTells, Exists, FilledUp, Filled, EntryId, ExitId
<1>6. \A t \in Trades : Rows'[t] = row'[t]
  BY <1>1 DEF Rows
<1>7. OneRowPerKey(Rows)'
  BY <1>1, <1>2, <1>3, <1>6 DEF OneRowPerKey, Used
<1> QED
  BY <1>1, <1>2, <1>4, <1>5, <1>7 DEF TablesOK

\* A start takes the keys of the loaded trades, one each, and counts on from them.
LEMMA StartKeys ==
  ASSUME RecoveryInv, NEW trades \in SUBSET {t \in Used : Table.row[t] \in RehydrateStatuses},
         Start(trades)
  PROVE  ActiveKeys' /\ AttemptsBounded' /\ EarlierSold' /\ UnloggedExits'
<1>1. /\ UNCHANGED <<trade, orders>> /\ row' = Table.row /\ trades \subseteq Used
      /\ seen' = {trade[t].key : t \in trades} /\ Seed(trades)
      /\ cur' = NoTrade /\ unlogged' = [x \in Threads |-> NoTrade]
  BY DEF Start, Seed
<1>2. Used' = Used
  BY <1>1 DEF Used
<1>3. \A t \in Trades : Active(t)' => t \in trades
  BY <1>1, Restored, TradeAssumption DEF Active, Tracked
<1>4. \A t \in trades : row'[t] # "none"
  BY RestoredStates DEF RehydrateStatuses
<1>5. ActiveKeys'
  <2>1. OneRowPerKey(row')
    BY <1>1, TableAsItShouldBe
  <2>2. \A t, u \in trades : trade[t].key = trade[u].key => t = u
    BY <1>1, <1>4, <2>1 DEF OneRowPerKey
  <2> HIDE DEF Active
  <2> QED
    BY <1>1, <1>2, <1>3, <1>4, <2>2 DEF ActiveKeys
<1>6. AttemptsBounded'
  BY <1>1, <1>2 DEF RecoveryInv, AttemptsBounded, AttemptOf
<1>7. EarlierSold'
  <2> SUFFICES ASSUME ~Paper PROVE EarlierSold'
    BY DEF EarlierSold
  <2>1. \A t \in Used : SoldUpTo(BaseOf(t), AttemptOf(t))
    BY DEF RecoveryInv, EarlierSold
  <2>2. \A o : FilledUp(o)' = FilledUp(o)
    BY <1>1 DEF FilledUp, Exists
  <2>3. \A t \in Used : SoldUpTo(BaseOf(t), AttemptOf(t))'
    BY <1>1, <2>1, <2>2 DEF SoldUpTo, BaseOf, AttemptOf
  <2>4. ASSUME NEW b \in Bases
        PROVE  SoldUpTo(b, attempts[b])'
    <3>1. CASE attempts'[b] = 0
      BY <3>1 DEF SoldUpTo
    <3>2. ASSUME NEW t \in trades, BaseOf(t) = b, attempts'[b] = AttemptOf(t)
          PROVE  SoldUpTo(b, attempts[b])'
      BY <1>1, <2>1, <2>2, <3>2 DEF SoldUpTo
    <3> QED
      BY <1>1, <3>1, <3>2, SeedStep
  <2> QED
    BY <1>2, <2>3, <2>4 DEF EarlierSold
<1>8. UnloggedExits'
  BY <1>1 DEF UnloggedExits
<1> QED
  BY <1>5, <1>6, <1>7, <1>8

\* After a start that could read the table, the book has what the rows have under way.
LEMMA StartTracks ==
  ASSUME RecoveryInv, NEW trades \in SUBSET {t \in Used : Table.row[t] \in RehydrateStatuses},
         Start(trades),
         loaded' => trades = {t \in Used : Table.row[t] \in RehydrateStatuses}
  PROVE  ByMode'
<1>1. /\ UNCHANGED <<trade, orders>> /\ row' = Table.row /\ trades \subseteq Used /\ pc' = "idle"
  BY DEF Start
<1>2. Used' = Used
  BY <1>1 DEF Used
<1>3. ASSUME loaded', NEW t \in Used, row'[t] \in RehydrateStatuses
      PROVE  t \in trades
  BY <1>1, <1>3
<1>4. ASSUME ~Paper, loaded', NEW t \in Used
      PROVE  /\ row'[t] \in {"SUBMITTED", "PARTIALLY_FILLED"} =>
                  pos'[t] = "PENDING_ENTRY" /\ entryOrder'[t] = EntryId(t)
             /\ row'[t] = "FILLED" =>
                  pos'[t] \in {"OPEN", "EXITING"} /\ quantity'[t] = Filled(EntryId(t))
             /\ row'[t] = "EXIT_SUBMITTED" => pos'[t] = "EXITING" /\ exitOrder'[t] = ExitId(t)
  <2> SUFFICES ASSUME row'[t] \in {"SUBMITTED", "PARTIALLY_FILLED", "FILLED", "EXIT_SUBMITTED"}
               PROVE  /\ row'[t] \in {"SUBMITTED", "PARTIALLY_FILLED"} =>
                           pos'[t] = "PENDING_ENTRY" /\ entryOrder'[t] = EntryId(t)
                      /\ row'[t] = "FILLED" =>
                           pos'[t] \in {"OPEN", "EXITING"} /\ quantity'[t] = Filled(EntryId(t))
                      /\ row'[t] = "EXIT_SUBMITTED" =>
                           pos'[t] = "EXITING" /\ exitOrder'[t] = ExitId(t)
    OBVIOUS
  <2>1. t \in trades
    BY <1>3, <1>4 DEF RehydrateStatuses
  <2>2. /\ quantity'[t] = FilledOr(column'[t])
        /\ exitOrder'[t] = IF column'[t].exitId THEN ExitId(t) ELSE NoId
    BY <2>1, Restored DEF Used
  <2>3. RowTells(t, row', column')
    BY <1>4, <2>1, RestoredStates
  <2> QED
    BY <1>4, <2>1, <2>2, <2>3, RestoredStates DEF RowTells
<1>5. ~Paper => RecordedPositionsTracked'
  BY <1>1, <1>2, <1>4 DEF RecordedPositionsTracked, EntryId, ExitId, Filled, Exists
<1>6. ASSUME Paper, NEW t \in Used
      PROVE  /\ pos'[t] # "none" => row'[t] = "FILLED"
             /\ loaded' /\ row'[t] = "FILLED" => pos'[t] # "none"
  <2>1. row'[t] \in {"none", "NEW", "FILLED", "CLOSED"}
    BY <1>1, <1>6, TableAsItShouldBe DEF TableFits, RowHolds, Used
  <2>2. pos'[t] # "none" => t \in trades
    BY Restored DEF Used
  <2>3. t \in trades => row'[t] = "FILLED" /\ pos'[t] = "OPEN"
    BY <2>1, RestoredStates DEF RehydrateStatuses
  <2>4. loaded' /\ row'[t] = "FILLED" => t \in trades
    BY <1>3 DEF RehydrateStatuses
  <2> QED
    BY <2>2, <2>3, <2>4
<1>7. ASSUME Paper, NEW t \in Used, t \notin lost'
      PROVE  row'[t] = "FILLED" <=> t \in held'
  <2>1. t \notin lost /\ row'[t] = row[t] /\ held' = held
    BY <1>7 DEF Start
  <2> QED
    BY <1>7, <2>1 DEF RecoveryInv, ByMode, PaperRows
<1>8. Paper => PaperRows'
  BY <1>2, <1>6, <1>7 DEF PaperRows, Tracked, Used
<1> QED
  BY <1>1, <1>5, <1>8, StartBook DEF ByMode

\* A start keeps the invariant, whether or not the table could be read.
LEMMA StartNext ==
  ASSUME RecoveryInv, Restart \/ RestartBlind
  PROVE  RecoveryInv'
<1>1. PICK trades \in SUBSET {t \in Used : Table.row[t] \in RehydrateStatuses} :
        /\ Start(trades)
        /\ loaded' => trades = {t \in Used : Table.row[t] \in RehydrateStatuses}
        /\ loaded' \in BOOLEAN
  BY DEF Restart, RestartBlind
<1>2. crashes' \in 0 .. MaxCrashes
  BY <1>1, CrashAssumption DEF Start, RecoveryInv
<1>3. ProcessInv' /\ ModesApart' /\ OwnOrders' /\ AnswersHold'
  BY <1>1, StartProcess
<1>4. SharesCovered' /\ TablesOK'
  BY <1>1, StartBook, StartTable
<1>5. ActiveKeys' /\ AttemptsBounded' /\ EarlierSold' /\ UnloggedExits'
  BY <1>1, StartKeys
<1>6. ByMode'
  BY <1>1, StartTracks
<1>7. held' \subseteq Used' /\ lost' \subseteq Used'
  BY <1>1 DEF Start, RecoveryInv, Used
<1> QED
  BY <1>1, <1>2, <1>3, <1>4, <1>5, <1>6, <1>7 DEF RecoveryInv

\* The first process starts on an empty table.
LEMMA RecoveryStart == RecoveryInit => RecoveryInv
<1> SUFFICES ASSUME RecoveryInit PROVE RecoveryInv
  OBVIOUS
<1>1. /\ Init /\ column = [t \in Trades |-> NoColumns] /\ refused = {} /\ saved = UpToDate
      /\ crashes = 0 /\ loaded = TRUE /\ held = {} /\ lost = {}
  BY DEF RecoveryInit
<1>2. Used = {} /\ Tracked = {} /\ cur = NoTrade
  BY <1>1 DEF Init, BookInit, Used, Tracked
<1>3. ProcessInv
  <2>1. EntryUntracked
    BY <1>2 DEF EntryUntracked
  <2>2. ExclusiveExit
    BY <1>1 DEF Init, BookInit, ExclusiveExit, Threads
  <2>3. PolledPositions
    BY <1>1 DEF Init, PolledPositions, NoJob
  <2> QED
    BY <1>1, <2>1, <2>2, <2>3, TypeInit DEF ProcessInv
<1>4. ModesApart /\ OwnOrders /\ AnswersHold /\ SharesCovered /\ RowsFit
  BY <1>1, ModesInit, SharesInit, RowsInit
<1>5. TablesOK
  <2>1. TableFits(row, column)
    <3>1. row \in [Trades -> TradeStatus] /\ \A t \in Trades : row[t] = "none"
      BY <1>1 DEF Init, TradeStatus
    <3>2. column \in [Trades -> Columns] /\ \A t \in Trades : ~column[t].exitId
      BY <1>1 DEF NoColumns, Columns
    <3> QED
      BY <3>1, <3>2 DEF TableFits, RowHolds
  <2>2. TableTells(row, column) /\ OneRowPerKey(Rows)
    BY <1>2 DEF TableTells, OneRowPerKey
  <2> QED
    BY <1>1, <2>1, <2>2 DEF TablesOK
<1>6. ActiveKeys
  BY <1>1, <1>2, TradeAssumption DEF ActiveKeys, Active, Init
<1>7. AttemptsBounded
  BY <1>2 DEF AttemptsBounded
<1>8. EarlierSold /\ UnloggedExits
  BY <1>1, <1>2 DEF EarlierSold, UnloggedExits, SoldUpTo, Init
<1>9. ByMode
  BY <1>1, <1>2, <1>4
  DEF ByMode, PaperRows, RecordedPositionsTracked, Init
<1> QED
  BY <1>1, <1>3, <1>4, <1>5, <1>6, <1>7, <1>8, <1>9, CrashAssumption DEF RecoveryInv

-----------------------------------------------------------------------------
(* Theorems                                                                *)

\* RecoveryInv holds from the first start on, through every crash and restart.
THEOREM RecoveryInductive == RecoverySpec => []RecoveryInv
<1>1. RecoveryInit => RecoveryInv
  BY RecoveryStart
<1>2. RecoveryInv /\ [RecoveryNext]_<<vars, recovery>> => RecoveryInv'
  <2> SUFFICES ASSUME RecoveryInv, [RecoveryNext]_<<vars, recovery>>
               PROVE  RecoveryInv'
    OBVIOUS
  <2>1. CASE Work
    BY <2>1, WorkNext
  <2>2. CASE FallBehind
    BY <2>2, PauseNext DEF FallBehind
  <2>3. CASE Restart \/ RestartBlind
    BY <2>3, StartNext
  <2>4. CASE UNCHANGED <<vars, recovery>>
    BY <2>4, PauseNext DEF recovery
  <2> QED
    BY <2>1, <2>2, <2>3, <2>4 DEF RecoveryNext
<1> QED
  BY <1>1, <1>2, PTL DEF RecoverySpec

\* Types hold across crashes and restarts: what rehydrate_positions builds from a row is
\* a position the executor knows (workers/executor.py, domain/positions.py).
THEOREM RecoveryTypeCorrect == RecoverySpec => []RecoveryTypeOK
<1>1. RecoveryInv => RecoveryTypeOK
  BY DEF RecoveryInv, RecoveryTypeOK, ProcessInv, TablesOK, TableFits
<1> QED
  BY <1>1, RecoveryInductive, PTL

\* No two positions of the book ever carry one key: not even those a restart restores
\* from rows, because the index of the table keeps one row to a key.
THEOREM RestartsKeepKeysApart == RecoverySpec => []BookKeysUnique
<1>1. RecoveryInv => BookKeysUnique
  BY DEF RecoveryInv, ActiveKeys, Active, Tracked, BookKeysUnique
<1> QED
  BY <1>1, RecoveryInductive, PTL

\* The broker never sells more of a trade than it bought, also when a process that has
\* lost what it knew submits the exit again.
THEOREM NeverOversoldAcrossCrashes == RecoverySpec => []NoOversell
<1>1. RecoveryInv => NoOversell
  BY Covered DEF RecoveryInv
<1> QED
  BY <1>1, RecoveryInductive, PTL

\* "Restarts never re-buy" (SPEC 5.7): whatever rows and keys a crash has lost, the
\* broker has an order for an attempt of a signal only when every earlier attempt is
\* sold off.
THEOREM RestartsNeverRebuy == RecoverySpec => []NeverRebuys
<1>1. ASSUME RecoveryInv
      PROVE  NeverRebuys
  <2> SUFFICES ASSUME NEW t \in Used, NEW u \in Used,
                      Earlier(trade[t].key, trade[u].key), Exists(EntryId(u))
               PROVE  SoldOff(trade[t].key)
    BY DEF NeverRebuys
  <2>1. TypeOK /\ SharesCovered
    BY <1>1 DEF RecoveryInv, ProcessInv
  <2>2. ~Paper
    BY <1>1 DEF RecoveryInv, ModesApart, Exists
  <2>3. /\ AttemptOf(t) \in Nat /\ AttemptOf(u) \in Nat
        /\ trade[t].key = ComposeKey(BaseOf(t), AttemptOf(t))
        /\ trade[u].key = ComposeKey(BaseOf(u), AttemptOf(u))
    BY <2>1 DEF TypeOK, TradesOK
  <2>4. BaseOf(t) = BaseOf(u) /\ AttemptOf(t) \in 0 .. AttemptOf(u) - 1
    BY <2>3 DEF Earlier, ComposeKey, BaseOf, AttemptOf, SplitAttempt
  <2>5. FilledUp(ExitId(t))
    BY <1>1, <2>2, <2>3, <2>4 DEF RecoveryInv, EarlierSold, SoldUpTo, ExitId
  <2>6. /\ FilledUp(EntryId(t)) /\ orders[ExitId(t)].qty = Filled(EntryId(t))
        /\ orders[ExitId(t)].filled = orders[ExitId(t)].qty
    BY <2>1, <2>5 DEF SharesCovered, FilledUp, Exists
  <2> QED
    BY <2>5, <2>6 DEF SoldOff, FilledUp, Working, Filled, EntryId, ExitId
<1> QED
  BY <1>1, RecoveryInductive, PTL

\* Restart safety of a live process (SPEC 5.7): what a row has under way or open is in
\* the book, in the state in which it is polled and with the shares that were bought.
THEOREM RecordedStayTracked ==
  ASSUME ~Paper
  PROVE  RecoverySpec => []RecordedPositionsTracked
<1>1. RecoveryInv => RecordedPositionsTracked
  BY DEF RecoveryInv, ByMode
<1> QED
  BY <1>1, RecoveryInductive, PTL

\* A paper book outlives the process: whatever crashed and however often, the trades of
\* which no write was lost are in the book exactly when some process took them into its
\* own and none has sold them. The row a trade has is what carries this over.
THEOREM PaperBookOutlivesCrashes ==
  ASSUME Paper
  PROVE  RecoverySpec => []PaperBookSurvives
<1>1. RecoveryInv => PaperBookSurvives
  BY DEF RecoveryInv, ByMode, PaperRows, PaperBookSurvives
<1> QED
  BY <1>1, RecoveryInductive, PTL
=============================================================================
