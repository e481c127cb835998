------------------------------ MODULE Recovery ------------------------------
(***************************************************************************)
(* An executor that crashes and is started again. The trades table is what *)
(* survives in the system itself; orders and holds survive outside of it.  *)
(* rehydrate_positions (workers/executor.py) rebuilds the book and the     *)
(* keys from the table, and the table may be behind: the writer applies    *)
(* writes in the order they were handed to it, and a crash loses those it  *)
(* has not applied (AsyncDbWriter: Die). From some moment on the table     *)
(* stays as it was, which is what FallBehind says; batches are of size 1.  *)
(*                                                                         *)
(* Restart is one step: nothing reads what it rebuilds before it is done,  *)
(* and what the market and the clock do meanwhile they may do before it.   *)
(* A redelivered message is one of the ticks that may come at any time.    *)
(***************************************************************************)
EXTENDS ExecutionSafety

CONSTANTS
  MaxCrashes,  \* bound: the crashes of one behaviour
  UpToDate     \* the table holds every write that was handed over

ASSUME CrashAssumption == MaxCrashes \in Nat

VARIABLES
  column,   \* column[t]: the other columns of t's row that a restart reads
  refused,  \* the trades whose insert the unique index of the key refuses
  saved,    \* what the table holds since the writer fell behind, or UpToDate
  crashes,
  loaded,   \* the last rehydration went through
  \* history of a paper process
  held,     \* the trades that some process took into its book and none took out
  lost      \* the trades of which a crash lost a write, or the index refused the row

recovery == <<column, refused, saved, crashes, loaded, held, lost>>

\* quantity, filled_quantity (0 for NULL, "or" treats both alike), and whether
\* exit_broker_order_id is set.
Columns == [quantity : Nat, filled : Nat, exitId : BOOLEAN]

NoColumns == [quantity |-> 0, filled |-> 0, exitId |-> FALSE]

RecoveryInit ==
  /\ Init
  /\ column = [t \in Trades |-> NoColumns]
  /\ refused = {}
  /\ saved = UpToDate
  /\ crashes = 0
  /\ loaded = TRUE
  /\ held = {} /\ lost = {}

-----------------------------------------------------------------------------
(* The columns that the steps of the threads write                         *)

Inserted(t) == row[t] = "none" /\ row'[t] = "NEW"

ReportsFill(t) ==
  /\ rcur.trade = t /\ rcur.doing = "entry" /\ rcur' # rcur
  /\ rcur.report \in {"partially_filled", "filled"}

LogsExit(t) == \E x \in Threads : unlogged[x] = t /\ unlogged'[x] # t

ColumnsAfter(t) ==
  [quantity |-> IF Inserted(t) THEN SizedQuantity(tick.price) ELSE column[t].quantity,
   filled   |-> IF ReportsFill(t) THEN rcur.filled
                ELSE IF Paper /\ row'[t] = "FILLED" THEN column[t].quantity
                ELSE column[t].filled,
   exitId   |-> column[t].exitId \/ LogsExit(t)]

\* A row under the same key is in the table already.
KeyTaken(t) ==
  \E u \in Used \ {t} : row[u] # "none" /\ u \notin refused /\ trade[u].key = trade'[t].key

Work ==
  /\ Next
  /\ column' = [t \in Trades |-> ColumnsAfter(t)]
  /\ refused' = refused \cup {t \in Trades : Inserted(t) /\ KeyTaken(t)}
  /\ held' = IF Paper THEN (held \cup Tracked') \ (Tracked \ Tracked') ELSE held
  /\ UNCHANGED <<saved, crashes, loaded, lost>>

-----------------------------------------------------------------------------
(* The table as a crash leaves it                                          *)

Rows == [t \in Trades |-> IF t \in refused THEN "none" ELSE row[t]]

Written == [row |-> Rows, column |-> column]

Table == IF saved = UpToDate THEN Written ELSE saved

\* The writer stops keeping up; what is handed over from now on will be lost.
FallBehind ==
  /\ saved = UpToDate
  /\ crashes < MaxCrashes
  /\ saved' = Written
  /\ UNCHANGED <<vars, column, refused, crashes, loaded, held, lost>>

-----------------------------------------------------------------------------
(* Startup                                                                 *)

\* Mutant: positions that are bought and not being sold are left out.
RehydratePendingOnly ==
  {"CASH_HELD", "SUBMITTED", "PARTIALLY_FILLED", "EXIT_SUBMITTED", "EXIT_PARTIALLY_FILLED"}

RehydrateStatuses ==
  {"CASH_HELD", "SUBMITTED", "PARTIALLY_FILLED", "FILLED",
   "EXIT_SUBMITTED", "EXIT_PARTIALLY_FILLED"}

\* Mutant: a position that was being sold is open again.
OpenUnlessPending(status) ==
  IF status \in {"FILLED", "EXIT_SUBMITTED", "EXIT_PARTIALLY_FILLED"}
  THEN "OPEN" ELSE "PENDING_ENTRY"

\* The state position_from_trade gives a position, by the status of its row.
StateFromRow(status) ==
  CASE status = "FILLED" -> "OPEN"
    [] status \in {"EXIT_SUBMITTED", "EXIT_PARTIALLY_FILLED"} -> "EXITING"
    [] OTHER -> "PENDING_ENTRY"

\* The order ids were written with the statuses SUBMITTED and EXIT_SUBMITTED.
HasEntryId(status) == ~Paper /\ status \notin {"none", "NEW", "CASH_HELD"} \cup DeadStatuses

FilledOr(c) == IF c.filled # 0 THEN c.filled ELSE c.quantity

\* position_from_trade for each trade that is loaded; the book is new.
Rebuild(trades) ==
  /\ pos' = [t \in Trades |->
       IF t \in trades THEN StateFromRow(Table.row[t]) ELSE "none"]
  /\ quantity' = [t \in Trades |->
       IF t \in trades THEN FilledOr(Table.column[t]) ELSE 0]
  /\ entryOrder' = [t \in Trades |->
       IF t \in trades /\ HasEntryId(Table.row[t]) THEN EntryId(t) ELSE NoId]
  /\ exitOrder' = [t \in Trades |->
       IF t \in trades /\ Table.column[t].exitId THEN ExitId(t) ELSE NoId]

AttemptsOf(base, trades) == {AttemptOf(t) : t \in {u \in trades : BaseOf(u) = base}}

\* Mutant: the counter is restored one too high, as forget would leave it.
SeedBumped(trades) ==
  /\ seen' = {trade[t].key : t \in trades}
  /\ attempts' = [b \in Bases |->
       LET n == AttemptsOf(b, trades)
       IN  IF n = {} THEN 0 ELSE 1 + CHOOSE a \in n : \A c \in n : c =< a]

\* Mutant: the counters are restored, the keys are not.
SeedCountersOnly(trades) ==
  /\ seen' = {}
  /\ attempts' = [b \in Bases |->
       LET n == AttemptsOf(b, trades)
       IN  IF n = {} THEN 0 ELSE CHOOSE a \in n : \A c \in n : c =< a]

\* Rows come in the order they were created, so the last attempt of a base wins.
Seed(trades) ==
  /\ seen' = {trade[t].key : t \in trades}
  /\ attempts' = [b \in Bases |->
       LET n == AttemptsOf(b, trades)
       IN  IF n = {} THEN 0 ELSE CHOOSE a \in n : \A c \in n : c =< a]

\* A new process on the table as it is; all that was in memory is gone.
Start(trades) ==
  /\ crashes < MaxCrashes
  /\ crashes' = crashes + 1
  /\ Rebuild(trades) /\ Seed(trades)
  /\ row' = Table.row /\ column' = Table.column
  /\ saved' = UpToDate /\ refused' = {}
  /\ pc' = "idle" /\ tick' = NoTick /\ todo' = {} /\ cur' = NoTrade
  /\ claimed' = [x \in Threads |-> {}]
  /\ unlogged' = [x \in Threads |-> NoTrade]
  /\ rtodo' = {} /\ rcur' = NoJob
  /\ lastRun' = 0
  /\ lost' = lost \cup {t \in Used : Paper /\ row[t] # Table.row[t]}
  /\ UNCHANGED <<trade, orders, hold, today, afterClose, held>>

\* list_by_statuses, whose limit of 10_000 rows is above any number of trades here.
Restart ==
  /\ Start({t \in Used : Table.row[t] \in RehydrateStatuses})
  /\ loaded' = TRUE

\* The table cannot be read: the error is logged and the book stays empty.
RestartBlind ==
  /\ Start({})
  /\ loaded' = FALSE

RecoveryNext == Work \/ FallBehind \/ Restart \/ RestartBlind

RecoverySpec == RecoveryInit /\ [][RecoveryNext]_<<vars, recovery>>

-----------------------------------------------------------------------------

\* The types of the executor also after a restart, and of what the table adds.
RecoveryTypeOK ==
  /\ TypeOK
  /\ column \in [Trades -> Columns]
  /\ refused \subseteq Used
  /\ saved = UpToDate \/ saved.row \in [Trades -> TradeStatus]
  /\ crashes \in 0 .. MaxCrashes
  /\ loaded \in BOOLEAN
  /\ held \subseteq Used /\ lost \subseteq Used

\* A key of the same signal and day, with a smaller attempt.
Earlier(k, l) == k.base = l.base /\ SplitAttempt(k).attempt < SplitAttempt(l).attempt

SoldOff(k) ==
  LET bought == OrderId(k, "entry") sold == OrderId(k, "exit")
  IN  /\ Exists(sold)
      /\ ~Working(bought) /\ ~Working(sold)
      /\ Filled(sold) = Filled(bought)

\* SPEC 5.7, "restarts never re-buy": whatever a crash made the process forget,
\* the broker has an order for another attempt of a signal only when all that the
\* earlier attempts bought is sold. The shares of a signal are never held twice.
NeverRebuys ==
  \A t, u \in Used :
    Earlier(trade[t].key, trade[u].key) /\ Exists(EntryId(u)) => SoldOff(trade[t].key)

\* Restart safety (SPEC 5.7): while its row says that an order is out, a position
\* is in the book, in the state in which the reconciler polls that order; and a
\* filled one is in the book with the shares it bought. A crash and a restart, stale writes and
\* lost replies included, do not change that once the table could be read.
RecordedPositionsTracked ==
  loaded => \A t \in Used :
    /\ row[t] \in {"SUBMITTED", "PARTIALLY_FILLED"} =>
         pos[t] = "PENDING_ENTRY" /\ entryOrder[t] = EntryId(t)
    /\ row[t] = "FILLED" =>
         pos[t] \in {"OPEN", "EXITING"} /\ quantity[t] = Filled(EntryId(t))
    /\ row[t] = "EXIT_SUBMITTED" /\ Working(ExitId(t)) =>
         pos[t] = "EXITING" /\ exitOrder[t] = ExitId(t)

\* No two positions of the book carry one key, whether they were opened or
\* restored: an exit order belongs to one position, and forgetting the key of one
\* cannot free the signal of another.
BookKeysUnique ==
  \A t, u \in Tracked : trade[t].key = trade[u].key => t = u

\* A paper position outlives the process that opened it, and no sold one comes back:
\* once the table could be read, exactly the trades that were taken into the book of
\* this or an earlier process and not sold by any are in it. The trades of which a
\* crash lost a write are excepted: one whose CLOSED was lost is sold again.
PaperBookSurvives ==
  loaded => \A t \in Used \ lost : t \in Tracked <=> t \in held

-----------------------------------------------------------------------------
(* Claims of documents and comments that the code does not keep            *)

\* SPEC 3.3: a position whose exit failed is open again, to be retried at the next
\* trigger or at the close; positions.py: the book is rehydrated from the open
\* trades at startup.
FailedExitsTracked ==
  loaded => \A t \in Used : row[t] = "EXIT_FAILED" => t \in Tracked

\* services.py, compose_key, seed and forget: a signal that closes and triggers
\* again on the same day gets a key that does not collide with the persisted row.
NoCollisionWithClosed ==
  \A t \in refused, u \in Used : row[u] = "CLOSED" => trade[u].key # trade[t].key
=============================================================================
