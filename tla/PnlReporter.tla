----------------------------- MODULE PnlReporter -----------------------------
(***************************************************************************)
(* The end-of-day report (domain/pnl.py, workers/pnl_reporter.py): one     *)
(* process that wakes on a cadence of its own and writes, for each mode    *)
(* whose close time has passed, the row of the day into daily_pnl.  The    *)
(* executors close trades at any time and their writers save the closed    *)
(* rows some time later; a closed live row may be overwritten once.        *)
(*                                                                         *)
(* Time is counted in steps, DayLength of them to a day; day 1 begins at   *)
(* DayLength, so that 0 is no day and no time.  A row is the set of trades *)
(* it aggregates.                                                          *)
(***************************************************************************)
EXTENDS Integers, Sequences

CONSTANTS
  Trades,
  ModeOf,      \* the mode a trade was executed in
  Schedule,    \* the modes, in the order they are reported
  CloseTime,   \* the time of day at which each mode closes; DayLength for none
  DayLength,
  MaxDay,      \* bound: the days that are modelled
  MaxRestarts, \* bound
  Fails        \* a report may fail

Modes == {Schedule[i] : i \in DOMAIN Schedule}

ASSUME ReporterAssumption ==
  /\ ModeOf \in [Trades -> Modes]
  /\ DayLength \in Nat \ {0} /\ MaxDay \in Nat \ {0} /\ MaxRestarts \in Nat
  /\ Schedule \in Seq(Modes)
  /\ CloseTime \in [Modes -> 0 .. DayLength]
  /\ Fails \in BOOLEAN

Days == 1 .. MaxDay
Day(t) == t \div DayLength
TimeOfDay(t) == t % DayLength

VARIABLES
  now,
  closedAt,  \* when a trade was closed, 0 for not yet or not any more
  saved,     \* the trades whose row in the database is CLOSED
  rows,      \* daily_pnl: the trades of the row of a mode and a day
  pc,        \* where the reporter is
  moment,    \* the time it read when it woke up
  todo,      \* the modes of this pass it has not dealt with
  found,     \* the trades the query returned
  lastRun,   \* _last_run, 0 for None
  restarts,
  \* history
  asOf,      \* the moment the row of a mode and a day is of, 0 for no row
  failed,    \* the day of the last failed report of a mode, 0 for none
  reopened   \* the trades whose CLOSED row was overwritten

reporter == <<pc, moment, todo, found, lastRun>>
table == <<closedAt, saved, reopened>>
vars == <<now, table, rows, reporter, restarts, asOf, failed>>

Init ==
  /\ now = DayLength
  /\ closedAt = [t \in Trades |-> 0] /\ saved = {}
  /\ rows = [m \in Modes |-> [d \in Days |-> {}]]
  /\ pc = "asleep" /\ moment = 0 /\ todo = <<>> /\ found = {}
  /\ lastRun = [m \in Modes |-> 0]
  /\ restarts = 0
  /\ asOf = [m \in Modes |-> [d \in Days |-> 0]]
  /\ failed = [m \in Modes |-> 0]
  /\ reopened = {}

-----------------------------------------------------------------------------
(* The reporter                                                            *)

mode == Head(todo)
today == Day(moment)

\* One moment serves all modes of a pass (maybe_report).
Wake ==
  /\ pc = "asleep"
  /\ moment' = now /\ todo' = Schedule
  /\ pc' = "mode"
  /\ UNCHANGED <<now, table, rows, found, lastRun, restarts, asOf, failed>>

Sleep ==
  /\ pc = "mode" /\ todo = <<>>
  /\ pc' = "asleep"
  /\ UNCHANGED <<now, table, rows, moment, todo, found, lastRun, restarts, asOf, failed>>

Due == TimeOfDay(moment) >= CloseTime[mode] /\ lastRun[mode] # today

Skip ==
  /\ pc = "mode" /\ todo # <<>> /\ ~Due
  /\ todo' = Tail(todo)
  /\ UNCHANGED <<now, table, rows, pc, moment, found, lastRun, restarts, asOf, failed>>

\* Mutant: the day is ticked off for all modes at once.
BeginAll ==
  /\ pc = "mode" /\ todo # <<>> /\ Due
  /\ lastRun' = [m \in Modes |-> today]
  /\ pc' = "query"
  /\ UNCHANGED <<now, table, rows, moment, todo, found, restarts, asOf, failed>>

\* The day is ticked off before the work is done.
Begin ==
  /\ pc = "mode" /\ todo # <<>> /\ Due
  /\ lastRun' = [lastRun EXCEPT ![mode] = today]
  /\ pc' = "query"
  /\ UNCHANGED <<now, table, rows, moment, todo, found, restarts, asOf, failed>>

\* Mutant: the window begins with the day.
FromMidnight(m, d) == d * DayLength - 1

\* Mutant: the window is the last day, counted from the moment of the report.
LastDay(m, d) == moment - DayLength

\* The window begins a day before the close of the day (exclusive).
WindowStart(m, d) == (d - 1) * DayLength + CloseTime[m]

\* list_closed_between: the rows that are there, and CLOSED, when the query runs.
Query ==
  /\ pc = "query"
  /\ found' = {t \in saved : /\ ModeOf[t] = mode
                             /\ WindowStart(mode, today) < closedAt[t]
                             /\ closedAt[t] =< moment}
  /\ pc' = "write"
  /\ UNCHANGED <<now, table, rows, moment, todo, lastRun, restarts, asOf, failed>>

\* upsert, and the commit of the transaction.
Upsert ==
  /\ pc = "write"
  /\ rows' = [rows EXCEPT ![mode][today] = found]
  /\ asOf' = [asOf EXCEPT ![mode][today] = moment]
  /\ todo' = Tail(todo)
  /\ pc' = "mode"
  /\ UNCHANGED <<now, table, moment, found, lastRun, restarts, failed>>

\* An exception leaves maybe_report: the modes after this one wait for the next pass.
ReportFails ==
  /\ Fails
  /\ pc \in {"query", "write"}
  /\ failed' = [failed EXCEPT ![mode] = today]
  /\ pc' = "asleep"
  /\ UNCHANGED <<now, table, rows, moment, todo, found, lastRun, restarts, asOf>>

Reporter == Wake \/ Sleep \/ Skip \/ Begin \/ Query \/ Upsert \/ ReportFails

\* The process is started anew; what it was doing is rolled back.  Bound: MaxRestarts.
Restart ==
  /\ restarts < MaxRestarts
  /\ restarts' = restarts + 1
  /\ pc' = "asleep" /\ moment' = 0 /\ todo' = <<>> /\ found' = {}
  /\ lastRun' = [m \in Modes |-> 0]
  /\ UNCHANGED <<now, table, rows, asOf, failed>>

-----------------------------------------------------------------------------
(* The executors and the clock                                             *)

\* By an exit, or by the first poll of an executor that was started after Overwrite.
CloseTrade(t) ==
  /\ closedAt[t] = 0
  /\ closedAt' = [closedAt EXCEPT ![t] = now]
  /\ UNCHANGED <<now, saved, rows, reporter, restarts, asOf, failed, reopened>>

Save(t) ==
  /\ closedAt[t] # 0 /\ t \notin saved
  /\ saved' = saved \cup {t}
  /\ UNCHANGED <<now, closedAt, rows, reporter, restarts, asOf, failed, reopened>>

\* _submit_exit of a live executor enqueues EXIT_SUBMITTED after the reconciler has
\* enqueued CLOSED; where both are committed at once the trade was never seen CLOSED.
\* A trade has one exit order that fills, so this happens once.
Overwrite(t) ==
  /\ ModeOf[t] = "LIVE" /\ t \in saved /\ t \notin reopened
  /\ saved' = saved \ {t} /\ closedAt' = [closedAt EXCEPT ![t] = 0]
  /\ reopened' = reopened \cup {t}
  /\ UNCHANGED <<now, rows, reporter, restarts, asOf, failed>>

\* Bound: MaxDay.
Tick ==
  /\ now + 1 < (MaxDay + 1) * DayLength
  /\ now' = now + 1
  /\ UNCHANGED <<table, rows, reporter, restarts, asOf, failed>>

Next ==
  \/ Reporter \/ Restart \/ Tick
  \/ \E t \in Trades : CloseTrade(t) \/ Save(t) \/ Overwrite(t)

Spec == Init /\ [][Next]_vars

\* The reporter wakes again and again; nothing else has to happen.
FairSpec == Spec /\ WF_vars(Reporter)

-----------------------------------------------------------------------------
(* Properties                                                              *)

\* The variables have the values their declarations describe.
TypeOK ==
  /\ now \in Nat /\ moment \in Nat
  /\ closedAt \in [Trades -> Nat] /\ saved \subseteq Trades
  /\ rows \in [Modes -> [Days -> SUBSET Trades]]
  /\ pc \in {"asleep", "mode", "query", "write"}
  /\ todo \in Seq(Modes) /\ (pc \in {"query", "write"} => todo # <<>>)
  /\ found \subseteq Trades
  /\ lastRun \in [Modes -> Nat] /\ failed \in [Modes -> Nat]
  /\ asOf \in [Modes -> [Days -> Nat]]
  /\ restarts \in 0 .. MaxRestarts /\ reopened \subseteq Trades

\* The report that a restarted process writes over the one of the same day counts
\* every trade the first one counted (upsert), but for those whose CLOSED row was
\* overwritten in between: they are not closed any more.
OnlyReopenedLeave ==
  [][\A m \in Modes, d \in Days : rows[m][d] \ rows'[m][d] \subseteq reopened]_vars

\* No trade falls between two reports: the report of a day picks up every trade of
\* its mode that was closed after the moment of the report of the day before and is
\* in the database when the query runs (window_start, list_closed_between).
NoGap ==
  [][pc = "query" /\ pc' = "write" /\ today - 1 \in Days /\ asOf[mode][today - 1] > 0 =>
       \A t \in saved :
         ModeOf[t] = mode /\ asOf[mode][today - 1] < closedAt[t] /\ closedAt[t] =< moment
           => t \in found']_vars

\* A failed report costs only its own mode the row of the day: once the close of a
\* mode has passed, its report is written or fails, or the day ends first.
ReportsEachSession ==
  \A m \in Modes, d \in Days :
    Day(now) = d /\ TimeOfDay(now) >= CloseTime[m]
      ~> asOf[m][d] # 0 \/ failed[m] = d \/ Day(now) # d

-----------------------------------------------------------------------------
(* Claims of documents and comments that the code does not keep            *)

\* pnl.py: every trade that closed during the session goes into the row of its day:
\* a later report of the day does not lose one.
ReportsGrow ==
  [][\A m \in Modes, d \in Days : rows[m][d] \subseteq rows'[m][d]]_vars

\* pnl.py: every trade that closed during the session goes into a single row.
CountedOnce ==
  \A m \in Modes, d, e \in Days : d # e => rows[m][d] \cap rows[m][e] = {}

\* pnl.py: a trade that closed between two closes whose reports are written is in a
\* row once it is saved.
EveryCloseReported ==
  \A m \in Modes, d \in 2 .. MaxDay, t \in saved :
    /\ ModeOf[t] = m /\ asOf[m][d - 1] # 0 /\ asOf[m][d] # 0
    /\ WindowStart(m, d) < closedAt[t] /\ closedAt[t] =< d * DayLength + CloseTime[m]
    /\ closedAt[t] < asOf[m][d]
    => t \in rows[m][d - 1] \cup rows[m][d]

\* run_forever: a failed report is retried.
FailedReportRetried ==
  \A m \in Modes : failed[m] = MaxDay ~> asOf[m][MaxDay] # 0 \/ failed[m] # MaxDay
=============================================================================
