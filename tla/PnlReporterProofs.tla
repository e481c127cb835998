-------------------------- MODULE PnlReporterProofs --------------------------
(***************************************************************************)
(* That a second report of a day loses only trades whose CLOSED row was    *)
(* overwritten, and that no trade falls between two reports, for every     *)
(* schedule and any number of days, trades, restarts.                      *)
(*                                                                         *)
(* A second report of a day replaces the row of the first, so the property *)
(* is about what two queries of different processes return.  The invariant *)
(* keeps that the trades of a row that were not overwritten are saved, of  *)
(* its mode and out of the window of its day, none closed after the moment *)
(* of the pass that is under way: a query with the same window and that    *)
(* moment finds them all again.                                            *)
(***************************************************************************)
EXTENDS PnlReporter, TLAPS

USE DEF table

\* The clock is past whatever has been recorded.
ClockAhead ==
  /\ \A t \in Trades : closedAt[t] =< now
  /\ pc # "asleep" => moment =< now

\* A row holds saved trades of its mode, closed in the window of its day, and
\* trades that were overwritten since.
RowsInWindow ==
  \A m \in Modes, d \in Days : \A t \in rows[m][d] \ reopened :
    t \in saved /\ ModeOf[t] = m /\ WindowStart(m, d) < closedAt[t] /\ closedAt[t] # 0

\* A pass reads a time after the close of every such trade.
MomentAhead ==
  pc # "asleep" =>
    \A m \in Modes, d \in Days : \A t \in rows[m][d] \ reopened : closedAt[t] =< moment

\* What was found is in the window, and the trades of the row it will replace are
\* among it.
FoundCovers ==
  pc = "write" =>
    /\ \A t \in found \ reopened : /\ t \in saved /\ ModeOf[t] = mode /\ closedAt[t] # 0
                                   /\ WindowStart(mode, today) < closedAt[t]
                                   /\ closedAt[t] =< moment
    /\ today \in Days => rows[mode][today] \ reopened \subseteq found

SavedAreClosed == \A t \in saved : closedAt[t] # 0

RInv == TypeOK /\ ClockAhead /\ SavedAreClosed /\ RowsInWindow /\ MomentAhead /\ FoundCovers

-----------------------------------------------------------------------------

\* The day of a time is a number (Day).
LEMMA DayType == \A t \in Nat : Day(t) \in Nat
BY ReporterAssumption DEF Day

\* The mode a pass is at, and the modes after it (todo).
LEMMA HeadTail ==
  ASSUME todo \in Seq(Modes), todo # <<>>
  PROVE  mode \in Modes /\ Tail(todo) \in Seq(Modes)
BY DEF mode

-----------------------------------------------------------------------------
(* Types                                                                   *)

\* The initial state has the types.
LEMMA InitTypes == Init => TypeOK
BY ReporterAssumption DEF Init, TypeOK

\* Every step keeps the types.
LEMMA NextTypes == TypeOK /\ [Next]_vars => TypeOK'
<1> SUFFICES ASSUME TypeOK, [Next]_vars PROVE TypeOK'
  OBVIOUS
<1>1. CASE Wake
  BY <1>1, ReporterAssumption DEF Wake, TypeOK
<1>2. CASE Sleep
  BY <1>2 DEF Sleep, TypeOK
<1>3. CASE Skip
  BY <1>3, HeadTail DEF Skip, TypeOK
<1>4. CASE Begin
  BY <1>4, HeadTail, DayType DEF Begin, TypeOK, today
<1>5. CASE Query
  BY <1>5 DEF Query, TypeOK
<1>6. CASE Upsert
  BY <1>6, HeadTail DEF Upsert, TypeOK
<1>7. CASE ReportFails
  BY <1>7, HeadTail, DayType DEF ReportFails, TypeOK, today
<1>8. CASE Restart
  BY <1>8, ReporterAssumption DEF Restart, TypeOK
<1>9. CASE Tick
  BY <1>9 DEF Tick, TypeOK, reporter
<1>10. ASSUME NEW t \in Trades, CloseTrade(t) PROVE TypeOK'
  BY <1>10 DEF CloseTrade, TypeOK, reporter
<1>11. ASSUME NEW t \in Trades, Save(t) PROVE TypeOK'
  BY <1>11 DEF Save, TypeOK, reporter
<1>12. ASSUME NEW t \in Trades, Overwrite(t) PROVE TypeOK'
  BY <1>12 DEF Overwrite, TypeOK, reporter
<1>13. CASE UNCHANGED vars
  BY <1>13 DEF vars, reporter, TypeOK
<1> QED
  BY <1>1, <1>2, <1>3, <1>4, <1>5, <1>6, <1>7, <1>8, <1>9, <1>10, <1>11, <1>12, <1>13
  DEF Next, Reporter

-----------------------------------------------------------------------------
(* The invariant                                                           *)

\* The initial state has no rows and nothing recorded.
LEMMA InitRInv == Init => RInv
<1> SUFFICES ASSUME Init PROVE RInv
  OBVIOUS
<1>1. TypeOK
  BY InitTypes
<1>2. ClockAhead /\ SavedAreClosed /\ MomentAhead /\ FoundCovers
  BY ReporterAssumption DEF Init, ClockAhead, SavedAreClosed, MomentAhead, FoundCovers
<1>3. RowsInWindow
  BY DEF Init, RowsInWindow
<1> QED
  BY <1>1, <1>2, <1>3 DEF RInv

\* A row that is in the window of its day is closed by now.
LEMMA RowsBeforeNow ==
  ASSUME RInv
  PROVE  \A m \in Modes, d \in Days : \A t \in rows[m][d] \ reopened :
           t \in Trades /\ closedAt[t] =< now
BY DEF RInv, TypeOK, ClockAhead, RowsInWindow

\* Reading the clock: the moment is past the close of every trade in a row.
LEMMA WakeRInv == RInv /\ TypeOK' /\ Wake => RInv'
<1> SUFFICES ASSUME RInv, TypeOK', Wake PROVE RInv'
  OBVIOUS
<1> USE DEF RInv, Wake
<1>1. ClockAhead' /\ SavedAreClosed' /\ FoundCovers'
  BY DEF ClockAhead, SavedAreClosed, FoundCovers, TypeOK
<1>2. RowsInWindow'
  BY DEF RowsInWindow
<1>3. MomentAhead'
  BY RowsBeforeNow DEF MomentAhead
<1> QED
  BY <1>1, <1>2, <1>3

\* The steps of a pass that touch neither rows nor what was found.
LEMMA PassRInv == RInv /\ TypeOK' /\ (Sleep \/ Skip \/ Begin \/ ReportFails) => RInv'
<1> SUFFICES ASSUME RInv, TypeOK', Sleep \/ Skip \/ Begin \/ ReportFails PROVE RInv'
  OBVIOUS
<1>1. /\ UNCHANGED <<now, table, rows, moment, found>>
      /\ pc # "asleep" /\ pc' # "write"
  BY DEF Sleep, Skip, Begin, ReportFails
<1>2. ClockAhead' /\ SavedAreClosed' /\ FoundCovers'
  BY <1>1 DEF RInv, ClockAhead, SavedAreClosed, FoundCovers
<1>3. RowsInWindow' /\ MomentAhead'
  BY <1>1 DEF RInv, RowsInWindow, MomentAhead
<1> QED
  BY <1>2, <1>3 DEF RInv

\* The query finds the trades of the row it will replace again.
LEMMA QueryRInv == RInv /\ TypeOK' /\ Query => RInv'
<1> SUFFICES ASSUME RInv, TypeOK', Query PROVE RInv'
  OBVIOUS
<1>1. UNCHANGED <<now, table, rows, moment, todo>> /\ pc = "query" /\ pc' = "write"
  BY DEF Query
<1>2. ClockAhead' /\ SavedAreClosed'
  BY <1>1 DEF RInv, ClockAhead, SavedAreClosed
<1>3. RowsInWindow' /\ MomentAhead'
  BY <1>1 DEF RInv, RowsInWindow, MomentAhead
<1>4. FoundCovers'
  <2>1. mode' = mode /\ today' = today /\ mode \in Modes
    BY <1>1, HeadTail DEF mode, today, RInv, TypeOK
  <2>2. \A t \in found' : /\ t \in saved /\ ModeOf[t] = mode /\ closedAt[t] # 0
                          /\ WindowStart(mode, today) < closedAt[t]
                          /\ closedAt[t] =< moment
    BY DEF Query, RInv, SavedAreClosed
  <2>3. ASSUME today \in Days PROVE rows[mode][today] \ reopened \subseteq found'
    BY <1>1, <2>1, <2>3 DEF Query, RInv, RowsInWindow, MomentAhead
  <2> QED
    BY <1>1, <2>1, <2>2, <2>3 DEF FoundCovers
<1> QED
  BY <1>2, <1>3, <1>4 DEF RInv

\* What the upsert does to the rows: one of them, or none, becomes what was found.
LEMMA UpsertRows ==
  ASSUME RInv, Upsert, NEW m \in Modes, NEW d \in Days
  PROVE  \/ rows'[m][d] = rows[m][d]
         \/ m = mode /\ d = today /\ rows'[m][d] = found
<1>1. mode \in Modes
  BY HeadTail DEF Upsert, RInv, TypeOK
<1> QED
  BY <1>1 DEF Upsert, RInv, TypeOK

\* The row that is written is in its window and closed by the moment.
LEMMA UpsertRInv == RInv /\ TypeOK' /\ Upsert => RInv'
<1> SUFFICES ASSUME RInv, TypeOK', Upsert PROVE RInv'
  OBVIOUS
<1>1. /\ UNCHANGED <<now, table, moment, found>>
      /\ pc = "write" /\ pc' = "mode"
  BY DEF Upsert
<1>2. ClockAhead' /\ SavedAreClosed' /\ FoundCovers'
  BY <1>1 DEF RInv, ClockAhead, SavedAreClosed, FoundCovers
<1>3. ASSUME NEW m \in Modes, NEW d \in Days, NEW t \in rows'[m][d] \ reopened
      PROVE  /\ t \in saved /\ ModeOf[t] = m /\ WindowStart(m, d) < closedAt[t]
             /\ closedAt[t] # 0 /\ closedAt[t] =< moment
  <2>1. CASE rows'[m][d] = rows[m][d]
    BY <1>1, <1>3, <2>1 DEF RInv, RowsInWindow, MomentAhead
  <2>2. CASE m = mode /\ d = today /\ rows'[m][d] = found
    BY <1>1, <1>3, <2>2 DEF RInv, FoundCovers
  <2> QED
    BY <2>1, <2>2, UpsertRows
<1>4. RowsInWindow' /\ MomentAhead'
  BY <1>1, <1>3 DEF RowsInWindow, MomentAhead
<1> QED
  BY <1>2, <1>4 DEF RInv

\* A new process starts with an empty pass over the same rows.
LEMMA RestartRInv == RInv /\ TypeOK' /\ Restart => RInv'
<1> SUFFICES ASSUME RInv, TypeOK', Restart PROVE RInv'
  OBVIOUS
<1>1. UNCHANGED <<now, table, rows>> /\ pc' = "asleep"
  BY DEF Restart
<1> QED
  BY <1>1 DEF RInv, ClockAhead, SavedAreClosed, RowsInWindow, MomentAhead, FoundCovers

\* Time passes, trades are closed, saved and overwritten: no row changes, and a
\* trade in a row that is not overwritten keeps the time it was closed at.
LEMMA OutsideRInv ==
  ASSUME RInv, TypeOK', Tick \/ \E t \in Trades : CloseTrade(t) \/ Save(t) \/ Overwrite(t)
  PROVE  RInv'
<1>1. /\ UNCHANGED <<rows, pc, moment, todo, found>>
      /\ now =< now' /\ reopened \subseteq reopened'
      /\ \A t \in saved \ reopened' : t \in saved'
  BY DEF Tick, CloseTrade, Save, Overwrite, reporter, RInv, TypeOK
<1>2. \A t \in Trades \ reopened' : closedAt[t] # 0 => closedAt'[t] = closedAt[t]
  BY DEF Tick, CloseTrade, Save, Overwrite, RInv, TypeOK
<1>3. ClockAhead'
  <2>1. now \in Nat /\ now' \in Nat /\ moment \in Nat
    BY DEF RInv, TypeOK
  <2>2. ASSUME NEW t \in Trades PROVE closedAt'[t] \in {closedAt[t], now, 0}
    BY DEF Tick, CloseTrade, Save, Overwrite, RInv, TypeOK
  <2>3. \A t \in Trades : closedAt[t] \in Nat /\ closedAt[t] =< now
    BY DEF RInv, TypeOK, ClockAhead
  <2>4. \A t \in Trades : closedAt'[t] =< now'
    BY <1>1, <2>1, <2>2, <2>3
  <2> QED
    BY <1>1, <2>1, <2>4 DEF RInv, ClockAhead
<1>4. SavedAreClosed'
  BY DEF Tick, CloseTrade, Save, Overwrite, RInv, TypeOK, ClockAhead, SavedAreClosed
<1>5. \A m \in Modes, d \in Days : \A t \in rows[m][d] \ reopened' :
        t \in saved' /\ closedAt'[t] = closedAt[t] /\ closedAt[t] # 0
  BY <1>1, <1>2 DEF RInv, TypeOK, RowsInWindow
<1>6. RowsInWindow' /\ MomentAhead'
  BY <1>1, <1>5 DEF RInv, RowsInWindow, MomentAhead
<1>7. FoundCovers'
  <2>1. mode' = mode /\ today' = today
    BY <1>1 DEF mode, today
  <2>2. ASSUME pc = "write", NEW t \in found \ reopened'
        PROVE  t \in saved' /\ closedAt'[t] = closedAt[t] /\ closedAt[t] # 0
    BY <1>1, <1>2, <2>2 DEF RInv, TypeOK, FoundCovers
  <2> QED
    BY <1>1, <2>1, <2>2 DEF RInv, FoundCovers
<1> QED
  BY <1>3, <1>4, <1>6, <1>7 DEF RInv

\* Every step keeps the invariant.
LEMMA NextRInv == RInv /\ [Next]_vars => RInv'
<1> SUFFICES ASSUME RInv, [Next]_vars PROVE RInv'
  OBVIOUS
<1>1. TypeOK'
  BY NextTypes DEF RInv
<1>2. CASE UNCHANGED vars
  BY <1>2 DEF vars, reporter, RInv, TypeOK, ClockAhead, SavedAreClosed, RowsInWindow,
              MomentAhead, FoundCovers, mode, today
<1> QED
  BY <1>1, <1>2, WakeRInv, PassRInv, QueryRInv, UpsertRInv, RestartRInv, OutsideRInv
  DEF Next, Reporter

-----------------------------------------------------------------------------
(* Theorems                                                                *)

\* The variables of the reporter always have their types.
THEOREM ReporterTypes == Spec => []TypeOK
<1> QED
  BY InitTypes, NextTypes, PTL DEF Spec

\* A trade that a row counts stays in it, whatever restarts and further reports of
\* the day come (upsert over the row of the same date and mode), unless its CLOSED
\* row was overwritten by a live executor.
THEOREM OnlyReopenedAreLost == Spec => OnlyReopenedLeave
<1>1. RInv /\ [Next]_vars =>
        [\A m \in Modes, d \in Days : rows[m][d] \ rows'[m][d] \subseteq reopened]_vars
  <2> SUFFICES ASSUME RInv, Next, NEW m \in Modes, NEW d \in Days
               PROVE  rows[m][d] \ rows'[m][d] \subseteq reopened
    OBVIOUS
  <2>1. CASE Upsert
    BY <2>1, UpsertRows DEF Upsert, RInv, FoundCovers
  <2>2. CASE ~Upsert
    <3>1. rows' = rows
      BY <2>2 DEF Next, Reporter, Wake, Sleep, Skip, Begin, Query, ReportFails, Restart,
                  Tick, CloseTrade, Save, Overwrite
    <3> QED
      BY <3>1
  <2> QED
    BY <2>1, <2>2
<1> QED
  BY <1>1, InitRInv, NextRInv, PTL DEF Spec, OnlyReopenedLeave

-----------------------------------------------------------------------------
(* No gap between two reports                                              *)

\* A report is of a moment at or after the close of its day, where the window of the
\* next day begins.
AfterClose ==
  /\ pc \in {"query", "write"} => WindowStart(mode, today + 1) =< moment
  /\ \A m \in Modes, d \in Days : asOf[m][d] # 0 => WindowStart(m, d + 1) =< asOf[m][d]

\* A time is the beginning of its day and the time of day (Day, TimeOfDay).
LEMMA DayAndTime == \A t \in Nat : t = Day(t) * DayLength + TimeOfDay(t)
<1> SUFFICES ASSUME NEW t \in Nat PROVE t = Day(t) * DayLength + TimeOfDay(t)
  OBVIOUS
<1>1. DayLength \in Nat /\ DayLength > 0
  BY ReporterAssumption
<1> QED
  BY <1>1, SMTT(60) DEF Day, TimeOfDay

\* The window of the day after d begins at the close of d (WindowStart).
LEMMA NextWindow ==
  ASSUME NEW m \in Modes, NEW d \in Nat
  PROVE  WindowStart(m, d + 1) = d * DayLength + CloseTime[m]
<1>1. CloseTime[m] \in Nat /\ DayLength \in Nat
  BY ReporterAssumption
<1>2. d + 1 - 1 = d
  OBVIOUS
<1> QED
  BY <1>1, <1>2, SMTT(30) DEF WindowStart

\* A mode that is due at a moment closed on its day by then (_maybe_report_mode).
LEMMA DueAfterClose ==
  ASSUME TypeOK, todo # <<>>, TimeOfDay(moment) >= CloseTime[mode]
  PROVE  WindowStart(mode, today + 1) =< moment
<1>1. mode \in Modes /\ moment \in Nat
  BY HeadTail DEF TypeOK
<1>2. CloseTime[mode] \in Nat /\ DayLength \in Nat /\ DayLength > 0
  BY <1>1, ReporterAssumption
<1>3. Day(moment) \in Nat /\ TimeOfDay(moment) \in Nat
  BY <1>1, <1>2, DayType DEF TimeOfDay
<1>4. moment = Day(moment) * DayLength + TimeOfDay(moment)
  BY <1>1, DayAndTime
<1>5. WindowStart(mode, today + 1) = Day(moment) * DayLength + CloseTime[mode]
  BY <1>1, <1>3, NextWindow DEF today
<1>6. Day(moment) * DayLength \in Nat
  BY <1>2, <1>3
<1> QED
  BY <1>2, <1>3, <1>4, <1>5, <1>6

\* Every step keeps reports after the close of their day.
LEMMA NextAfterClose == TypeOK /\ AfterClose /\ [Next]_vars => AfterClose'
<1> SUFFICES ASSUME TypeOK, AfterClose, [Next]_vars PROVE AfterClose'
  OBVIOUS
<1>1. CASE Begin
  <2>1. WindowStart(mode, today + 1) =< moment
    BY <1>1, DueAfterClose DEF Begin, Due
  <2>2. UNCHANGED <<moment, todo, asOf>> /\ mode' = mode /\ today' = today
    BY <1>1 DEF Begin, mode, today
  <2> QED
    BY <2>1, <2>2 DEF AfterClose
<1>2. CASE Query
  <2>1. pc = "query" /\ UNCHANGED <<moment, todo, asOf>> /\ mode' = mode /\ today' = today
    BY <1>2 DEF Query, mode, today
  <2> QED
    BY <2>1 DEF AfterClose
<1>3. CASE Upsert
  <2>1. pc = "write" /\ pc' = "mode" /\ mode \in Modes
    BY <1>3, HeadTail DEF Upsert, TypeOK
  <2>2. ASSUME NEW m \in Modes, NEW d \in Days
        PROVE  \/ asOf'[m][d] = asOf[m][d]
               \/ m = mode /\ d = today /\ asOf'[m][d] = moment
    BY <1>3, <2>1 DEF Upsert, TypeOK
  <2> QED
    BY <2>1, <2>2 DEF AfterClose
<1>4. CASE Wake \/ Sleep \/ Skip \/ ReportFails \/ Restart
  <2>1. UNCHANGED asOf /\ pc' \notin {"query", "write"}
    BY <1>4 DEF Wake, Sleep, Skip, ReportFails, Restart
  <2> QED
    BY <2>1 DEF AfterClose
<1>5. CASE UNCHANGED <<pc, moment, todo, asOf>>
  BY <1>5 DEF AfterClose, mode, today
<1>6. ASSUME \/ Tick \/ UNCHANGED vars
             \/ \E t \in Trades : CloseTrade(t) \/ Save(t) \/ Overwrite(t)
      PROVE  UNCHANGED <<pc, moment, todo, asOf>>
  BY <1>6 DEF Tick, CloseTrade, Save, Overwrite, vars, reporter
<1> QED
  BY <1>1, <1>2, <1>3, <1>4, <1>5, <1>6 DEF Next, Reporter

\* No trade falls between two reports: the window of a day begins no later than the
\* moment the report of the day before was made of (list_closed_between).
THEOREM NothingBetweenReports == Spec => NoGap
<1>1. Init => AfterClose
  BY DEF Init, AfterClose
<1>2. TypeOK /\ AfterClose /\ [Next]_vars =>
        [pc = "query" /\ pc' = "write" /\ today - 1 \in Days /\ asOf[mode][today - 1] > 0 =>
           \A t \in saved :
             ModeOf[t] = mode /\ asOf[mode][today - 1] < closedAt[t] /\ closedAt[t] =< moment
               => t \in found']_vars
  <2> SUFFICES ASSUME TypeOK, AfterClose, Next, pc = "query", pc' = "write",
                      today - 1 \in Days, asOf[mode][today - 1] > 0,
                      NEW t \in saved, ModeOf[t] = mode,
                      asOf[mode][today - 1] < closedAt[t], closedAt[t] =< moment
               PROVE  t \in found'
    OBVIOUS
  <2>1. Query
    BY DEF Next, Reporter, Wake, Sleep, Skip, Begin, Upsert, ReportFails, Restart, Tick,
           CloseTrade, Save, Overwrite, reporter
  <2>2. mode \in Modes /\ today \in Nat
    BY HeadTail, DayType DEF TypeOK, today
  <2>3. today - 1 + 1 = today
    BY <2>2
  <2>4. asOf[mode][today - 1] \in Nat /\ closedAt[t] \in Nat
    BY <2>2 DEF TypeOK
  <2>5. WindowStart(mode, today) =< asOf[mode][today - 1]
    BY <2>2, <2>3, <2>4 DEF AfterClose
  <2>6. WindowStart(mode, today) \in Int
    <3>1. CloseTime[mode] \in Nat /\ DayLength \in Nat
      BY <2>2, ReporterAssumption
    <3> QED
      BY <2>2, <3>1 DEF WindowStart
  <2>7. WindowStart(mode, today) < closedAt[t]
    BY <2>4, <2>5, <2>6
  <2> QED
    BY <2>1, <2>7 DEF Query
<1> QED
  BY <1>1, <1>2, InitTypes, NextTypes, NextAfterClose, PTL DEF Spec, NoGap
=============================================================================
