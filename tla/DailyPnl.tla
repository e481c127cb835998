------------------------------ MODULE DailyPnl ------------------------------
(***************************************************************************)
(* compute_daily_pnl (domain/pnl.py): one pass over the closed trades of a *)
(* session, and the figures of its DailyPnl row. Amounts are integers:     *)
(* prices and quantities in the units of their columns, money in products  *)
(* of the two, of which Unit make one unit of the money columns (10^8 in   *)
(* the code, whose columns have eight decimals). Division in the code      *)
(* keeps 28 digits; here a figure is rounded once.                         *)
(***************************************************************************)
EXTENDS Integers, Sequences, FiniteSets, FiniteSetsExt

CONSTANTS
  Symbols,
  Prices,
  Quantities,
  None,       \* NULL
  Unit,
  MaxTrades,  \* bound: the trades of a session
  NoStats     \* the row is not computed yet

ASSUME NumbersAssumption == Prices \subseteq Nat /\ Quantities \subseteq Nat /\ None \notin Nat

ASSUME UnitAssumption == Unit \in Nat \ {0}

VARIABLES
  trades,  \* what the iterator has yielded
  sums,    \* the local variables of the pass
  stats    \* the DailyPnlStats

vars == <<trades, sums, stats>>

\* filled_avg_price, exit_filled_avg_price, filled_quantity, exit_filled_quantity.
Row == [symbol : Symbols, type : {"LONG", "SHORT"},
        entry : Prices \cup {None}, exit : Prices \cup {None},
        bought : Quantities \cup {None}, sold : Quantities \cup {None}]

Zeros ==
  [total |-> 0, wins |-> 0, losses |-> 0, breakeven |-> 0,
   realized |-> 0, invested |-> 0, proceeds |-> 0,
   winSum |-> 0, lossSum |-> 0, largestWin |-> 0, largestLoss |-> 0,
   symbols |-> {}]

Init == trades = <<>> /\ sums = Zeros /\ stats = NoStats

-----------------------------------------------------------------------------
(* One trade                                                               *)

\* Python's "a or b": zero and None are both passed over.
Or(a, b) == IF a \in {None, 0} THEN b ELSE a

\* _trade_pnl: None without both prices and a quantity.
Counted(t) == t.entry # None /\ t.exit # None /\ Or(t.sold, t.bought) # None

Pnl(t) ==
  IF t.type = "LONG" THEN (t.exit - t.entry) * Or(t.sold, t.bought)
                     ELSE (t.entry - t.exit) * Or(t.sold, t.bought)

\* Mutant: a missing quantity of the entry counts as zero.
EntryQuantityOrZero(t) == Or(t.bought, 0)

EntryQuantity(t) == Or(Or(t.bought, t.sold), 0)

ExitQuantity(t) == Or(t.sold, EntryQuantity(t))

Larger(a, b) == IF a >= b THEN a ELSE b

Smaller(a, b) == IF a =< b THEN a ELSE b

\* Mutant: the first comparison takes in zero.
ClassifyZeroAsWin(s, p) ==
  IF p >= 0
  THEN [s EXCEPT !.wins = @ + 1, !.winSum = @ + p, !.largestWin = Larger(@, p)]
  ELSE [s EXCEPT !.losses = @ + 1, !.lossSum = @ + p, !.largestLoss = Smaller(@, p)]

Classify(s, p) ==
  IF p > 0
  THEN [s EXCEPT !.wins = @ + 1, !.winSum = @ + p, !.largestWin = Larger(@, p)]
  ELSE IF p < 0
  THEN [s EXCEPT !.losses = @ + 1, !.lossSum = @ + p, !.largestLoss = Smaller(@, p)]
  ELSE [s EXCEPT !.breakeven = @ + 1]

Figures(s, t) ==
  [s EXCEPT !.total = @ + 1,
            !.symbols = @ \cup {t.symbol},
            !.invested = @ + t.entry * EntryQuantity(t),
            !.proceeds = @ + t.exit * ExitQuantity(t),
            !.realized = @ + Pnl(t)]

\* Mutant: a trade is counted before its fills are looked at.
AddedUncounted(s, t) ==
  IF Counted(t) THEN Classify(Figures(s, t), Pnl(t)) ELSE [s EXCEPT !.total = @ + 1]

Added(s, t) == IF Counted(t) THEN Classify(Figures(s, t), Pnl(t)) ELSE s

\* One turn of the loop.
Add(t) ==
  /\ stats = NoStats
  /\ Len(trades) < MaxTrades
  /\ trades' = Append(trades, t)
  /\ sums' = Added(sums, t)
  /\ UNCHANGED stats

-----------------------------------------------------------------------------
(* The row                                                                 *)

\* Decimal.quantize: n / d to the nearest unit, a tie to the even one.
Rounded(n, d) ==
  LET q == n \div d  r == 2 * (n % d)
  IN  IF r > d \/ (r = d /\ q % 2 = 1) THEN q + 1 ELSE q

\* Mutant: the average is taken over all trades.
AverageOfAll(sum, count) ==
  IF sums.total > 0 THEN Rounded(sum, sums.total * Unit) ELSE 0

Average(sum, count) == IF count > 0 THEN Rounded(sum, count * Unit) ELSE 0

WinRate == IF sums.total > 0 THEN Rounded(sums.wins * 100 * Unit, sums.total) ELSE 0

ReturnPct ==
  IF sums.invested > 0 THEN Rounded(sums.realized * 100 * Unit, sums.invested) ELSE 0

Finish ==
  /\ stats = NoStats
  /\ stats' =
       [total |-> sums.total, wins |-> sums.wins, losses |-> sums.losses,
        breakeven |-> sums.breakeven, symbols |-> Cardinality(sums.symbols),
        realized |-> Rounded(sums.realized, Unit),
        invested |-> Rounded(sums.invested, Unit),
        proceeds |-> Rounded(sums.proceeds, Unit),
        winRate |-> WinRate, returnPct |-> ReturnPct,
        averageWin |-> Average(sums.winSum, sums.wins),
        averageLoss |-> Average(sums.lossSum, sums.losses),
        largestWin |-> Rounded(sums.largestWin, Unit),
        largestLoss |-> Rounded(sums.largestLoss, Unit)]
  /\ UNCHANGED <<trades, sums>>

Next == (\E t \in Row : Add(t)) \/ Finish

Spec == Init /\ [][Next]_vars

-----------------------------------------------------------------------------

\* The counters are natural numbers, the sums have the signs of what they add.
TypeOK ==
  /\ trades \in Seq(Row)
  /\ sums \in [total : Nat, wins : Nat, losses : Nat, breakeven : Nat,
               realized : Int, invested : Nat, proceeds : Nat,
               winSum : Nat, lossSum : Int, largestWin : Nat, largestLoss : Int,
               symbols : SUBSET Symbols]
  /\ sums.lossSum =< 0 /\ sums.largestLoss =< 0

\* The figures of a row agree with each other although the pass keeps them apart:
\* every counted trade is a win, a loss or neither, the wins and the losses make up
\* the realized result, and no average can exceed its largest member.
AddsUp ==
  /\ sums.total = sums.wins + sums.losses + sums.breakeven
  /\ sums.total =< Len(trades)
  /\ sums.realized = sums.winSum + sums.lossSum
  /\ sums.largestWin =< sums.winSum
  /\ sums.winSum =< sums.wins * sums.largestWin
  /\ sums.lossSum =< sums.largestLoss
  /\ sums.losses * sums.largestLoss =< sums.lossSum

\* What was bought was sold: the two quantities are equal, or one is missing.
SoldOff(t) == Or(t.sold, t.bought) = Or(t.bought, t.sold)

AllSoldOff(type) ==
  \A i \in 1 .. Len(trades) : trades[i].type = type /\ SoldOff(trades[i])

\* For long positions that were sold off, the result is what the proceeds exceed
\* the amount invested by, and for short ones the reverse: the three are summed
\* apart, from quantities that three expressions choose. It is not so when an exit
\* was partial, since the amount invested is then that of the whole entry.
ResultIsProceedsLessCost ==
  /\ AllSoldOff("LONG") => sums.realized = sums.proceeds - sums.invested
  /\ AllSoldOff("SHORT") => sums.realized = sums.invested - sums.proceeds

Results == {i \in 1 .. Len(trades) : Counted(trades[i])}

ResultOf == [i \in Results |-> Pnl(trades[i])]

CostOf == [i \in Results |-> trades[i].entry * EntryQuantity(trades[i])]

ProceedsOf == [i \in Results |-> trades[i].exit * ExitQuantity(trades[i])]

Winners == {i \in Results : ResultOf[i] > 0}

Losers == {i \in Results : ResultOf[i] < 0}

Total(v, S) == MapThenSumSet(LAMBDA i : v[i], S)

\* The definition of the figures over the set of the counted trades, whatever the
\* order in which the query returns them.
Reference ==
  [total |-> Cardinality(Results),
   wins |-> Cardinality(Winners), losses |-> Cardinality(Losers),
   breakeven |-> Cardinality(Results \ (Winners \cup Losers)),
   realized |-> Total(ResultOf, Results),
   invested |-> Total(CostOf, Results), proceeds |-> Total(ProceedsOf, Results),
   winSum |-> Total(ResultOf, Winners), lossSum |-> Total(ResultOf, Losers),
   largestWin |-> Max({0} \cup {ResultOf[i] : i \in Winners}),
   largestLoss |-> Min({0} \cup {ResultOf[i] : i \in Losers}),
   symbols |-> {trades[i].symbol : i \in Results}]

\* The pass computes what the figures mean, for every list of trades: rows without
\* fills count for nothing, a quantity of zero counts as a missing one, and the
\* order of the rows does not matter.
MatchesReference == sums = Reference

Distance(a, b) == IF a >= b THEN a - b ELSE b - a

\* The stored row is coherent after rounding, with its guards against division by
\* zero: a rate is between 0 and 100, an average is within its largest member and,
\* multiplied by its count, within half a unit per trade of its sum; a return has
\* the sign of the result; and a day without trades is all zeros.
RowCoherent ==
  stats # NoStats =>
    /\ 0 =< stats.winRate /\ stats.winRate =< 100 * Unit
    /\ stats.averageWin =< stats.largestWin /\ stats.largestLoss =< stats.averageLoss
    /\ 2 * Distance(stats.averageWin * stats.wins * Unit, sums.winSum) =< stats.wins * Unit
    /\ 2 * Distance(stats.averageLoss * stats.losses * Unit, sums.lossSum) =< stats.losses * Unit
    /\ stats.returnPct > 0 => sums.realized > 0
    /\ stats.returnPct < 0 => sums.realized < 0
    /\ Distance(stats.realized, Rounded(sums.winSum, Unit) + Rounded(sums.lossSum, Unit)) =< 1
    /\ stats.total = 0 => \A f \in DOMAIN stats : stats[f] = 0
=============================================================================
