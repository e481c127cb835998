--------------------------- MODULE DailyPnlProofs ---------------------------
(***************************************************************************)
(* The pass of compute_daily_pnl for every list of trades and all prices   *)
(* and quantities: its loop invariants, what rounding leaves of them in    *)
(* the row, and what the figures mean over the set of the trades, from the *)
(* properties of a sum over a finite set. Induction over sets is done with *)
(* a smallest counterexample (SmallestSet).                                *)
(***************************************************************************)
EXTENDS DailyPnl, FiniteSetTheorems, WellFoundedInduction, TLAPS

\* A product grows with its second factor.
LEMMA TimesMonotone ==
  ASSUME NEW n \in Nat, NEW a \in Int, NEW b \in Int, a =< b
  PROVE  n * a =< n * b
OBVIOUS

\* The product of natural numbers is one.
LEMMA TimesNat == ASSUME NEW a \in Nat, NEW b \in Nat PROVE a * b \in Nat
OBVIOUS

\* The quantities and the result of a counted trade are numbers.
LEMMA CountedTypes ==
  ASSUME NEW t \in Row, Counted(t)
  PROVE  /\ t.entry \in Nat /\ t.exit \in Nat
         /\ Or(t.sold, t.bought) \in Nat
         /\ EntryQuantity(t) \in Nat /\ ExitQuantity(t) \in Nat
         /\ t.entry * EntryQuantity(t) \in Nat
         /\ t.exit * ExitQuantity(t) \in Nat
         /\ Pnl(t) \in Int
<1>1. t.entry \in Nat /\ t.exit \in Nat
  BY NumbersAssumption DEF Row, Counted
<1>2. Or(t.sold, t.bought) \in Nat
  BY NumbersAssumption DEF Row, Counted, Or
<1>3. EntryQuantity(t) \in Nat
  BY NumbersAssumption DEF Row, EntryQuantity, Or
<1>4. ExitQuantity(t) \in Nat
  BY <1>3, NumbersAssumption DEF Row, ExitQuantity, Or
<1>5. Pnl(t) \in Int
  <2> DEFINE q == Or(t.sold, t.bought)
  <2>1. q \in Int /\ t.exit - t.entry \in Int /\ t.entry - t.exit \in Int
    BY <1>1, <1>2
  <2> HIDE DEF q
  <2>2. (t.exit - t.entry) * q \in Int /\ (t.entry - t.exit) * q \in Int
    BY <2>1
  <2> QED BY <2>2 DEF Pnl, q
<1> QED BY <1>1, <1>2, <1>3, <1>4, <1>5, TimesNat

Sums == [total : Nat, wins : Nat, losses : Nat, breakeven : Nat,
         realized : Int, invested : Nat, proceeds : Nat,
         winSum : Nat, lossSum : Int, largestWin : Nat, largestLoss : Int,
         symbols : SUBSET Symbols]

\* A win leaves the types alone.
LEMMA WinTypes ==
  ASSUME NEW f \in Sums, NEW p \in Int, p > 0 PROVE Classify(f, p) \in Sums
<1> DEFINE f1 == [f EXCEPT !.wins = @ + 1]
           f2 == [f1 EXCEPT !.winSum = f.winSum + p]
           f3 == [f2 EXCEPT !.largestWin = Larger(f.largestWin, p)]
<1>1. f.winSum + p \in Nat /\ Larger(f.largestWin, p) \in Nat
  BY DEF Sums, Larger
<1>2. f1 \in Sums
  BY DEF Sums
<1>3. Classify(f, p) = f3
  BY DEF Classify
<1> HIDE DEF f1
<1>4. f2 \in Sums
  BY <1>1, <1>2 DEF Sums
<1> HIDE DEF f2
<1>5. f3 \in Sums
  BY <1>1, <1>4 DEF Sums
<1> QED BY <1>3, <1>5

\* And so does a loss.
LEMMA LossTypes ==
  ASSUME NEW f \in Sums, NEW p \in Int, p < 0 PROVE Classify(f, p) \in Sums
<1> DEFINE f1 == [f EXCEPT !.losses = @ + 1]
           f2 == [f1 EXCEPT !.lossSum = f.lossSum + p]
           f3 == [f2 EXCEPT !.largestLoss = Smaller(f.largestLoss, p)]
<1>1. f.lossSum + p \in Int /\ Smaller(f.largestLoss, p) \in Int
  BY DEF Sums, Smaller
<1>2. f1 \in Sums
  BY DEF Sums
<1>3. Classify(f, p) = f3
  BY DEF Classify
<1> HIDE DEF f1
<1>4. f2 \in Sums
  BY <1>1, <1>2 DEF Sums
<1> HIDE DEF f2
<1>5. f3 \in Sums
  BY <1>1, <1>4 DEF Sums
<1> QED BY <1>3, <1>5

\* The local variables after a trade that is not counted and after one that is: a
\* win, a loss or neither.
LEMMA AddedFields ==
  ASSUME NEW s \in Sums, NEW t \in Row, Counted(t), NEW p \in Int, p = Pnl(t)
  PROVE  LET z == Added(s, t) IN
         /\ z \in Sums
         /\ z.total = s.total + 1
         /\ z.realized = s.realized + p
         /\ z.invested = s.invested + t.entry * EntryQuantity(t)
         /\ z.proceeds = s.proceeds + t.exit * ExitQuantity(t)
         /\ \/ /\ p > 0 /\ z.wins = s.wins + 1 /\ z.winSum = s.winSum + p
               /\ z.largestWin = Larger(s.largestWin, p)
               /\ z.losses = s.losses /\ z.lossSum = s.lossSum
               /\ z.largestLoss = s.largestLoss /\ z.breakeven = s.breakeven
            \/ /\ p < 0 /\ z.losses = s.losses + 1 /\ z.lossSum = s.lossSum + p
               /\ z.largestLoss = Smaller(s.largestLoss, p)
               /\ z.wins = s.wins /\ z.winSum = s.winSum
               /\ z.largestWin = s.largestWin /\ z.breakeven = s.breakeven
            \/ /\ p = 0 /\ z.breakeven = s.breakeven + 1
               /\ z.wins = s.wins /\ z.winSum = s.winSum
               /\ z.largestWin = s.largestWin
               /\ z.losses = s.losses /\ z.lossSum = s.lossSum
               /\ z.largestLoss = s.largestLoss
<1> DEFINE cost == t.entry * EntryQuantity(t)
           gain == t.exit * ExitQuantity(t)
           f == [s EXCEPT !.total = @ + 1, !.symbols = @ \cup {t.symbol},
                          !.invested = @ + cost, !.proceeds = @ + gain,
                          !.realized = @ + p]
           z == Added(s, t)
<1>1. cost \in Nat /\ gain \in Nat /\ t.symbol \in Symbols
  BY CountedTypes DEF Row
<1>2. z = Classify(f, p)
  BY DEF Added, Figures
<1> HIDE DEF cost, gain, z
<1>3. /\ f \in Sums
      /\ f.total = s.total + 1 /\ f.realized = s.realized + p
      /\ f.invested = s.invested + cost /\ f.proceeds = s.proceeds + gain
      /\ f.wins = s.wins /\ f.winSum = s.winSum /\ f.largestWin = s.largestWin
      /\ f.losses = s.losses /\ f.lossSum = s.lossSum
      /\ f.largestLoss = s.largestLoss /\ f.breakeven = s.breakeven
  <2>1. f \in Sums
    <3> DEFINE f1 == [s EXCEPT !.total = @ + 1]
               f2 == [f1 EXCEPT !.symbols = s.symbols \cup {t.symbol}]
               f3 == [f2 EXCEPT !.invested = s.invested + cost]
               f4 == [f3 EXCEPT !.proceeds = s.proceeds + gain]
               f5 == [f4 EXCEPT !.realized = s.realized + p]
    <3>1. f1 \in Sums
      BY DEF Sums
    <3>2. f = f5
      OBVIOUS
    <3> HIDE DEF f1, f
    <3>3. f2 \in Sums
      BY <1>1, <3>1 DEF Sums
    <3> HIDE DEF f2
    <3>4. f3 \in Sums
      BY <1>1, <3>3 DEF Sums
    <3> HIDE DEF f3
    <3>5. f4 \in Sums
      BY <1>1, <3>4 DEF Sums
    <3> HIDE DEF f4
    <3>6. f5 \in Sums
      BY <1>1, <3>5 DEF Sums
    <3> QED BY <3>2, <3>6
  <2>2. /\ f.total = s.total + 1 /\ f.realized = s.realized + p
        /\ f.invested = s.invested + cost /\ f.proceeds = s.proceeds + gain
    BY <1>1 DEF Sums
  <2>3. /\ f.wins = s.wins /\ f.winSum = s.winSum /\ f.largestWin = s.largestWin
        /\ f.losses = s.losses /\ f.lossSum = s.lossSum
        /\ f.largestLoss = s.largestLoss /\ f.breakeven = s.breakeven
    BY <1>1 DEF Sums
  <2> QED BY <2>1, <2>2, <2>3
<1> HIDE DEF f
<1>4. CASE p > 0
  <2>1. z \in Sums
    BY <1>2, <1>3, <1>4, WinTypes
  <2>2. /\ z.total = f.total /\ z.realized = f.realized
        /\ z.invested = f.invested /\ z.proceeds = f.proceeds
    BY <1>2, <1>3, <1>4 DEF Classify, Sums
  <2>3. /\ z.wins = f.wins + 1 /\ z.winSum = f.winSum + p
        /\ z.largestWin = Larger(f.largestWin, p)
        /\ z.losses = f.losses /\ z.lossSum = f.lossSum
        /\ z.largestLoss = f.largestLoss /\ z.breakeven = f.breakeven
    BY <1>2, <1>3, <1>4 DEF Classify, Sums
  <2> QED BY <1>3, <1>4, <2>1, <2>2, <2>3 DEF cost, gain, z
<1>5. CASE p < 0
  <2>1. z \in Sums
    BY <1>2, <1>3, <1>5, LossTypes
  <2>2. /\ z.total = f.total /\ z.realized = f.realized
        /\ z.invested = f.invested /\ z.proceeds = f.proceeds
    BY <1>2, <1>3, <1>5 DEF Classify, Sums
  <2>3. /\ z.losses = f.losses + 1 /\ z.lossSum = f.lossSum + p
        /\ z.largestLoss = Smaller(f.largestLoss, p)
        /\ z.wins = f.wins /\ z.winSum = f.winSum
        /\ z.largestWin = f.largestWin /\ z.breakeven = f.breakeven
    BY <1>2, <1>3, <1>5 DEF Classify, Sums
  <2> QED BY <1>3, <1>5, <2>1, <2>2, <2>3 DEF cost, gain, z
<1>6. CASE p = 0
  BY <1>2, <1>3, <1>6 DEF Classify, Sums, cost, gain, z
<1> QED BY <1>4, <1>5, <1>6

-----------------------------------------------------------------------------

\* The variables keep their types.
THEOREM PnlTypes == Spec => []TypeOK
<1>1. Init => TypeOK
  BY DEF Init, TypeOK, Zeros
<1>2. TypeOK /\ [Next]_vars => TypeOK'
  <2> SUFFICES ASSUME TypeOK, [Next]_vars PROVE TypeOK'
    OBVIOUS
  <2>1. ASSUME NEW t \in Row, Add(t) PROVE TypeOK'
    <3>1. trades' \in Seq(Row)
      BY <2>1 DEF TypeOK, Add
    <3>2. sums \in Sums
      BY DEF TypeOK, Sums
    <3>3. CASE Counted(t)
      <4>1. Pnl(t) \in Int /\ sums' = Added(sums, t)
        BY <2>1, <3>3, CountedTypes DEF Add
      <4>2. sums' \in Sums
        BY <3>2, <3>3, <4>1, AddedFields
      <4>3. sums'.lossSum =< 0 /\ sums'.largestLoss =< 0
        <5> DEFINE p == Pnl(t)
        <5>1. \/ sums'.lossSum = sums.lossSum /\ sums'.largestLoss = sums.largestLoss
              \/ /\ p < 0 /\ sums'.lossSum = sums.lossSum + p
                 /\ sums'.largestLoss = Smaller(sums.largestLoss, p)
          BY <3>2, <3>3, <4>1, AddedFields
        <5>2. /\ sums.lossSum \in Int /\ sums.lossSum =< 0
              /\ sums.largestLoss \in Int /\ sums.largestLoss =< 0
          BY DEF TypeOK
        <5>3. p \in Int
          BY <4>1
        <5> HIDE DEF p
        <5> QED BY <5>1, <5>2, <5>3 DEF Smaller
      <4> QED BY <3>1, <4>2, <4>3 DEF TypeOK, Sums
    <3>4. CASE ~Counted(t)
      BY <2>1, <3>1, <3>4 DEF TypeOK, Add, Added
    <3> QED BY <3>3, <3>4
  <2>2. CASE Finish \/ UNCHANGED vars
    BY <2>2 DEF TypeOK, Finish, vars
  <2> QED BY <2>1, <2>2 DEF Next
<1> QED BY <1>1, <1>2, PTL DEF Spec

\* A product of one more factor.
LEMMA TimesSuccessor == ASSUME NEW n \in Nat, NEW a \in Int PROVE (n + 1) * a = n * a + a
OBVIOUS

\* The figures of the day agree with each other after every trade: the counts make
\* up the total, wins and losses the result, and the sums lie within their counts
\* times the largest members, so that no average exceeds its largest member.
THEOREM FiguresAddUp == Spec => []AddsUp
<1>1. Init => AddsUp
  BY DEF Init, AddsUp, Zeros
<1>2. TypeOK /\ AddsUp /\ [Next]_vars => AddsUp'
  <2> SUFFICES ASSUME TypeOK, AddsUp, [Next]_vars PROVE AddsUp'
    OBVIOUS
  <2>1. ASSUME NEW t \in Row, Add(t), Counted(t) PROVE AddsUp'
    <3> DEFINE p == Pnl(t)
    <3>1. p \in Int
      BY <2>1, CountedTypes
    <3>2. sums \in Sums /\ sums' = Added(sums, t)
      BY <2>1 DEF TypeOK, Sums, Add
    <3>3. Len(trades') = Len(trades) + 1 /\ Len(trades) \in Nat
      BY <2>1 DEF TypeOK, Add
    <3> HIDE DEF p
    <3>4. /\ sums' \in Sums
          /\ sums'.total = sums.total + 1 /\ sums'.realized = sums.realized + p
      BY <2>1, <3>1, <3>2, AddedFields DEF p
    <3>5. /\ sums.largestWin =< sums.winSum /\ sums.lossSum =< sums.largestLoss
          /\ sums.total = sums.wins + sums.losses + sums.breakeven
          /\ sums.total =< Len(trades)
          /\ sums.realized = sums.winSum + sums.lossSum
      BY DEF AddsUp
    <3>6. /\ sums.total \in Int /\ sums.wins \in Int /\ sums.losses \in Int
           /\ sums.breakeven \in Int /\ sums.realized \in Int
           /\ sums.winSum \in Int /\ sums.lossSum \in Int
           /\ sums.largestWin \in Int /\ sums.largestLoss \in Int
      BY DEF TypeOK
    <3>7. sums.winSum >= 0 /\ sums.lossSum =< 0
      BY DEF TypeOK
    <3>8. /\ sums.winSum =< sums.wins * sums.largestWin
           /\ sums.losses * sums.largestLoss =< sums.lossSum
      BY DEF AddsUp
    <3>9. CASE p > 0
      <4> DEFINE m == Larger(sums.largestWin, p)
      <4>1. m \in Nat /\ sums.largestWin =< m /\ p =< m
        BY <3>1, <3>2, <3>9 DEF Larger, Sums
      <4>2. /\ sums'.wins = sums.wins + 1 /\ sums'.winSum = sums.winSum + p
            /\ sums'.largestWin = m
            /\ sums'.losses = sums.losses /\ sums'.lossSum = sums.lossSum
            /\ sums'.largestLoss = sums.largestLoss /\ sums'.breakeven = sums.breakeven
        BY <2>1, <3>1, <3>2, <3>9, AddedFields DEF p
      <4>3. m = sums.largestWin \/ m = p
        BY DEF Larger
      <4> HIDE DEF m
      <4>4. sums.wins * sums.largestWin =< sums.wins * m
        BY <3>2, <4>1, TimesMonotone DEF Sums
      <4>5. (sums.wins + 1) * m = sums.wins * m + m
        BY <3>2, <4>1, TimesSuccessor DEF Sums
      <4>6. sums'.winSum =< sums'.wins * sums'.largestWin
        <5> DEFINE u == sums.wins * sums.largestWin  v == sums.wins * m
        <5>1. u \in Int /\ v \in Int
          BY <3>6, <4>1
        <5>2. sums.winSum =< u /\ u =< v /\ sums'.wins * sums'.largestWin = v + m
          BY <4>2, <4>4, <4>5 DEF AddsUp
        <5> HIDE DEF u, v
        <5> QED BY <3>1, <3>6, <4>1, <4>2, <5>1, <5>2
      <4>7. sums'.largestWin =< sums'.winSum
        BY <3>1, <3>5, <3>6, <3>7, <3>9, <4>2, <4>3
      <4>8. sums'.losses * sums'.largestLoss =< sums'.lossSum
        BY <3>8, <4>2
      <4>9. sums'.total =< Len(trades')
        BY <3>3, <3>4, <3>5, <3>6
      <4>12. sums'.total = sums'.wins + sums'.losses + sums'.breakeven
        BY <3>4, <3>5, <3>6, <4>2
      <4>10. sums'.realized = sums'.winSum + sums'.lossSum
        BY <3>1, <3>4, <3>5, <3>6, <4>2
      <4>11. sums'.lossSum =< sums'.largestLoss
        BY <3>5, <4>2
      <4> QED BY <4>6, <4>7, <4>8, <4>9, <4>10, <4>11, <4>12 DEF AddsUp
    <3>10. CASE p < 0
      <4> DEFINE m == Smaller(sums.largestLoss, p)
      <4>1. m \in Int /\ m =< sums.largestLoss /\ m =< p
        BY <3>1, <3>2, <3>10 DEF Smaller, Sums
      <4>2. /\ sums'.losses = sums.losses + 1 /\ sums'.lossSum = sums.lossSum + p
            /\ sums'.largestLoss = m
            /\ sums'.wins = sums.wins /\ sums'.winSum = sums.winSum
            /\ sums'.largestWin = sums.largestWin /\ sums'.breakeven = sums.breakeven
        BY <2>1, <3>1, <3>2, <3>10, AddedFields DEF p
      <4>3. m = sums.largestLoss \/ m = p
        BY DEF Smaller
      <4> HIDE DEF m
      <4>4. sums.losses * m =< sums.losses * sums.largestLoss
        BY <3>2, <4>1, TimesMonotone DEF Sums
      <4>5. (sums.losses + 1) * m = sums.losses * m + m
        BY <3>2, <4>1, TimesSuccessor DEF Sums
      <4>6. sums'.losses * sums'.largestLoss =< sums'.lossSum
        <5> DEFINE u == sums.losses * sums.largestLoss  v == sums.losses * m
        <5>1. u \in Int /\ v \in Int
          BY <3>6, <4>1
        <5>2. u =< sums.lossSum /\ v =< u /\ sums'.losses * sums'.largestLoss = v + m
          BY <4>2, <4>4, <4>5 DEF AddsUp
        <5> HIDE DEF u, v
        <5> QED BY <3>1, <3>6, <4>1, <4>2, <5>1, <5>2
      <4>7. sums'.lossSum =< sums'.largestLoss
        BY <3>1, <3>5, <3>6, <3>7, <3>10, <4>2, <4>3
      <4>8. sums'.winSum =< sums'.wins * sums'.largestWin
        BY <3>8, <4>2
      <4>9. sums'.total =< Len(trades')
        BY <3>3, <3>4, <3>5, <3>6
      <4>12. sums'.total = sums'.wins + sums'.losses + sums'.breakeven
        BY <3>4, <3>5, <3>6, <4>2
      <4>10. sums'.realized = sums'.winSum + sums'.lossSum
        BY <3>1, <3>4, <3>5, <3>6, <4>2
      <4>11. sums'.largestWin =< sums'.winSum
        BY <3>5, <4>2
      <4> QED BY <4>6, <4>7, <4>8, <4>9, <4>10, <4>11, <4>12 DEF AddsUp
    <3>11. CASE p = 0
      <4>1. /\ sums'.breakeven = sums.breakeven + 1
            /\ sums'.wins = sums.wins /\ sums'.winSum = sums.winSum
            /\ sums'.largestWin = sums.largestWin
            /\ sums'.losses = sums.losses /\ sums'.lossSum = sums.lossSum
            /\ sums'.largestLoss = sums.largestLoss
        BY <2>1, <3>1, <3>2, <3>11, AddedFields DEF p
      <4>2. sums'.total =< Len(trades')
        BY <3>3, <3>4, <3>5, <3>6
      <4>5. sums'.total = sums'.wins + sums'.losses + sums'.breakeven
        BY <3>4, <3>5, <3>6, <4>1
      <4>3. sums'.realized = sums'.winSum + sums'.lossSum
        BY <3>4, <3>11, <3>5, <3>6, <4>1
      <4>4. /\ sums'.largestWin =< sums'.winSum
            /\ sums'.winSum =< sums'.wins * sums'.largestWin
            /\ sums'.lossSum =< sums'.largestLoss
            /\ sums'.losses * sums'.largestLoss =< sums'.lossSum
        BY <3>5, <3>8, <4>1
      <4> QED BY <4>2, <4>3, <4>4, <4>5 DEF AddsUp
    <3> QED BY <3>1, <3>9, <3>10, <3>11
  <2>2. ASSUME NEW t \in Row, Add(t), ~Counted(t) PROVE AddsUp'
    <3>1. sums' = sums /\ Len(trades') = Len(trades) + 1 /\ Len(trades) \in Nat
      BY <2>2 DEF TypeOK, Add, Added
    <3>2. sums.total \in Nat
      BY DEF TypeOK
    <3> QED BY <3>1, <3>2 DEF AddsUp
  <2>3. CASE Finish \/ UNCHANGED vars
    BY <2>3 DEF AddsUp, Finish, vars
  <2> QED BY <2>1, <2>2, <2>3 DEF Next
<1> QED BY <1>1, <1>2, PnlTypes, PTL DEF Spec

-----------------------------------------------------------------------------

\* What a counted trade adds, if what was bought was sold.
LEMMA SoldOffResult ==
  ASSUME NEW t \in Row, Counted(t), SoldOff(t)
  PROVE  IF t.type = "LONG"
         THEN Pnl(t) = t.exit * ExitQuantity(t) - t.entry * EntryQuantity(t)
         ELSE Pnl(t) = t.entry * EntryQuantity(t) - t.exit * ExitQuantity(t)
<1> DEFINE q == Or(t.sold, t.bought)
<1>1. t.entry \in Int /\ t.exit \in Int /\ q \in Int
  BY CountedTypes
<1>2. EntryQuantity(t) = q
  BY NumbersAssumption DEF Row, SoldOff, Counted, EntryQuantity, Or
<1>3. ExitQuantity(t) = q
  BY <1>2, NumbersAssumption DEF Row, SoldOff, Counted, ExitQuantity, Or
<1>4. Pnl(t) = IF t.type = "LONG" THEN (t.exit - t.entry) * q ELSE (t.entry - t.exit) * q
  BY DEF Pnl
<1> HIDE DEF q
<1>5. /\ (t.exit - t.entry) * q = t.exit * q - t.entry * q
      /\ (t.entry - t.exit) * q = t.entry * q - t.exit * q
  BY <1>1
<1> QED BY <1>2, <1>3, <1>4, <1>5

\* If all trades with one more have a property, they had it before.
LEMMA PrefixSoldOff ==
  ASSUME NEW type \in {"LONG", "SHORT"}, TypeOK, NEW t \in Row, Add(t), AllSoldOff(type)'
  PROVE  AllSoldOff(type) /\ t.type = type /\ SoldOff(t)
<1>1. trades' = Append(trades, t) /\ trades \in Seq(Row)
  BY DEF TypeOK, Add
<1>2. Len(trades') = Len(trades) + 1 /\ Len(trades) \in Nat
  BY <1>1
<1>3. \A i \in 1 .. Len(trades) : trades'[i] = trades[i]
  BY <1>1
<1>4. trades'[Len(trades) + 1] = t
  BY <1>1
<1>5. t.type = type /\ SoldOff(t)
  BY <1>2, <1>4 DEF AllSoldOff
<1>6. AllSoldOff(type)
  BY <1>2, <1>3 DEF AllSoldOff
<1> QED BY <1>5, <1>6

\* For any prices and quantities: where what was bought was sold, the result of the
\* day is the difference of the proceeds and the amount invested.
THEOREM ResultFollowsAmounts == Spec => []ResultIsProceedsLessCost
<1>1. Init => ResultIsProceedsLessCost
  BY DEF Init, ResultIsProceedsLessCost, Zeros
<1>2. TypeOK /\ ResultIsProceedsLessCost /\ [Next]_vars => ResultIsProceedsLessCost'
  <2> SUFFICES ASSUME TypeOK, ResultIsProceedsLessCost, [Next]_vars
               PROVE  ResultIsProceedsLessCost'
    OBVIOUS
  <2>1. sums \in Sums
    BY DEF TypeOK, Sums
  <2>2. ASSUME NEW t \in Row, Add(t), Counted(t) PROVE ResultIsProceedsLessCost'
    <3> DEFINE cost == t.entry * EntryQuantity(t)  gain == t.exit * ExitQuantity(t)
    <3>1. Pnl(t) \in Int /\ cost \in Int /\ gain \in Int
      BY <2>2, CountedTypes
    <3>2. /\ sums'.realized = sums.realized + Pnl(t)
          /\ sums'.invested = sums.invested + cost
          /\ sums'.proceeds = sums.proceeds + gain
      BY <2>1, <2>2, <3>1, AddedFields DEF Add
    <3>3. sums.realized \in Int /\ sums.invested \in Int /\ sums.proceeds \in Int
      BY <2>1 DEF Sums
    <3>4. SoldOff(t) => IF t.type = "LONG" THEN Pnl(t) = gain - cost ELSE Pnl(t) = cost - gain
      BY <2>2, SoldOffResult
    <3> HIDE DEF cost, gain
    <3>5. AllSoldOff("LONG")' => sums'.realized = sums'.proceeds - sums'.invested
      <4> SUFFICES ASSUME AllSoldOff("LONG")'
                   PROVE  sums'.realized = sums'.proceeds - sums'.invested
        OBVIOUS
      <4>1. sums.realized = sums.proceeds - sums.invested
        BY <2>2, PrefixSoldOff DEF ResultIsProceedsLessCost
      <4>2. Pnl(t) = gain - cost
        BY <2>2, <3>4, PrefixSoldOff
      <4> QED BY <3>1, <3>2, <3>3, <4>1, <4>2
    <3>6. AllSoldOff("SHORT")' => sums'.realized = sums'.invested - sums'.proceeds
      <4> SUFFICES ASSUME AllSoldOff("SHORT")'
                   PROVE  sums'.realized = sums'.invested - sums'.proceeds
        OBVIOUS
      <4>1. sums.realized = sums.invested - sums.proceeds
        BY <2>2, PrefixSoldOff DEF ResultIsProceedsLessCost
      <4>2. Pnl(t) = cost - gain
        BY <2>2, <3>4, PrefixSoldOff
      <4> QED BY <3>1, <3>2, <3>3, <4>1, <4>2
    <3> QED BY <3>5, <3>6 DEF ResultIsProceedsLessCost
  <2>3. ASSUME NEW t \in Row, Add(t), ~Counted(t) PROVE ResultIsProceedsLessCost'
    <3>1. sums' = sums
      BY <2>3 DEF Add, Added
    <3> QED BY <2>3, <3>1, PrefixSoldOff DEF ResultIsProceedsLessCost
  <2>4. CASE Finish \/ UNCHANGED vars
    BY <2>4 DEF ResultIsProceedsLessCost, AllSoldOff, Finish, vars
  <2> QED BY <2>2, <2>3, <2>4 DEF Next
<1> QED BY <1>1, <1>2, PnlTypes, PTL DEF Spec

-----------------------------------------------------------------------------
(* Rounding                                                                *)

\* Division with a remainder.
LEMMA Division ==
  ASSUME NEW n \in Int, NEW d \in Nat \ {0}
  PROVE  /\ n \div d \in Int /\ n % d \in Int
         /\ n = d * (n \div d) + (n % d) /\ 0 =< n % d /\ n % d < d
OBVIOUS

\* A rounded quotient is within half a divisor of what it rounds, and even if it is
\* just that far from it (Decimal.quantize).
LEMMA RoundedNear ==
  ASSUME NEW n \in Int, NEW d \in Nat \ {0}
  PROVE  /\ Rounded(n, d) \in Int
         /\ 2 * (d * Rounded(n, d)) =< 2 * n + d
         /\ 2 * n =< 2 * (d * Rounded(n, d)) + d
         /\ 2 * (d * Rounded(n, d)) = 2 * n + d => Rounded(n, d) % 2 = 0
         /\ 2 * n = 2 * (d * Rounded(n, d)) + d => Rounded(n, d) % 2 = 0
<1> DEFINE q == n \div d  m == n % d  u == d * q
<1>1. q \in Int /\ m \in Int /\ n = u + m /\ 0 =< m /\ m < d /\ u \in Int
  BY Division
<1>2. d * (q + 1) = u + d
  BY <1>1
<1>3. Rounded(n, d) = IF 2 * m > d \/ (2 * m = d /\ q % 2 = 1) THEN q + 1 ELSE q
  BY DEF Rounded
<1>4. q % 2 \in {0, 1} /\ (q % 2 = 1 => (q + 1) % 2 = 0)
  BY <1>1
<1> HIDE DEF m, q
<1>5. CASE 2 * m > d \/ (2 * m = d /\ q % 2 = 1)
  <2>1. Rounded(n, d) = q + 1 /\ d * Rounded(n, d) = u + d
    BY <1>2, <1>3, <1>5
  <2> HIDE DEF u
  <2> QED BY <1>1, <1>4, <1>5, <2>1
<1>6. CASE ~(2 * m > d \/ (2 * m = d /\ q % 2 = 1))
  <2>1. Rounded(n, d) = q /\ d * Rounded(n, d) = u
    BY <1>3, <1>6
  <2> HIDE DEF u
  <2> QED BY <1>1, <1>4, <1>6, <2>1
<1> QED BY <1>5, <1>6

\* A common factor can be left out of a comparison.
LEMMA TimesCancel ==
  ASSUME NEW c \in Nat \ {0}, NEW a \in Int, NEW b \in Int
  PROVE  (c * a =< c * b => a =< b) /\ (c * a = c * b => a = b)
OBVIOUS

\* Rounding keeps the order of quotients, ties included.
LEMMA RoundedMonotone ==
  ASSUME NEW n \in Int, NEW d \in Nat \ {0}, NEW o \in Int, NEW e \in Nat \ {0},
         e * n =< d * o
  PROVE  Rounded(n, d) =< Rounded(o, e)
<1> DEFINE j == Rounded(n, d)  k == Rounded(o, e)
<1> SUFFICES ASSUME j >= k + 1 PROVE FALSE
  <2>1. j \in Int /\ k \in Int
    BY RoundedNear
  <2> HIDE DEF j, k
  <2>2. j >= k + 1 \/ j =< k
    BY <2>1
  <2> QED BY <2>2 DEF j, k
<1>1. /\ j \in Int /\ 2 * (d * j) =< 2 * n + d
      /\ 2 * (d * j) = 2 * n + d => j % 2 = 0
  BY RoundedNear
<1>2. /\ k \in Int /\ 2 * o =< 2 * (e * k) + e
      /\ 2 * o = 2 * (e * k) + e => k % 2 = 0
  BY RoundedNear
<1> HIDE DEF j, k
<1> DEFINE f == d * e  x == e * n  y == d * o
<1>3. f \in Nat \ {0} /\ x \in Int /\ y \in Int
  OBVIOUS
<1>4. 2 * (f * j) =< 2 * x + f
  <2>1. e * (2 * (d * j)) =< e * (2 * n + d)
    BY <1>1, TimesMonotone
  <2>2. e * (2 * (d * j)) = 2 * (f * j) /\ e * (2 * n + d) = 2 * x + f
    BY <1>1
  <2> QED BY <2>1, <2>2
<1>5. 2 * y =< 2 * (f * k) + f
  <2>1. d * (2 * o) =< d * (2 * (e * k) + e)
    BY <1>2, TimesMonotone
  <2>2. d * (2 * o) = 2 * y /\ d * (2 * (e * k) + e) = 2 * (f * k) + f
    BY <1>2
  <2> QED BY <2>1, <2>2
<1>6. f * (k + 1) =< f * j /\ f * (k + 1) = f * k + f /\ f * k \in Int /\ f * j \in Int
  BY <1>1, <1>2, <1>3, TimesMonotone
<1>7. /\ f * j = f * (k + 1)
      /\ 2 * (f * j) = 2 * x + f /\ 2 * y = 2 * (f * k) + f
  <2> DEFINE a == f * j  b == f * k  c == f * (k + 1)
  <2>1. /\ 2 * a =< 2 * x + f /\ 2 * y =< 2 * b + f /\ x =< y
        /\ c =< a /\ c = b + f /\ a \in Int /\ b \in Int
    BY <1>4, <1>5, <1>6
  <2> HIDE DEF a, b, c, f, x, y
  <2>2. a = c /\ 2 * a = 2 * x + f /\ 2 * y = 2 * b + f
    BY <1>3, <2>1
  <2> QED BY <2>2 DEF a, b, c
<1>8. j = k + 1
  BY <1>1, <1>2, <1>3, <1>7, TimesCancel
<1>9. j % 2 = 0
  <2>1. e * (2 * (d * j)) = e * (2 * n + d)
    <3>1. e * (2 * (d * j)) = 2 * (f * j) /\ e * (2 * n + d) = 2 * x + f
      BY <1>1
    <3> QED BY <1>7, <3>1
  <2>2. 2 * (d * j) = 2 * n + d
    <3>1. 2 * (d * j) \in Int /\ 2 * n + d \in Int
      BY <1>1
    <3> QED BY <2>1, <3>1, TimesCancel
  <2> QED BY <1>1, <2>2
<1>10. k % 2 = 0
  <2>1. d * (2 * o) = d * (2 * (e * k) + e)
    <3>1. d * (2 * o) = 2 * y /\ d * (2 * (e * k) + e) = 2 * (f * k) + f
      BY <1>2
    <3> QED BY <1>7, <3>1
  <2>2. 2 * o = 2 * (e * k) + e
    <3>1. 2 * o \in Int /\ 2 * (e * k) + e \in Int
      BY <1>2
    <3> QED BY <2>1, <3>1, TimesCancel
  <2> QED BY <1>2, <2>2
<1> QED BY <1>2, <1>8, <1>9, <1>10

\* A whole number is its own rounding.
LEMMA RoundedWhole ==
  ASSUME NEW n \in Int, NEW d \in Nat \ {0}
  PROVE  Rounded(d * n, d) = n
<1> DEFINE k == Rounded(d * n, d)
<1>1. /\ k \in Int /\ 2 * (d * k) =< 2 * (d * n) + d /\ 2 * (d * n) =< 2 * (d * k) + d
  BY RoundedNear
<1> HIDE DEF k
<1>2. k >= n + 1 => FALSE
  <2> SUFFICES ASSUME k >= n + 1 PROVE FALSE
    OBVIOUS
  <2>1. d * (n + 1) =< d * k /\ d * (n + 1) = d * n + d /\ d * n \in Int /\ d * k \in Int
    BY <1>1, TimesMonotone
  <2> QED BY <1>1, <2>1
<1>3. n >= k + 1 => FALSE
  <2> SUFFICES ASSUME n >= k + 1 PROVE FALSE
    OBVIOUS
  <2>1. d * (k + 1) =< d * n /\ d * (k + 1) = d * k + d /\ d * n \in Int /\ d * k \in Int
    BY <1>1, TimesMonotone
  <2> QED BY <1>1, <2>1
<1>4. k = n
  BY <1>1, <1>2, <1>3
<1> QED BY <1>4 DEF k

\* And so is zero.
LEMMA RoundedZero == ASSUME NEW d \in Nat \ {0} PROVE Rounded(0, d) = 0
<1>1. d * 0 = 0
  OBVIOUS
<1> QED BY <1>1, RoundedWhole

\* A rounding has no other sign than what it rounds.
LEMMA RoundedSign ==
  ASSUME NEW n \in Int, NEW d \in Nat \ {0}
  PROVE  (n =< 0 => Rounded(n, d) =< 0) /\ (n >= 0 => Rounded(n, d) >= 0)
<1>1. Rounded(n, d) \in Int /\ d * n \in Int /\ d * 0 = 0
  BY RoundedNear
<1>2. n =< 0 => Rounded(n, d) =< 0
  <2>1. n =< 0 => d * n =< d * 0
    BY TimesMonotone
  <2> QED BY <2>1, RoundedMonotone, RoundedZero
<1>3. n >= 0 => Rounded(n, d) >= 0
  <2>1. n >= 0 => d * 0 =< d * n
    BY TimesMonotone
  <2> QED BY <1>1, <2>1, RoundedMonotone, RoundedZero
<1> QED BY <1>2, <1>3

-----------------------------------------------------------------------------
(* The row                                                                 *)

\* A day without counted trades has no amounts either.
NothingCounted ==
  sums.total = 0 => sums.invested = 0 /\ sums.proceeds = 0 /\ sums.symbols = {}

\* An average is zero without trades; otherwise it is a rounded quotient.
LEMMA AverageNear ==
  ASSUME NEW sum \in Int, NEW count \in Nat, count = 0 => sum = 0
  PROVE  /\ Average(sum, count) \in Int
         /\ 2 * Distance(Average(sum, count) * count * Unit, sum) =< count * Unit
<1> DEFINE a == Average(sum, count)  d == count * Unit
<1>1. CASE count = 0
  <2>1. a = 0 /\ a * count * Unit = 0 /\ count * Unit = 0
    BY <1>1, UnitAssumption DEF Average
  <2> QED BY <1>1, <2>1 DEF Distance
<1>2. CASE count > 0
  <2>1. d \in Nat \ {0} /\ a = Rounded(sum, d)
    BY <1>2, UnitAssumption DEF Average
  <2>2. /\ a \in Int /\ 2 * (d * a) =< 2 * sum + d /\ 2 * sum =< 2 * (d * a) + d
    BY <2>1, RoundedNear
  <2> HIDE DEF a
  <2>3. a * count * Unit = d * a
    BY <2>2, UnitAssumption
  <2> DEFINE x == d * a
  <2>4. x \in Int /\ 2 * x =< 2 * sum + d /\ 2 * sum =< 2 * x + d
    BY <2>1, <2>2
  <2> HIDE DEF x, d
  <2>5. 2 * Distance(x, sum) =< d
    BY <2>1, <2>4 DEF Distance
  <2> QED BY <2>2, <2>3, <2>5 DEF a, d, x
<1> QED BY <1>1, <1>2

\* No average exceeds a member that bounds the sum.
LEMMA AverageBounded ==
  ASSUME NEW sum \in Int, NEW count \in Nat, NEW largest \in Int
  PROVE  /\ sum =< count * largest /\ largest >= 0 =>
              Average(sum, count) =< Rounded(largest, Unit)
         /\ count * largest =< sum /\ largest =< 0 =>
              Rounded(largest, Unit) =< Average(sum, count)
<1>1. CASE count = 0
  BY <1>1, RoundedSign, UnitAssumption DEF Average
<1>2. CASE count > 0
  <2> DEFINE d == count * Unit
  <2>1. d \in Nat \ {0} /\ Average(sum, count) = Rounded(sum, d) /\ Unit \in Nat
    BY <1>2, UnitAssumption DEF Average
  <2>2. d * largest = Unit * (count * largest)
    BY UnitAssumption
  <2>3. sum =< count * largest => Unit * sum =< d * largest
    BY <2>1, <2>2, TimesMonotone
  <2>4. count * largest =< sum => d * largest =< Unit * sum
    BY <2>1, <2>2, TimesMonotone
  <2> HIDE DEF d
  <2> QED BY <2>1, <2>3, <2>4, RoundedMonotone, UnitAssumption
<1> QED BY <1>1, <1>2

\* Rounding two sums and their sum differ by at most one unit.
LEMMA RoundedSum ==
  ASSUME NEW a \in Int, NEW b \in Int
  PROVE  Distance(Rounded(a + b, Unit), Rounded(a, Unit) + Rounded(b, Unit)) =< 1
<1> DEFINE i == Rounded(a, Unit)  j == Rounded(b, Unit)  k == Rounded(a + b, Unit)
           z == k - (i + j)
<1>1. /\ i \in Int /\ 2 * (Unit * i) =< 2 * a + Unit /\ 2 * a =< 2 * (Unit * i) + Unit
      /\ j \in Int /\ 2 * (Unit * j) =< 2 * b + Unit /\ 2 * b =< 2 * (Unit * j) + Unit
      /\ k \in Int
      /\ 2 * (Unit * k) =< 2 * (a + b) + Unit /\ 2 * (a + b) =< 2 * (Unit * k) + Unit
  BY RoundedNear, UnitAssumption
<1>2. Unit \in Nat \ {0}
  BY UnitAssumption
<1> HIDE DEF i, j, k
<1>3. z \in Int /\ Unit * z = Unit * k - Unit * i - Unit * j
  BY <1>1, <1>2
<1> HIDE DEF z
<1>4. 2 * (Unit * z) =< 3 * Unit /\ -(3 * Unit) =< 2 * (Unit * z)
  <2> DEFINE u == Unit * i  v == Unit * j  w == Unit * k
  <2>1. u \in Int /\ v \in Int /\ w \in Int /\ Unit * z = w - u - v
    BY <1>1, <1>2, <1>3
  <2>2. /\ 2 * u =< 2 * a + Unit /\ 2 * a =< 2 * u + Unit
        /\ 2 * v =< 2 * b + Unit /\ 2 * b =< 2 * v + Unit
        /\ 2 * w =< 2 * (a + b) + Unit /\ 2 * (a + b) =< 2 * w + Unit
    BY <1>1
  <2> HIDE DEF u, v, w
  <2> QED BY <1>2, <2>1, <2>2
<1>5. z =< 1
  <2> SUFFICES ASSUME z >= 2 PROVE FALSE
    BY <1>3
  <2>1. Unit * 2 =< Unit * z /\ Unit * z \in Int
    BY <1>2, <1>3, TimesMonotone
  <2> QED BY <1>2, <1>4, <2>1
<1>6. z >= -1
  <2> SUFFICES ASSUME z =< -2 PROVE FALSE
    BY <1>3
  <2>1. Unit * z =< Unit * (-2) /\ Unit * z \in Int
    BY <1>2, <1>3, TimesMonotone
  <2> QED BY <1>2, <1>4, <2>1
<1>7. Distance(k, i + j) =< 1
  BY <1>1, <1>3, <1>5, <1>6 DEF Distance, z
<1> QED BY <1>7 DEF i, j, k

\* What the row is made from: the sums of the pass with their types and bounds.
LEMMA SumsOfTheDay ==
  ASSUME TypeOK, AddsUp, NothingCounted
  PROVE  /\ sums.total \in Nat /\ sums.wins \in Nat /\ sums.losses \in Nat
         /\ sums.breakeven \in Nat /\ sums.realized \in Int /\ sums.invested \in Nat
         /\ sums.proceeds \in Nat /\ sums.winSum \in Nat /\ sums.lossSum \in Int
         /\ sums.largestWin \in Nat /\ sums.largestLoss \in Int /\ sums.largestLoss =< 0
         /\ sums.wins =< sums.total
         /\ sums.realized = sums.winSum + sums.lossSum
         /\ sums.wins = 0 => sums.winSum = 0 /\ sums.largestWin = 0
         /\ sums.losses = 0 => sums.lossSum = 0 /\ sums.largestLoss = 0
         /\ sums.total = 0 => sums.wins = 0 /\ sums.losses = 0 /\ sums.breakeven = 0
                              /\ sums.realized = 0
<1>1. /\ sums.total \in Nat /\ sums.wins \in Nat /\ sums.losses \in Nat
      /\ sums.breakeven \in Nat /\ sums.realized \in Int /\ sums.invested \in Nat
      /\ sums.proceeds \in Nat /\ sums.winSum \in Nat /\ sums.lossSum \in Int
      /\ sums.largestWin \in Nat /\ sums.largestLoss \in Int
      /\ sums.lossSum =< 0 /\ sums.largestLoss =< 0
  BY DEF TypeOK
<1>2. /\ sums.total = sums.wins + sums.losses + sums.breakeven
      /\ sums.realized = sums.winSum + sums.lossSum
      /\ sums.largestWin =< sums.winSum /\ sums.lossSum =< sums.largestLoss
      /\ sums.winSum =< sums.wins * sums.largestWin
      /\ sums.losses * sums.largestLoss =< sums.lossSum
  BY DEF AddsUp
<1>3. sums.wins = 0 => sums.winSum = 0 /\ sums.largestWin = 0
  <2>1. sums.wins = 0 => sums.wins * sums.largestWin = 0
    BY <1>1
  <2> QED BY <1>1, <1>2, <2>1
<1>4. sums.losses = 0 => sums.lossSum = 0 /\ sums.largestLoss = 0
  <2>1. sums.losses = 0 => sums.losses * sums.largestLoss = 0
    BY <1>1
  <2> QED BY <1>1, <1>2, <2>1
<1>5. sums.wins =< sums.total
      /\ (sums.total = 0 => sums.wins = 0 /\ sums.losses = 0 /\ sums.breakeven = 0)
  BY <1>1, <1>2
<1>6. sums.total = 0 => sums.realized = 0
  BY <1>1, <1>2, <1>3, <1>4, <1>5
<1> QED BY <1>1, <1>2, <1>3, <1>4, <1>5, <1>6

\* The rate of the wins is a percentage.
LEMMA RateInRange ==
  ASSUME TypeOK, AddsUp, NothingCounted
  PROVE  0 =< WinRate /\ WinRate =< 100 * Unit /\ (sums.total = 0 => WinRate = 0)
<1>1. sums.total \in Nat /\ sums.wins \in Nat /\ sums.wins =< sums.total /\ Unit \in Nat \ {0}
  BY SumsOfTheDay, UnitAssumption
<1>2. CASE sums.total = 0
  BY <1>1, <1>2 DEF WinRate
<1>3. CASE sums.total > 0
  <2> DEFINE n == sums.wins * 100 * Unit  c == 100 * Unit  d == sums.total
  <2>1. d \in Nat \ {0} /\ c \in Nat /\ n \in Nat /\ WinRate = Rounded(n, d)
    BY <1>1, <1>3 DEF WinRate
  <2>2. n = c * sums.wins /\ d * c = c * d
    BY <1>1
  <2>3. c * sums.wins =< c * d
    BY <1>1, <2>1, TimesMonotone
  <2>4. d * n =< d * (d * c) /\ d * c \in Int
    BY <2>1, <2>2, <2>3, TimesMonotone
  <2> HIDE DEF c, d, n
  <2>5. Rounded(d * c, d) = c
    <3>1. c \in Int
      BY <2>1
    <3> QED BY <2>1, <3>1, RoundedWhole
  <2>6. Rounded(n, d) =< Rounded(d * c, d)
    BY <2>1, <2>4, RoundedMonotone
  <2>7. 0 =< Rounded(n, d)
    BY <2>1, RoundedSign
  <2>8. 0 =< WinRate /\ WinRate =< c
    BY <2>1, <2>5, <2>6, <2>7
  <2> QED BY <1>3, <2>8 DEF c
<1> QED BY <1>1, <1>2, <1>3

\* The return has the sign of the result.
LEMMA ReturnHasSign ==
  ASSUME TypeOK, AddsUp, NothingCounted
  PROVE  /\ ReturnPct > 0 => sums.realized > 0
         /\ ReturnPct < 0 => sums.realized < 0
         /\ sums.total = 0 => ReturnPct = 0
<1>1. sums.realized \in Int /\ sums.invested \in Nat /\ Unit \in Nat \ {0}
  BY SumsOfTheDay, UnitAssumption
<1>2. CASE sums.invested = 0
  BY <1>1, <1>2 DEF ReturnPct
<1>3. CASE sums.invested > 0
  <2> DEFINE n == sums.realized * 100 * Unit  c == 100 * Unit
  <2>1. n \in Int /\ c \in Nat /\ n = c * sums.realized /\ c * 0 = 0
        /\ ReturnPct = Rounded(n, sums.invested)
    BY <1>1, <1>3 DEF ReturnPct
  <2>2. (sums.realized =< 0 => n =< 0) /\ (sums.realized >= 0 => n >= 0)
    <3>1. sums.realized =< 0 => c * sums.realized =< c * 0
      BY <1>1, <2>1, TimesMonotone
    <3>2. sums.realized >= 0 => c * 0 =< c * sums.realized
      BY <1>1, <2>1, TimesMonotone
    <3> QED BY <2>1, <3>1, <3>2
  <2> HIDE DEF n, c
  <2>3. ReturnPct \in Int /\ (n =< 0 => ReturnPct =< 0) /\ (n >= 0 => ReturnPct >= 0)
    <3>1. sums.invested \in Nat \ {0}
      BY <1>1, <1>3
    <3> QED BY <2>1, <3>1, RoundedSign, RoundedNear
  <2>4. sums.total # 0
    BY <1>3 DEF NothingCounted
  <2> QED BY <1>1, <2>2, <2>3, <2>4
<1> QED BY <1>1, <1>2, <1>3

\* The row that Finish writes.
LEMMA FinishedRow ==
  ASSUME TypeOK, AddsUp, NothingCounted, Finish
  PROVE  RowCoherent'
<1>1. /\ sums' = sums
      /\ stats' =
           [total |-> sums.total, wins |-> sums.wins, losses |-> sums.losses,
            breakeven |-> sums.breakeven, symbols |-> Cardinality(sums.symbols),
            realized |-> Rounded(sums.realized, Unit),
            invested |-> Rounded(sums.invested, Unit),
            proceeds |-> Rounded(sums.proceeds, Unit),
            winRate |-> WinRate, returnPct |-> ReturnPct,
            averageWin |-> Average(sums.winSum, sums.wins),
            averageLoss |-> Average(sums.lossSum, sums.losses),
            largestWin |-> Rounded(sums.largestWin, Unit),
            largestLoss |-> Rounded(sums.largestLoss, Unit)]
  BY DEF Finish
<1>2. /\ sums.wins \in Nat /\ sums.losses \in Nat /\ sums.winSum \in Int
      /\ sums.lossSum \in Int /\ sums.largestWin \in Nat
      /\ sums.largestLoss \in Int /\ sums.largestLoss =< 0
  BY SumsOfTheDay
<1>3. /\ stats'.winRate = WinRate /\ stats'.returnPct = ReturnPct
      /\ stats'.averageWin = Average(sums.winSum, sums.wins)
      /\ stats'.averageLoss = Average(sums.lossSum, sums.losses)
      /\ stats'.largestWin = Rounded(sums.largestWin, Unit)
      /\ stats'.largestLoss = Rounded(sums.largestLoss, Unit)
      /\ stats'.wins = sums.wins /\ stats'.losses = sums.losses
      /\ stats'.total = sums.total
      /\ stats'.realized = Rounded(sums.realized, Unit)
  BY <1>1
<1>4. 0 =< stats'.winRate /\ stats'.winRate =< 100 * Unit
  BY <1>3, RateInRange
<1>5. stats'.averageWin =< stats'.largestWin /\ stats'.largestLoss =< stats'.averageLoss
  <2>1. sums.winSum =< sums.wins * sums.largestWin
        /\ sums.losses * sums.largestLoss =< sums.lossSum
    BY DEF AddsUp
  <2>2. sums.largestWin >= 0
    BY <1>2
  <2> QED BY <1>2, <1>3, <2>1, <2>2, AverageBounded
<1>6. /\ 2 * Distance(stats'.averageWin * stats'.wins * Unit, sums.winSum)
           =< stats'.wins * Unit
      /\ 2 * Distance(stats'.averageLoss * stats'.losses * Unit, sums.lossSum)
           =< stats'.losses * Unit
  BY <1>2, <1>3, SumsOfTheDay, AverageNear
<1>7. /\ stats'.returnPct > 0 => sums.realized > 0
      /\ stats'.returnPct < 0 => sums.realized < 0
  BY <1>3, ReturnHasSign
<1>8. Distance(stats'.realized, Rounded(sums.winSum, Unit) + Rounded(sums.lossSum, Unit)) =< 1
  BY <1>2, <1>3, SumsOfTheDay, RoundedSum
<1>9. ASSUME stats'.total = 0 PROVE \A f \in DOMAIN stats' : stats'[f] = 0
  <2>1. sums.total = 0
    BY <1>3, <1>9
  <2>2. /\ sums.wins = 0 /\ sums.losses = 0 /\ sums.breakeven = 0 /\ sums.realized = 0
        /\ sums.invested = 0 /\ sums.proceeds = 0 /\ Cardinality(sums.symbols) = 0
        /\ sums.largestWin = 0 /\ sums.largestLoss = 0
    BY <2>1, SumsOfTheDay, FS_EmptySet DEF NothingCounted
  <2>3. WinRate = 0 /\ ReturnPct = 0
    BY <2>1, RateInRange, ReturnHasSign
  <2>4. Average(sums.winSum, sums.wins) = 0 /\ Average(sums.lossSum, sums.losses) = 0
    BY <2>2 DEF Average
  <2>5. Rounded(0, Unit) = 0
    BY RoundedZero, UnitAssumption
  <2>6. stats' = [total |-> 0, wins |-> 0, losses |-> 0, breakeven |-> 0, symbols |-> 0,
                  realized |-> 0, invested |-> 0, proceeds |-> 0, winRate |-> 0,
                  returnPct |-> 0, averageWin |-> 0, averageLoss |-> 0,
                  largestWin |-> 0, largestLoss |-> 0]
    BY <1>1, <2>1, <2>2, <2>3, <2>4, <2>5
  <2> QED BY <2>6
<1> QED BY <1>1, <1>4, <1>5, <1>6, <1>7, <1>8, <1>9 DEF RowCoherent

\* The stored row is coherent after rounding, for every list of trades and all prices,
\* quantities and scales: rates are percentages, averages lie within their largest
\* members and within half a unit per trade of their sums, and an empty day is zeros.
THEOREM StoredRowIsCoherent == Spec => []RowCoherent
<1>1. Init => RowCoherent /\ NothingCounted
  BY DEF Init, RowCoherent, NothingCounted, Zeros
<1>2. TypeOK /\ AddsUp /\ NothingCounted /\ RowCoherent /\ [Next]_vars
        => (NothingCounted /\ RowCoherent)'
  <2> SUFFICES ASSUME TypeOK, AddsUp, NothingCounted, RowCoherent, [Next]_vars
               PROVE  (NothingCounted /\ RowCoherent)'
    OBVIOUS
  <2>1. ASSUME NEW t \in Row, Add(t) PROVE (NothingCounted /\ RowCoherent)'
    <3>1. RowCoherent'
      BY <2>1 DEF Add, RowCoherent
    <3>2. CASE Counted(t)
      <4>1. sums \in Sums /\ sums' = Added(sums, t) /\ Pnl(t) \in Int
        BY <2>1, <3>2, CountedTypes DEF TypeOK, Sums, Add
      <4>2. sums'.total = sums.total + 1 /\ sums.total \in Nat
        BY <3>2, <4>1, AddedFields DEF Sums
      <4> QED BY <3>1, <4>2 DEF NothingCounted
    <3>3. CASE ~Counted(t)
      BY <2>1, <3>1, <3>3 DEF Add, Added, NothingCounted
    <3> QED BY <3>2, <3>3
  <2>2. CASE Finish
    <3>1. NothingCounted'
      BY <2>2 DEF Finish, NothingCounted
    <3> QED BY <2>2, <3>1, FinishedRow
  <2>3. CASE UNCHANGED vars
    BY <2>3 DEF vars, NothingCounted, RowCoherent
  <2> QED BY <2>1, <2>2, <2>3 DEF Next
<1> QED BY <1>1, <1>2, PnlTypes, FiguresAddUp, PTL DEF Spec

-----------------------------------------------------------------------------
(* Sums over finite sets                                                   *)

\* A set of natural numbers has a least one.
LEMMA LeastNumber ==
  ASSUME NEW T \in SUBSET Nat, T # {}
  PROVE  \E n \in T : \A m \in T : n =< m
<1> DEFINE R == OpToRel(<, Nat)
<1>1. IsWellFoundedOn(R, Nat)
  BY NatLessThanWellFounded
<1> HIDE DEF R
<1>2. PICK n \in T : \A m \in Nat : <<m, n>> \in R => ~(m \in T)
  <2>1. PICK x \in T : \A y \in T : ~(<<y, x>> \in R)
    BY <1>1, WFMin
  <2> QED BY <2>1
<1>3. \A m \in T : ~(m < n)
  BY <1>2 DEF R, OpToRel
<1> QED BY <1>3

\* Of a collection of subsets of a finite set one is the smallest: what holds of a set
\* whenever it holds of all smaller ones holds of all.
LEMMA SmallestSet ==
  ASSUME NEW D, IsFiniteSet(D), NEW C \in SUBSET SUBSET D, C # {}
  PROVE  \E s \in C : \A u \in C : Cardinality(s) =< Cardinality(u)
<1> DEFINE T == {Cardinality(s) : s \in C}
<1>1. \A s \in C : Cardinality(s) \in Nat
  BY FS_Subset, FS_CardinalityType
<1>2. T \in SUBSET Nat /\ T # {}
  BY <1>1
<1>3. PICK n \in T : \A m \in T : n =< m
  BY <1>2, LeastNumber
<1> QED BY <1>3

One(s) == CHOOSE x \in s : TRUE

\* f gives the sums of v over the subsets of D.
SumsOver(f, v, D) ==
  f = [s \in SUBSET D |-> IF s = {} THEN 0 ELSE v[One(s)] + f[s \ {One(s)}]]

\* One element less.
LEMMA OneLess ==
  ASSUME NEW s, IsFiniteSet(s), s # {}
  PROVE  /\ One(s) \in s /\ IsFiniteSet(s \ {One(s)})
         /\ Cardinality(s) \in Nat \ {0} /\ Cardinality(s \ {One(s)}) = Cardinality(s) - 1
<1>1. One(s) \in s
  BY DEF One
<1> QED BY <1>1, FS_RemoveElement, FS_CardinalityType, FS_EmptySet

\* There is such a function for every finite set.
LEMMA SumsExist ==
  ASSUME NEW D, IsFiniteSet(D), NEW v
  PROVE  \E f : SumsOver(f, v, D)
<1> DEFINE UpTo(n) == {s \in SUBSET D : Cardinality(s) =< n}
           Turn(f, s) == IF s = {} THEN 0 ELSE v[One(s)] + f[s \ {One(s)}]
           Good(n) == \E f : f = [s \in UpTo(n) |-> Turn(f, s)]
           Bad == {n \in Nat : ~Good(n)}
<1>1. \A s \in SUBSET D : IsFiniteSet(s) /\ Cardinality(s) \in Nat
  BY FS_Subset, FS_CardinalityType
<1>2. ASSUME NEW n \in Bad, \A m \in Bad : n =< m PROVE FALSE
  <2>1. CASE n = 0
    <3> DEFINE f == [s \in UpTo(0) |-> 0]
    <3>1. \A s \in UpTo(0) : s = {}
      BY <1>1, FS_EmptySet
    <3>2. f = [s \in UpTo(0) |-> Turn(f, s)]
      BY <3>1
    <3>3. Good(0)
      BY <3>2
    <3> QED BY <2>1, <3>3
  <2>2. CASE n > 0
    <3>1. Good(n - 1)
      <4> HIDE DEF Good
      <4>1. n - 1 \in Nat /\ n - 1 \notin Bad
        BY <1>2, <2>2
      <4> QED BY <4>1
    <3>2. PICK f : f = [s \in UpTo(n - 1) |-> Turn(f, s)]
      BY <3>1
    <3> DEFINE g == [s \in UpTo(n) |-> Turn(f, s)]
    <3>3. \A u \in UpTo(n - 1) : u \in UpTo(n) /\ g[u] = f[u]
      <4> SUFFICES ASSUME NEW u \in UpTo(n - 1) PROVE u \in UpTo(n) /\ g[u] = f[u]
        OBVIOUS
      <4>1. u \in UpTo(n)
        BY <1>1
      <4>2. g[u] = Turn(f, u)
        BY <4>1
      <4>3. f[u] = Turn(f, u)
        BY <3>2
      <4> QED BY <4>1, <4>2, <4>3
    <3>4. \A s \in UpTo(n) : Turn(f, s) = Turn(g, s)
      <4> SUFFICES ASSUME NEW s \in UpTo(n), s # {} PROVE f[s \ {One(s)}] = g[s \ {One(s)}]
        OBVIOUS
      <4>1. s \ {One(s)} \in UpTo(n - 1)
        BY <1>1, OneLess
      <4> QED BY <3>3, <4>1
    <3>5. g = [s \in UpTo(n) |-> Turn(g, s)]
      BY <3>4
    <3> HIDE DEF g
    <3>6. Good(n)
      BY <3>5
    <3> QED BY <3>6
  <2> QED BY <2>1, <2>2
<1>3. Bad = {}
  <2> SUFFICES ASSUME Bad # {} PROVE FALSE
    OBVIOUS
  <2>1. Bad \in SUBSET Nat
    OBVIOUS
  <2> HIDE DEF Bad
  <2>2. PICK n \in Bad : \A m \in Bad : n =< m
    BY <2>1, LeastNumber
  <2> QED BY <1>2, <2>2
<1>4. Good(Cardinality(D)) /\ UpTo(Cardinality(D)) = SUBSET D
  <2>1. Cardinality(D) \in Nat
    BY FS_CardinalityType
  <2>2. \A s \in SUBSET D : Cardinality(s) =< Cardinality(D)
    BY FS_Subset
  <2> QED BY <1>3, <2>1, <2>2
<1>5. PICK f : f = [s \in UpTo(Cardinality(D)) |-> Turn(f, s)]
  BY <1>4
<1>6. SumsOver(f, v, D)
  BY <1>4, <1>5 DEF SumsOver
<1> QED BY <1>6

\* What it gives for a set depends only on the values for the members of the set.
LEMMA SumsAgree ==
  ASSUME NEW D, NEW E, NEW v, NEW w, NEW f, NEW g, SumsOver(f, v, D), SumsOver(g, w, E),
         NEW S \in SUBSET D, S \in SUBSET E, IsFiniteSet(S), \A i \in S : v[i] = w[i]
  PROVE  f[S] = g[S]
<1> DEFINE C == {s \in SUBSET S : f[s] # g[s]}
<1>1. ASSUME NEW s \in C, \A u \in C : Cardinality(s) =< Cardinality(u) PROVE FALSE
  <2>1. IsFiniteSet(s) /\ s \in SUBSET D /\ s \in SUBSET E
    BY FS_Subset
  <2>2. CASE s = {}
    BY <2>1, <2>2 DEF SumsOver
  <2>3. CASE s # {}
    <3> DEFINE u == s \ {One(s)}
    <3>1. /\ One(s) \in s /\ u \in SUBSET S
          /\ Cardinality(s) \in Nat /\ Cardinality(u) = Cardinality(s) - 1
      BY <2>1, <2>3, OneLess
    <3>2. f[u] = g[u]
      BY <1>1, <3>1
    <3>3. f[s] = v[One(s)] + f[u]
      BY <2>1, <2>3 DEF SumsOver
    <3>4. g[s] = w[One(s)] + g[u]
      BY <2>1, <2>3 DEF SumsOver
    <3> QED BY <3>1, <3>2, <3>3, <3>4
  <2> QED BY <2>2, <2>3
<1>2. C = {}
  <2> SUFFICES ASSUME C # {} PROVE FALSE
    OBVIOUS
  <2>1. C \in SUBSET SUBSET S
    OBVIOUS
  <2> HIDE DEF C
  <2>2. PICK s \in C : \A u \in C : Cardinality(s) =< Cardinality(u)
    BY <2>1, SmallestSet
  <2> QED BY <1>1, <2>2
<1> QED BY <1>2

\* The total over a set is what such a function gives for it.
LEMMA TotalSums ==
  ASSUME NEW D, NEW v, NEW f, SumsOver(f, v, D), NEW S \in SUBSET D, IsFiniteSet(S)
  PROVE  Total(v, S) = f[S]
<1>1. \E g : SumsOver(g, v, S)
  BY SumsExist
<1>2. PICK g : SumsOver(g, v, S) /\ Total(v, S) = g[S]
  BY <1>1 DEF Total, MapThenSumSet, MapThenFoldSet, SumsOver, One
<1> QED BY <1>2, SumsAgree

\* Totals of functions that agree are equal.
LEMMA TotalAgrees ==
  ASSUME NEW v, NEW w, NEW S, IsFiniteSet(S), \A i \in S : v[i] = w[i]
  PROVE  Total(v, S) = Total(w, S)
<1>1. PICK f : SumsOver(f, v, S)
  BY SumsExist
<1>2. PICK g : SumsOver(g, w, S)
  BY SumsExist
<1>3. f[S] = g[S]
  BY <1>1, <1>2, SumsAgree
<1> QED BY <1>1, <1>2, <1>3, TotalSums

\* A total is that of all members but one, and the value of this one.
LEMMA TotalEquation ==
  ASSUME NEW v, NEW S, IsFiniteSet(S)
  PROVE  Total(v, S) = IF S = {} THEN 0 ELSE v[One(S)] + Total(v, S \ {One(S)})
<1>1. PICK f : SumsOver(f, v, S)
  BY SumsExist
<1>2. Total(v, S) = f[S]
  BY <1>1, TotalSums
<1>3. f[S] = IF S = {} THEN 0 ELSE v[One(S)] + f[S \ {One(S)}]
  BY <1>1 DEF SumsOver
<1>4. S # {} => Total(v, S \ {One(S)}) = f[S \ {One(S)}]
  BY <1>1, OneLess, TotalSums
<1> QED BY <1>2, <1>3, <1>4

\* A total of integers is one.
LEMMA TotalInt ==
  ASSUME NEW v, NEW S, IsFiniteSet(S), \A i \in S : v[i] \in Int
  PROVE  Total(v, S) \in Int
<1> DEFINE C == {s \in SUBSET S : Total(v, s) \notin Int}
<1>1. ASSUME NEW s \in C, \A u \in C : Cardinality(s) =< Cardinality(u) PROVE FALSE
  <2>1. IsFiniteSet(s)
    BY FS_Subset
  <2>2. CASE s = {}
    <3>1. Total(v, {}) = 0
      BY FS_EmptySet, TotalEquation
    <3> QED BY <2>2, <3>1
  <2>3. CASE s # {}
    <3>1. /\ One(s) \in s /\ s \ {One(s)} \in SUBSET S
          /\ Cardinality(s) \in Nat /\ Cardinality(s \ {One(s)}) = Cardinality(s) - 1
      BY <2>1, <2>3, OneLess
    <3>2. Total(v, s \ {One(s)}) \in Int
      BY <1>1, <3>1
    <3> QED BY <2>1, <2>3, <3>1, <3>2, TotalEquation
  <2> QED BY <2>2, <2>3
<1>2. C = {}
  <2> SUFFICES ASSUME C # {} PROVE FALSE
    OBVIOUS
  <2>1. C \in SUBSET SUBSET S
    OBVIOUS
  <2> HIDE DEF C
  <2>2. PICK s \in C : \A u \in C : Cardinality(s) =< Cardinality(u)
    BY <2>1, SmallestSet
  <2> QED BY <1>1, <2>2
<1> QED BY <1>2

\* It does not matter which one is taken out.
LEMMA TotalWithout ==
  ASSUME NEW v, NEW S, IsFiniteSet(S), \A i \in S : v[i] \in Int, NEW x \in S
  PROVE  Total(v, S) = v[x] + Total(v, S \ {x})
<1> DEFINE C == {s \in SUBSET S : \E y \in s : Total(v, s) # v[y] + Total(v, s \ {y})}
<1>1. ASSUME NEW s \in C, \A u \in C : Cardinality(s) =< Cardinality(u) PROVE FALSE
  <2>1. IsFiniteSet(s)
    BY FS_Subset
  <2>2. PICK y \in s : Total(v, s) # v[y] + Total(v, s \ {y})
    OBVIOUS
  <2> DEFINE z == One(s)
  <2>3. /\ z \in s /\ s \ {z} \in SUBSET S /\ s \ {y} \in SUBSET S
        /\ Cardinality(s) \in Nat /\ Cardinality(s \ {z}) = Cardinality(s) - 1
        /\ Cardinality(s \ {y}) = Cardinality(s) - 1
        /\ IsFiniteSet((s \ {z}) \ {y})
    <3>1. z \in s /\ Cardinality(s) \in Nat /\ Cardinality(s \ {z}) = Cardinality(s) - 1
      BY <2>1, OneLess
    <3>2. Cardinality(s \ {y}) = Cardinality(s) - 1 /\ IsFiniteSet(s \ {z})
      BY <2>1, FS_RemoveElement
    <3>3. IsFiniteSet((s \ {z}) \ {y})
      BY <3>2, FS_RemoveElement
    <3> QED BY <3>1, <3>2, <3>3
  <2>4. Total(v, s) = v[z] + Total(v, s \ {z})
    BY <2>1, TotalEquation
  <2> HIDE DEF z
  <2>5. y # z
    BY <2>2, <2>4
  <2>6. Total(v, s \ {z}) = v[y] + Total(v, (s \ {z}) \ {y})
    <3>1. s \ {z} \notin C /\ y \in s \ {z}
      BY <1>1, <2>3, <2>5
    <3> QED BY <2>3, <3>1
  <2>7. Total(v, s \ {y}) = v[z] + Total(v, (s \ {y}) \ {z})
    <3>1. s \ {y} \notin C /\ z \in s \ {y}
      BY <1>1, <2>3, <2>5
    <3> QED BY <2>3, <3>1
  <2>8. (s \ {y}) \ {z} = (s \ {z}) \ {y}
    OBVIOUS
  <2>9. v[y] \in Int /\ v[z] \in Int /\ Total(v, (s \ {z}) \ {y}) \in Int
    BY <2>3, TotalInt
  <2> QED BY <2>2, <2>4, <2>6, <2>7, <2>8, <2>9
<1>2. C = {}
  <2> SUFFICES ASSUME C # {} PROVE FALSE
    OBVIOUS
  <2>1. C \in SUBSET SUBSET S
    OBVIOUS
  <2> HIDE DEF C
  <2>2. PICK s \in C : \A u \in C : Cardinality(s) =< Cardinality(u)
    BY <2>1, SmallestSet
  <2> QED BY <1>1, <2>2
<1> QED BY <1>2

\* A total of one member more.
LEMMA TotalAdd ==
  ASSUME NEW v, NEW w, NEW S, IsFiniteSet(S), NEW n, n \notin S,
         \A i \in S : v[i] \in Int /\ w[i] = v[i], w[n] \in Int
  PROVE  Total(w, S \cup {n}) = Total(v, S) + w[n] /\ Total(v, S) \in Int
<1>1. IsFiniteSet(S \cup {n}) /\ (S \cup {n}) \ {n} = S /\ n \in S \cup {n}
  BY FS_AddElement
<1>2. \A i \in S \cup {n} : w[i] \in Int
  OBVIOUS
<1>3. Total(w, S \cup {n}) = w[n] + Total(w, S)
  BY <1>1, <1>2, TotalWithout
<1>4. Total(w, S) = Total(v, S)
  BY TotalAgrees
<1>5. Total(v, S) \in Int
  BY TotalInt
<1> QED BY <1>3, <1>4, <1>5

-----------------------------------------------------------------------------
(* The figures over the set of the trades                                  *)

\* A greatest and a least member are the maximum and the minimum.
LEMMA Extremes ==
  ASSUME NEW S \in SUBSET Int, NEW m \in S
  PROVE  /\ (\A y \in S : y =< m) => Max(S) = m
         /\ (\A y \in S : m =< y) => Min(S) = m
<1>1. ASSUME \A y \in S : y =< m PROVE Max(S) = m
  <2>1. \E x \in S : \A y \in S : x >= y
    BY <1>1
  <2>2. Max(S) \in S /\ \A y \in S : Max(S) >= y
    BY <2>1 DEF Max
  <2>3. Max(S) \in Int /\ m \in Int /\ Max(S) >= m /\ Max(S) =< m
    BY <1>1, <2>2
  <2> QED BY <2>3
<1>2. ASSUME \A y \in S : m =< y PROVE Min(S) = m
  <2>1. \E x \in S : \A y \in S : x =< y
    BY <1>2
  <2>2. Min(S) \in S /\ \A y \in S : Min(S) =< y
    BY <2>1 DEF Min
  <2>3. Min(S) \in Int /\ m \in Int /\ Min(S) =< m /\ Min(S) >= m
    BY <1>2, <2>2
  <2> QED BY <2>3
<1> QED BY <1>1, <1>2

\* The sums are those over the sets of trades; the largest members are said to be
\* what Max and Min choose.
Matches ==
  /\ sums.total = Cardinality(Results)
  /\ sums.wins = Cardinality(Winners) /\ sums.losses = Cardinality(Losers)
  /\ sums.breakeven = Cardinality(Results \ (Winners \cup Losers))
  /\ sums.realized = Total(ResultOf, Results)
  /\ sums.invested = Total(CostOf, Results) /\ sums.proceeds = Total(ProceedsOf, Results)
  /\ sums.winSum = Total(ResultOf, Winners) /\ sums.lossSum = Total(ResultOf, Losers)
  /\ sums.largestWin \in {0} \cup {ResultOf[i] : i \in Winners}
  /\ \A i \in Winners : ResultOf[i] =< sums.largestWin
  /\ sums.largestLoss \in {0} \cup {ResultOf[i] : i \in Losers}
  /\ \A i \in Losers : sums.largestLoss =< ResultOf[i]
  /\ sums.symbols = {trades[i].symbol : i \in Results}

\* The sets of trades are finite, and what is summed over them are integers.
LEMMA ResultTypes ==
  ASSUME TypeOK
  PROVE  /\ IsFiniteSet(Results) /\ IsFiniteSet(Winners) /\ IsFiniteSet(Losers)
         /\ IsFiniteSet(Results \ (Winners \cup Losers))
         /\ \A i \in Results : ResultOf[i] \in Int /\ CostOf[i] \in Int /\ ProceedsOf[i] \in Int
<1>1. Len(trades) \in Nat /\ \A i \in 1 .. Len(trades) : trades[i] \in Row
  BY DEF TypeOK
<1>2. IsFiniteSet(Results)
  <2>1. IsFiniteSet(1 .. Len(trades))
    BY <1>1, FS_Interval
  <2>2. Results \in SUBSET (1 .. Len(trades))
    BY DEF Results
  <2> QED BY <2>1, <2>2, FS_Subset
<1>3. IsFiniteSet(Winners) /\ IsFiniteSet(Losers) /\ IsFiniteSet(Results \ (Winners \cup Losers))
  BY <1>2, FS_Subset DEF Winners, Losers
<1>4. ASSUME NEW i \in Results
      PROVE  ResultOf[i] \in Int /\ CostOf[i] \in Int /\ ProceedsOf[i] \in Int
  <2>1. trades[i] \in Row /\ Counted(trades[i])
    BY <1>1 DEF Results
  <2>2. /\ Pnl(trades[i]) \in Int
        /\ trades[i].entry * EntryQuantity(trades[i]) \in Int
        /\ trades[i].exit * ExitQuantity(trades[i]) \in Int
    BY <2>1, CountedTypes
  <2> QED BY <2>2 DEF ResultOf, CostOf, ProceedsOf
<1> QED BY <1>2, <1>3, <1>4

\* What the sums match is the reference.
LEMMA MatchesMeans ==
  ASSUME TypeOK, Matches
  PROVE  MatchesReference
<1>1. \A i \in Results : ResultOf[i] \in Int
  BY ResultTypes
<1>2. sums.largestWin = Max({0} \cup {ResultOf[i] : i \in Winners})
  <2> DEFINE S == {0} \cup {ResultOf[i] : i \in Winners}
  <2>1. S \in SUBSET Int /\ sums.largestWin \in S
    BY <1>1 DEF Matches, Winners
  <2>2. \A y \in S : y =< sums.largestWin
    BY DEF Matches, TypeOK
  <2> HIDE DEF S
  <2>3. Max(S) = sums.largestWin
    BY <2>1, <2>2, Extremes
  <2> QED BY <2>3 DEF S
<1>3. sums.largestLoss = Min({0} \cup {ResultOf[i] : i \in Losers})
  <2> DEFINE S == {0} \cup {ResultOf[i] : i \in Losers}
  <2>1. S \in SUBSET Int /\ sums.largestLoss \in S
    BY <1>1 DEF Matches, Losers
  <2>2. \A y \in S : sums.largestLoss =< y
    BY DEF Matches, TypeOK
  <2> HIDE DEF S
  <2>3. Min(S) = sums.largestLoss
    BY <2>1, <2>2, Extremes
  <2> QED BY <2>3 DEF S
<1>4. sums = [total |-> sums.total, wins |-> sums.wins, losses |-> sums.losses,
              breakeven |-> sums.breakeven, realized |-> sums.realized,
              invested |-> sums.invested, proceeds |-> sums.proceeds,
              winSum |-> sums.winSum, lossSum |-> sums.lossSum,
              largestWin |-> sums.largestWin, largestLoss |-> sums.largestLoss,
              symbols |-> sums.symbols]
  BY DEF TypeOK
<1> QED BY <1>2, <1>3, <1>4 DEF Matches, MatchesReference, Reference

\* A trade that is not counted changes none of the sets, nor what is summed over them.
LEMMA UncountedResults ==
  ASSUME TypeOK, NEW t \in Row, Add(t), ~Counted(t)
  PROVE  /\ UNCHANGED <<sums, Results, ResultOf, CostOf, ProceedsOf, Winners, Losers>>
         /\ {trades'[i].symbol : i \in Results'} = {trades[i].symbol : i \in Results}
<1>1. /\ Len(trades) \in Nat /\ Len(trades') = Len(trades) + 1 /\ sums' = sums
      /\ trades'[Len(trades) + 1] = t /\ \A i \in 1 .. Len(trades) : trades'[i] = trades[i]
  BY DEF TypeOK, Add, Added
<1>2. Results' = Results /\ \A i \in Results : trades'[i] = trades[i]
  BY <1>1 DEF Results
<1>3. ResultOf' = ResultOf /\ CostOf' = CostOf /\ ProceedsOf' = ProceedsOf
  BY <1>2 DEF ResultOf, CostOf, ProceedsOf
<1>4. Winners' = Winners /\ Losers' = Losers
  BY <1>2, <1>3 DEF Winners, Losers
<1> QED BY <1>1, <1>2, <1>3, <1>4

\* A counted trade is one more result, with its own result, cost and proceeds, and a
\* winner or a loser by the sign of its result.
LEMMA CountedResults ==
  ASSUME TypeOK, NEW t \in Row, Add(t), Counted(t), NEW n, n = Len(trades) + 1
  PROVE  /\ n \notin Results /\ Results' = Results \cup {n}
         /\ \A i \in Results : /\ ResultOf'[i] = ResultOf[i] /\ CostOf'[i] = CostOf[i]
                               /\ ProceedsOf'[i] = ProceedsOf[i]
         /\ ResultOf'[n] = Pnl(t)
         /\ CostOf'[n] = t.entry * EntryQuantity(t)
         /\ ProceedsOf'[n] = t.exit * ExitQuantity(t)
         /\ Winners' = IF Pnl(t) > 0 THEN Winners \cup {n} ELSE Winners
         /\ Losers' = IF Pnl(t) < 0 THEN Losers \cup {n} ELSE Losers
         /\ {trades'[i].symbol : i \in Results'} =
              {trades[i].symbol : i \in Results} \cup {t.symbol}
<1>1. /\ Len(trades) \in Nat /\ Len(trades') = n
      /\ trades'[n] = t /\ \A i \in 1 .. Len(trades) : trades'[i] = trades[i]
  BY DEF TypeOK, Add
<1>2. n \notin Results /\ Results' = Results \cup {n}
  BY <1>1 DEF Results
<1>3. \A i \in Results : trades'[i] = trades[i]
  BY <1>1 DEF Results
<1>4. \A i \in Results : /\ ResultOf'[i] = ResultOf[i] /\ CostOf'[i] = CostOf[i]
                         /\ ProceedsOf'[i] = ProceedsOf[i]
  BY <1>2, <1>3 DEF ResultOf, CostOf, ProceedsOf
<1>5. /\ ResultOf'[n] = Pnl(t) /\ CostOf'[n] = t.entry * EntryQuantity(t)
      /\ ProceedsOf'[n] = t.exit * ExitQuantity(t)
  BY <1>1, <1>2 DEF ResultOf, CostOf, ProceedsOf
<1>6. Winners' = IF Pnl(t) > 0 THEN Winners \cup {n} ELSE Winners
  BY <1>2, <1>4, <1>5 DEF Winners
<1>7. Losers' = IF Pnl(t) < 0 THEN Losers \cup {n} ELSE Losers
  BY <1>2, <1>4, <1>5 DEF Losers
<1> QED BY <1>1, <1>2, <1>3, <1>4, <1>5, <1>6, <1>7

\* What a winner, a loser and a trade that is neither add to the sums of their group.
LEMMA CountedMatches ==
  ASSUME TypeOK, Matches, NEW t \in Row, Add(t), Counted(t)
  PROVE  Matches'
<1> DEFINE p == Pnl(t)  n == Len(trades) + 1
           cost == t.entry * EntryQuantity(t)  gain == t.exit * ExitQuantity(t)
           others == Results \ (Winners \cup Losers)
<1>1. sums \in Sums /\ sums' = Added(sums, t) /\ p \in Int /\ cost \in Int /\ gain \in Int
  BY CountedTypes DEF TypeOK, Sums, Add
<1>2. /\ n \notin Results /\ Results' = Results \cup {n}
      /\ \A i \in Results : /\ ResultOf'[i] = ResultOf[i] /\ CostOf'[i] = CostOf[i]
                            /\ ProceedsOf'[i] = ProceedsOf[i]
      /\ ResultOf'[n] = p /\ CostOf'[n] = cost /\ ProceedsOf'[n] = gain
      /\ Winners' = IF p > 0 THEN Winners \cup {n} ELSE Winners
      /\ Losers' = IF p < 0 THEN Losers \cup {n} ELSE Losers
      /\ {trades'[i].symbol : i \in Results'} =
           {trades[i].symbol : i \in Results} \cup {t.symbol}
  BY CountedResults
<1>3. /\ IsFiniteSet(Results) /\ IsFiniteSet(Winners) /\ IsFiniteSet(Losers)
      /\ IsFiniteSet(others)
      /\ \A i \in Results : ResultOf[i] \in Int /\ CostOf[i] \in Int /\ ProceedsOf[i] \in Int
  BY ResultTypes
<1>4. sums'.symbols = sums.symbols \cup {t.symbol}
  BY <1>1 DEF Added, Figures, Classify, Sums
<1>5. /\ sums'.total = sums.total + 1 /\ sums'.realized = sums.realized + p
      /\ sums'.invested = sums.invested + cost
      /\ sums'.proceeds = sums.proceeds + gain
  BY <1>1, AddedFields
<1>6. \/ /\ p > 0 /\ sums'.wins = sums.wins + 1 /\ sums'.winSum = sums.winSum + p
         /\ sums'.largestWin = Larger(sums.largestWin, p)
         /\ sums'.losses = sums.losses /\ sums'.lossSum = sums.lossSum
         /\ sums'.largestLoss = sums.largestLoss /\ sums'.breakeven = sums.breakeven
      \/ /\ p < 0 /\ sums'.losses = sums.losses + 1 /\ sums'.lossSum = sums.lossSum + p
         /\ sums'.largestLoss = Smaller(sums.largestLoss, p)
         /\ sums'.wins = sums.wins /\ sums'.winSum = sums.winSum
         /\ sums'.largestWin = sums.largestWin /\ sums'.breakeven = sums.breakeven
      \/ /\ p = 0 /\ sums'.breakeven = sums.breakeven + 1
         /\ sums'.wins = sums.wins /\ sums'.winSum = sums.winSum
         /\ sums'.largestWin = sums.largestWin
         /\ sums'.losses = sums.losses /\ sums'.lossSum = sums.lossSum
         /\ sums'.largestLoss = sums.largestLoss
  BY <1>1, AddedFields
<1> HIDE DEF p, n, cost, gain
<1>7. Winners \subseteq Results /\ Losers \subseteq Results
  BY DEF Winners, Losers
<1>8. sums'.total = Cardinality(Results')
  <2>1. Cardinality(Results \cup {n}) = Cardinality(Results) + 1
    BY <1>2, <1>3, FS_AddElement
  <2>2. sums.total = Cardinality(Results)
    BY DEF Matches
  <2> QED BY <1>2, <1>5, <2>1, <2>2
<1>9. sums'.realized = Total(ResultOf', Results')
  BY <1>1, <1>2, <1>3, <1>5, TotalAdd DEF Matches
<1>10. sums'.invested = Total(CostOf', Results')
  BY <1>1, <1>2, <1>3, <1>5, TotalAdd DEF Matches
<1>11. sums'.proceeds = Total(ProceedsOf', Results')
  BY <1>1, <1>2, <1>3, <1>5, TotalAdd DEF Matches
<1>12. sums'.wins = Cardinality(Winners') /\ sums'.winSum = Total(ResultOf', Winners')
  <2>1. n \notin Winners /\ \A i \in Winners : ResultOf[i] \in Int /\ ResultOf'[i] = ResultOf[i]
    BY <1>2, <1>3, <1>7
  <2>2. Total(ResultOf', Winners) = Total(ResultOf, Winners)
    BY <1>3, <2>1, TotalAgrees
  <2>3. /\ Total(ResultOf', Winners \cup {n}) = Total(ResultOf, Winners) + p
        /\ Cardinality(Winners \cup {n}) = Cardinality(Winners) + 1
    BY <1>1, <1>2, <1>3, <2>1, TotalAdd, FS_AddElement
  <2> QED BY <1>1, <1>2, <1>6, <2>2, <2>3 DEF Matches
<1>13. sums'.losses = Cardinality(Losers') /\ sums'.lossSum = Total(ResultOf', Losers')
  <2>1. n \notin Losers /\ \A i \in Losers : ResultOf[i] \in Int /\ ResultOf'[i] = ResultOf[i]
    BY <1>2, <1>3, <1>7
  <2>2. Total(ResultOf', Losers) = Total(ResultOf, Losers)
    BY <1>3, <2>1, TotalAgrees
  <2>3. /\ Total(ResultOf', Losers \cup {n}) = Total(ResultOf, Losers) + p
        /\ Cardinality(Losers \cup {n}) = Cardinality(Losers) + 1
    BY <1>1, <1>2, <1>3, <2>1, TotalAdd, FS_AddElement
  <2> QED BY <1>1, <1>2, <1>6, <2>2, <2>3 DEF Matches
<1>14. sums'.breakeven = Cardinality(Results' \ (Winners' \cup Losers'))
  <2>1. Results' \ (Winners' \cup Losers') = IF p = 0 THEN others \cup {n} ELSE others
    <3>1. p > 0 \/ p < 0 \/ p = 0
      BY <1>1
    <3>2. n \notin Winners /\ n \notin Losers
      BY <1>2, <1>7
    <3>3. CASE p > 0
      BY <1>1, <1>2, <3>2, <3>3
    <3>4. CASE p < 0
      BY <1>1, <1>2, <3>2, <3>4
    <3>5. CASE p = 0
      BY <1>2, <3>2, <3>5
    <3> QED BY <3>1, <3>3, <3>4, <3>5
  <2>2. n \notin others
    BY <1>2
  <2> HIDE DEF others
  <2>3. Cardinality(others \cup {n}) = Cardinality(others) + 1
    BY <1>3, <2>2, FS_AddElement
  <2>4. sums.breakeven = Cardinality(others)
    BY DEF Matches, others
  <2> QED BY <1>1, <1>6, <2>1, <2>3, <2>4
<1>15. /\ sums'.largestWin \in {0} \cup {ResultOf'[i] : i \in Winners'}
       /\ \A i \in Winners' : ResultOf'[i] =< sums'.largestWin
  <2>1. \A i \in Winners : ResultOf'[i] = ResultOf[i] /\ ResultOf[i] \in Int
    BY <1>2, <1>3, <1>7
  <2>2. /\ sums.largestWin \in {0} \cup {ResultOf[i] : i \in Winners}
        /\ \A i \in Winners : ResultOf[i] =< sums.largestWin
        /\ sums.largestWin \in Int
    BY <1>1 DEF Matches, Sums
  <2>3. CASE p > 0
    <3>1. Winners' = Winners \cup {n} /\ sums'.largestWin = Larger(sums.largestWin, p)
      BY <1>1, <1>2, <1>6, <2>3
    <3> QED BY <1>1, <1>2, <2>1, <2>2, <3>1 DEF Larger
  <2>4. CASE ~(p > 0)
    <3>1. Winners' = Winners /\ sums'.largestWin = sums.largestWin
      BY <1>1, <1>2, <1>6, <2>4
    <3> QED BY <2>1, <2>2, <3>1
  <2> QED BY <2>3, <2>4
<1>16. /\ sums'.largestLoss \in {0} \cup {ResultOf'[i] : i \in Losers'}
       /\ \A i \in Losers' : sums'.largestLoss =< ResultOf'[i]
  <2>1. \A i \in Losers : ResultOf'[i] = ResultOf[i] /\ ResultOf[i] \in Int
    BY <1>2, <1>3, <1>7
  <2>2. /\ sums.largestLoss \in {0} \cup {ResultOf[i] : i \in Losers}
        /\ \A i \in Losers : sums.largestLoss =< ResultOf[i]
        /\ sums.largestLoss \in Int
    BY <1>1 DEF Matches, Sums
  <2>3. CASE p < 0
    <3>1. Losers' = Losers \cup {n} /\ sums'.largestLoss = Smaller(sums.largestLoss, p)
      BY <1>1, <1>2, <1>6, <2>3
    <3> QED BY <1>1, <1>2, <2>1, <2>2, <3>1 DEF Smaller
  <2>4. CASE ~(p < 0)
    <3>1. Losers' = Losers /\ sums'.largestLoss = sums.largestLoss
      BY <1>1, <1>2, <1>6, <2>4
    <3> QED BY <2>1, <2>2, <3>1
  <2> QED BY <2>3, <2>4
<1>17. sums'.symbols = {trades'[i].symbol : i \in Results'}
  BY <1>2, <1>4 DEF Matches
<1> QED BY <1>8, <1>9, <1>10, <1>11, <1>12, <1>13, <1>14, <1>15, <1>16, <1>17 DEF Matches

\* The pass computes what the figures mean, for every list of trades in any order: the
\* local variables are counts, sums, extremes and symbols over the sets of the trades.
THEOREM PassMatchesReference == Spec => []MatchesReference
<1>1. Init => Matches
  <2> SUFFICES ASSUME Init PROVE Matches
    OBVIOUS
  <2>1. Results = {} /\ Winners = {} /\ Losers = {}
    BY DEF Init, Results, Winners, Losers
  <2>2. Cardinality({}) = 0 /\ \A v : Total(v, {}) = 0
    BY FS_EmptySet, TotalEquation
  <2> QED BY <2>1, <2>2 DEF Init, Zeros, Matches
<1>2. TypeOK /\ Matches /\ [Next]_vars => Matches'
  <2> SUFFICES ASSUME TypeOK, Matches, [Next]_vars PROVE Matches'
    OBVIOUS
  <2>1. ASSUME NEW t \in Row, Add(t), ~Counted(t) PROVE Matches'
    BY <2>1, UncountedResults DEF Matches
  <2>2. ASSUME NEW t \in Row, Add(t), Counted(t) PROVE Matches'
    BY <2>2, CountedMatches
  <2>3. CASE Finish \/ UNCHANGED vars
    <3>1. UNCHANGED <<trades, sums>>
      BY <2>3 DEF Finish, vars
    <3>2. UNCHANGED <<Results, ResultOf, CostOf, ProceedsOf, Winners, Losers>>
      BY <3>1 DEF Results, ResultOf, CostOf, ProceedsOf, Winners, Losers
    <3> QED BY <3>1, <3>2 DEF Matches
  <2> QED BY <2>1, <2>2, <2>3 DEF Next
<1>3. TypeOK /\ Matches => MatchesReference
  BY MatchesMeans
<1> QED BY <1>1, <1>2, <1>3, PnlTypes, PTL DEF Spec
=============================================================================
