----------------------------- MODULE MCExecution -----------------------------
(* Instances of the executor for TLC. *)
EXTENDS ExecutionSafety, TLC

\* One symbol. Bought at 1 or below, sold at 2: a price of 0 cannot be sized.
Long == [symbol |-> "A", reason |-> "r", type |-> "LONG", buy |-> 1, sell |-> 2]

\* The same symbol sold short at 2 or above and covered at 1 or below.
Short == [symbol |-> "A", reason |-> "s", type |-> "SHORT", buy |-> 2, sell |-> 1]

\* A second note of the same signal, with another target.
Again == [Long EXCEPT !.sell = 3]

OneEntry == {Long}

OneSignal == {Long, Again}


TwoEntries == {Long, Short}

Symmetry == Permutations(Trades)
=============================================================================
