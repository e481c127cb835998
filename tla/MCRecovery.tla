----------------------------- MODULE MCRecovery -----------------------------
(* Instances of the executor that crashes, for TLC. *)
EXTENDS Recovery, TLC

\* One symbol. Bought at 1 or below, sold at 2: a price of 0 cannot be sized.
Long == [symbol |-> "A", reason |-> "r", type |-> "LONG", buy |-> 1, sell |-> 2]

OneEntry == {Long}

Symmetry == Permutations(Trades)
=============================================================================
