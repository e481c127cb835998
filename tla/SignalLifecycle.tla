--------------------------- MODULE SignalLifecycle ---------------------------
(***************************************************************************)
(* What the executor promises about signals, without threads, broker or    *)
(* book (the idempotency and position lifecycle of services.py and         *)
(* positions.py): a signal of a day has at most one trade that is not over *)
(* and is traded again only after its previous trade was closed by an      *)
(* exit; a trade whose entry came to nothing blocks the signal for the     *)
(* day; only a held position is closed, and closing ends in an exit or in  *)
(* holding on.                                                             *)
(***************************************************************************)
CONSTANTS Trades, Bases, NoBase

VARIABLES
  phase,   \* phase[t]: where trade t is in its life
  signal   \* signal[t]: the signal and day trade t was opened for

lifecycle == <<phase, signal>>

Phases == {"unborn", "entering", "held", "closing", "closed", "abandoned"}

Init ==
  /\ phase = [t \in Trades |-> "unborn"]
  /\ signal = [t \in Trades |-> NoBase]

Enter(t, b) ==
  /\ phase[t] = "unborn"
  /\ \A u \in Trades : signal[u] = b => phase[u] = "closed"
  /\ phase' = [phase EXCEPT ![t] = "entering"]
  /\ signal' = [signal EXCEPT ![t] = b]

Move(t, from, to) ==
  /\ phase[t] = from
  /\ phase' = [phase EXCEPT ![t] = to]
  /\ UNCHANGED signal

BeginClose(claims) ==
  /\ \A t \in claims : phase[t] = "held"
  /\ phase' = [t \in Trades |-> IF t \in claims THEN "closing" ELSE phase[t]]
  /\ UNCHANGED signal

Next ==
  \/ \E t \in Trades : \/ \E b \in Bases : Enter(t, b)
                       \/ Move(t, "entering", "held")
                       \/ Move(t, "entering", "abandoned")
                       \/ Move(t, "closing", "held")
                       \/ Move(t, "closing", "closed")
  \/ \E claims \in SUBSET Trades : BeginClose(claims)

Spec == Init /\ [][Next]_lifecycle
=============================================================================
