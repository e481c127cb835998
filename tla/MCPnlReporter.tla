---------------------------- MODULE MCPnlReporter ----------------------------
(* Instances of the reporter for TLC: the two modes close at different times  *)
(* of a day of three steps.                                                   *)
EXTENDS PnlReporter

CONSTANTS t1, t3

BothModes == <<"PAPER", "LIVE">>
Closes == [PAPER |-> 2, LIVE |-> 1]

OneOfEach == [t \in Trades |-> IF t = t3 THEN "LIVE" ELSE "PAPER"]
=============================================================================
