----------------------------- MODULE MCWatchlist -----------------------------
(* Instances of the watchlist for TLC: up to four notes, edited by arming and *)
(* disarming them one at a time or all at once.                               *)
EXTENDS Watchlist

CONSTANTS a, b, c, d

Lists == {<<>>, <<a>>, <<b, c>>, <<a, b, c>>, <<a, b, c, d>>}

FewLists == {<<>>, <<a, b>>}
=============================================================================
