------------------------------ MODULE MCDbWriter ------------------------------
(* Instances of the writer for TLC: t1 and t2 are traded by this process, t0 was *)
(* closed by an earlier one.                                                     *)
EXTENDS AsyncDbWriter, TLC

CONSTANTS t0, t1, t2

Three == {t0, t1, t2}

Two == {t1, t2}

OldRow == {t0}

\* t1 takes the key of t0 again.
KeyReused == (t0 :> "k") @@ (t1 :> "k") @@ (t2 :> "other")

OwnKeys == (t1 :> "k") @@ (t2 :> "other")
=============================================================================
