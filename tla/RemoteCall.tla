----------------------------- MODULE RemoteCall -----------------------------
(***************************************************************************)
(* What a caller of the broker and cash clients may rely on: a call takes  *)
(* effect or not, and ends once, in success only if it took effect. A call *)
(* that ended in failure may have taken effect, or may still do so.        *)
(***************************************************************************)

VARIABLES effect, outcome

call == <<effect, outcome>>

Init == effect = FALSE /\ outcome = "none"

TakeEffect == ~effect /\ effect' = TRUE /\ UNCHANGED outcome

Succeed == outcome = "none" /\ effect /\ outcome' = "ok" /\ UNCHANGED effect

Fail == outcome = "none" /\ outcome' = "failed" /\ UNCHANGED effect

Spec == Init /\ [][TakeEffect \/ Succeed \/ Fail]_call
=============================================================================
