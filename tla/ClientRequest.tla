---------------------------- MODULE ClientRequest ----------------------------
(***************************************************************************)
(* One call of _request in clients/alpaca_client.py or                     *)
(* clients/cash_client.py, whose loops are the same: a request is repeated *)
(* after a server error, a transport error or a body that is not JSON, up  *)
(* to max_attempts times; a client error ends the call at once.            *)
(*                                                                         *)
(* The server is external. It may apply a request and fail to say so, and  *)
(* a request the client has given up may still reach it. An order is       *)
(* refused when its client_order_id was used; a hold has no such key the   *)
(* client could rely on; the effect of a read is that it is answered.      *)
(* A request is named by the attempt that sent it.                         *)
(***************************************************************************)
EXTENDS Integers, FiniteSets

CONSTANT MaxAttempts   \* max_attempts of the clients

ASSUME AttemptsAssumption == MaxAttempts \in Nat \ {0}

VARIABLES
  kind,       \* what is asked for: "order" (POST), "hold" (POST) or "read" (GET)
  phase,      \* where the loop is: before a request, waiting, done
  attempt,    \* the loop variable
  atServer,   \* the current request while it is not handled, else 0
  late,       \* given up requests that may still be handled
  taken,      \* the client_order_ids under which the server has done something
  reply,      \* the response that is on its way back
  applied,    \* how many requests of this call took effect
  outcome     \* how the call ended

client == <<phase, attempt, outcome>>
server == <<taken, applied>>
vars == <<kind, client, atServer, late, server, reply>>

Kinds == {"order", "hold", "read"}

\* A body that is not JSON is "garbage"; "server_error" is any 5xx.
Replies == {"none", "ok", "refused", "server_error", "garbage"}

Init ==
  /\ kind \in Kinds
  /\ phase = "send" /\ attempt = 1 /\ outcome = "none"
  /\ atServer = 0 /\ late = {} /\ reply = "none"
  /\ taken = {} /\ applied = 0

-----------------------------------------------------------------------------
(* The server                                                              *)

\* Mutant: the id is made where the request is sent, anew in every attempt.
FreshOrderId(n) == n

\* What attempt n carries: submit_order builds the payload once, before the loop.
ClientOrderId(n) == 1

Acceptable(n) == kind = "order" => ClientOrderId(n) \notin taken

Apply(n) == applied' = applied + 1 /\ taken' = taken \cup {ClientOrderId(n)}

Serve ==
  /\ atServer # 0
  /\ atServer' = 0
  /\ \/ Acceptable(atServer) /\ Apply(atServer)
        /\ reply' \in {"none", "ok", "server_error", "garbage"}
     \/ UNCHANGED server /\ reply' \in {"none", "refused", "server_error", "garbage"}
  /\ UNCHANGED <<kind, client, late>>

ServeLate(n) ==
  /\ n \in late
  /\ late' = late \ {n}
  /\ (Acceptable(n) /\ Apply(n)) \/ UNCHANGED server
  /\ UNCHANGED <<kind, client, atServer, reply>>

-----------------------------------------------------------------------------
(* The client                                                              *)

Send ==
  /\ phase = "send"
  /\ phase' = "wait" /\ atServer' = attempt /\ reply' = "none"
  /\ UNCHANGED <<kind, attempt, outcome, late, server>>

End(result) == phase' = "done" /\ outcome' = result /\ UNCHANGED attempt

\* Mutant: the loop variable stands still.
RetryForever ==
  IF attempt < MaxAttempts
  THEN phase' = "send" /\ UNCHANGED <<attempt, outcome>>
  ELSE End("failed")

\* Once more, after a pause, or the error that all attempts failed.
Retry ==
  IF attempt < MaxAttempts
  THEN phase' = "send" /\ attempt' = attempt + 1 /\ UNCHANGED outcome
  ELSE End("failed")

\* Mutant: the status of the response is not looked at.
ReturnsAnything == {"ok", "server_error"}

Returns == {"ok"}

Receive ==
  /\ phase = "wait" /\ reply # "none"
  /\ reply' = "none"
  /\ IF reply \in Returns THEN End("ok")
     ELSE IF reply = "refused" THEN End("failed")
     ELSE Retry
  /\ UNCHANGED <<kind, atServer, late, server>>

\* httpx.TransportError: no connection, a broken one, or no answer in time. What
\* was sent is lost or arrives later, an answer is lost.
Break ==
  /\ phase = "wait"
  /\ Retry
  /\ late' \in {late, late \cup ({atServer} \ {0})}
  /\ atServer' = 0 /\ reply' = "none"
  /\ UNCHANGED <<kind, server>>

-----------------------------------------------------------------------------

Client == Send \/ Receive \/ Break

Ended == phase = "done" /\ late = {} /\ UNCHANGED vars

Next == Client \/ Serve \/ (\E n \in late : ServeLate(n)) \/ Ended

Spec == Init /\ [][Next]_vars

\* The client runs, and a wait ends with the timeout if with nothing else.
FairSpec == Spec /\ WF_vars(Client)

-----------------------------------------------------------------------------

\* The loop counts up to its limit and has a result when it is done; a request is
\* out only while the client waits, it is the one of the current attempt, and only
\* those of earlier attempts, or of the last one, are late.
TypeOK ==
  /\ kind \in Kinds
  /\ phase \in {"send", "wait", "done"}
  /\ attempt \in 1 .. MaxAttempts
  /\ atServer \in {0, attempt}
  /\ late \subseteq 1 .. (IF phase = "done" THEN attempt ELSE attempt - 1)
  /\ taken \subseteq {ClientOrderId(n) : n \in 1 .. MaxAttempts}
  /\ applied \in Nat
  /\ reply \in Replies
  /\ outcome \in {"none", "ok", "failed"}
  /\ phase = "done" <=> outcome # "none"
  /\ atServer # 0 \/ reply # "none" => phase = "wait"
  /\ atServer = 0 \/ reply = "none"

\* Each attempt takes effect at most once, whichever of its request and a late
\* repetition the server sees: attempts bound the holds that a call can leave
\* behind when its replies are lost.
EffectsBounded ==
  applied + Cardinality(late) + (IF atServer = 0 THEN 0 ELSE 1) =<
    IF phase = "send" THEN attempt - 1 ELSE attempt

\* An order is created at most once, however often the request is repeated, and
\* also by a request that arrives after the call has ended: the id that the retries
\* share makes the rest refused. One that is reported as created was.
OrderedOnce ==
  kind = "order" => applied =< 1 /\ (outcome = "ok" => applied = 1)

\* A call that fails in its first attempt although more are allowed has been
\* refused, and nothing has happened: only a retried call can fail and have taken
\* effect.
RefusedMeansNothing ==
  outcome = "failed" /\ attempt < MaxAttempts /\ attempt = 1 => applied = 0 /\ late = {}

Contract == INSTANCE RemoteCall WITH effect <- applied > 0

\* Every call keeps the contract that ExecutionService builds on (EntryAccepted,
\* CashHeld, Settle, SubmissionFails, ReserveFails): success only of what was done.
KeepsContract == Contract!Spec

\* Every call ends: the callers hold no lock across it, but the thread that calls
\* does nothing else.
CallEnds == <>(phase = "done")
=============================================================================
