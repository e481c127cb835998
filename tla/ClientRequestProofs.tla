------------------------- MODULE ClientRequestProofs -------------------------
(***************************************************************************)
(* ClientRequest for every limit of attempts: its safety properties, and   *)
(* that it implements the contract RemoteCall.                             *)
(***************************************************************************)
EXTENDS ClientRequest, FiniteSetTheorems, TLAPS

\* What an answer says of what happened: "ok" that the request took effect, and in
\* the first of several attempts a refusal that nothing did.
Answers ==
  /\ reply = "ok" => applied > 0
  /\ outcome = "ok" => applied > 0
  /\ attempt = 1 /\ (phase # "done" \/ attempt < MaxAttempts) => late = {}
  /\ attempt = 1 /\ reply = "refused" => applied = 0

\* The id of an order is taken as soon as one request for it took effect, and it is
\* the id that all the others carry.
IdTaken == kind = "order" /\ applied > 0 => \A n \in 1 .. MaxAttempts : ClientOrderId(n) \in taken

Inv ==
  /\ TypeOK /\ EffectsBounded /\ OrderedOnce /\ RefusedMeansNothing
  /\ Answers /\ IdTaken

-----------------------------------------------------------------------------
(* Requests that are late                                                  *)

\* They are finitely many, and the request of the current attempt is none of them.
LEMMA LateOnes ==
  ASSUME TypeOK
  PROVE  /\ late \subseteq 1 .. MaxAttempts /\ IsFiniteSet(late) /\ Cardinality(late) \in Nat
         /\ phase # "done" => attempt \notin late
<1>1. late \subseteq 1 .. MaxAttempts
  BY AttemptsAssumption DEF TypeOK
<1>2. IsFiniteSet(1 .. MaxAttempts)
  BY AttemptsAssumption, FS_Interval
<1>3. IsFiniteSet(late)
  BY <1>1, <1>2, FS_Subset
<1>4. phase # "done" => attempt \notin late
  BY DEF TypeOK
<1> QED
  BY <1>1, <1>3, <1>4, FS_CardinalityType

\* One that is handled is no longer late; one that is given up may become so.
LEMMA LateCount ==
  ASSUME TypeOK
  PROVE  /\ \A n \in late : Cardinality(late \ {n}) = Cardinality(late) - 1
         /\ phase # "done" => Cardinality(late \cup {attempt}) = Cardinality(late) + 1
  BY LateOnes, FS_RemoveElement, FS_AddElement

-----------------------------------------------------------------------------

\* The initial states satisfy the invariant.
LEMMA InitInv == Init => Inv
  BY AttemptsAssumption, FS_EmptySet
  DEF Init, Inv, TypeOK, EffectsBounded, OrderedOnce, RefusedMeansNothing, Answers, IdTaken,
      Kinds, Replies

\* A request that takes effect is one more, and an order only the first one.
LEMMA ApplyOnce ==
  ASSUME Inv, NEW n \in 1 .. MaxAttempts, Acceptable(n), Apply(n), UNCHANGED <<kind, outcome>>
  PROVE  /\ applied' = applied + 1 /\ IdTaken' /\ OrderedOnce'
         /\ taken' \subseteq {ClientOrderId(m) : m \in 1 .. MaxAttempts}
<1>1. applied \in Nat /\ taken \subseteq {ClientOrderId(m) : m \in 1 .. MaxAttempts}
  BY DEF Inv, TypeOK
<1>2. applied' = applied + 1 /\ taken' = taken \cup {ClientOrderId(n)}
  BY DEF Apply
<1>3. taken' \subseteq {ClientOrderId(m) : m \in 1 .. MaxAttempts}
  BY <1>1, <1>2
<1>4. IdTaken'
  BY <1>2 DEF IdTaken, ClientOrderId
<1>5. kind = "order" => applied = 0
  BY <1>1 DEF Inv, IdTaken, Acceptable
<1>6. OrderedOnce'
  BY <1>2, <1>5 DEF OrderedOnce
<1> QED
  BY <1>2, <1>3, <1>4, <1>6

\* What the server does at once keeps it.
LEMMA ServeInv == Inv /\ Serve => Inv'
<1> SUFFICES ASSUME Inv, Serve PROVE Inv'
  OBVIOUS
<1>1. /\ atServer = attempt /\ atServer \in 1 .. MaxAttempts /\ atServer # 0 /\ atServer' = 0
      /\ phase = "wait" /\ UNCHANGED <<kind, phase, attempt, outcome, late>>
      /\ reply' \in {"none", "ok", "refused", "server_error", "garbage"}
      /\ applied \in Nat /\ outcome = "none" /\ Cardinality(late) \in Nat
  BY LateOnes DEF Serve, client, Inv, TypeOK
<1>2. CASE Acceptable(atServer) /\ Apply(atServer) /\ reply' # "refused"
  <2>1. /\ applied' = applied + 1 /\ IdTaken' /\ OrderedOnce'
        /\ taken' \subseteq {ClientOrderId(m) : m \in 1 .. MaxAttempts}
    BY <1>1, <1>2, ApplyOnce
  <2>2. TypeOK'
    BY <1>1, <2>1 DEF Inv, TypeOK, Replies
  <2>3. EffectsBounded'
    BY <1>1, <2>1 DEF Inv, EffectsBounded
  <2>4. Answers' /\ RefusedMeansNothing'
    BY <1>1, <1>2, <2>1 DEF Inv, Answers, RefusedMeansNothing
  <2> QED
    BY <2>1, <2>2, <2>3, <2>4 DEF Inv
<1>3. CASE UNCHANGED server /\ reply' # "ok"
  <2>1. UNCHANGED <<taken, applied>>
    BY <1>3 DEF server
  <2>2. TypeOK'
    BY <1>1, <2>1 DEF Inv, TypeOK, Replies
  <2>3. EffectsBounded' /\ OrderedOnce' /\ IdTaken'
    BY <1>1, <2>1 DEF Inv, EffectsBounded, OrderedOnce, IdTaken, ClientOrderId
  <2>4. attempt = 1 => applied = 0
    BY <1>1 DEF Inv, EffectsBounded
  <2>5. Answers' /\ RefusedMeansNothing'
    BY <1>1, <1>3, <2>1, <2>4 DEF Inv, Answers, RefusedMeansNothing
  <2> QED
    BY <2>2, <2>3, <2>5 DEF Inv
<1> QED
  BY <1>2, <1>3 DEF Serve

\* So does what it does late.
LEMMA ServeLateInv ==
  ASSUME Inv, NEW n \in late, ServeLate(n)
  PROVE  Inv'
<1>1. /\ late' = late \ {n} /\ UNCHANGED <<kind, phase, attempt, outcome, atServer, reply>>
      /\ n \in 1 .. MaxAttempts /\ applied \in Nat
      /\ Cardinality(late) \in Nat /\ Cardinality(late') = Cardinality(late) - 1
  BY LateOnes, LateCount DEF ServeLate, client, Inv, TypeOK
<1>2. ~(attempt = 1 /\ (phase # "done" \/ attempt < MaxAttempts))
  BY DEF Inv, Answers
<1>3. /\ applied' \in {applied, applied + 1} /\ IdTaken' /\ OrderedOnce'
      /\ taken' \subseteq {ClientOrderId(m) : m \in 1 .. MaxAttempts}
  <2>1. CASE Acceptable(n) /\ Apply(n)
    BY <1>1, <2>1, ApplyOnce
  <2>2. CASE UNCHANGED server
    BY <1>1, <2>2 DEF server, Inv, TypeOK, IdTaken, OrderedOnce, ClientOrderId
  <2> QED
    BY <2>1, <2>2 DEF ServeLate
<1>4. TypeOK'
  BY <1>1, <1>3 DEF Inv, TypeOK
<1>5. EffectsBounded'
  BY <1>1, <1>3, AttemptsAssumption DEF Inv, TypeOK, EffectsBounded
<1>6. Answers' /\ RefusedMeansNothing'
  <2>1. reply' = "refused" => phase' = "wait"
    BY <1>1 DEF Inv, TypeOK
  <2> QED
    BY <1>1, <1>2, <1>3, <2>1 DEF Inv, Answers, RefusedMeansNothing
<1> QED
  BY <1>3, <1>4, <1>5, <1>6 DEF Inv

\* What the client does keeps it.
LEMMA ClientInv == Inv /\ Client => Inv'
<1> USE AttemptsAssumption
<1>1. ASSUME Inv, Client
      PROVE  /\ UNCHANGED <<kind, taken, applied>>
             /\ Cardinality(late) \in Nat /\ attempt \in 1 .. MaxAttempts /\ applied \in Nat
             /\ IdTaken'
  BY <1>1, LateOnes
  DEF Client, Send, Receive, Break, server, Inv, TypeOK, IdTaken, ClientOrderId
<1>2. ASSUME Inv, Send
      PROVE  Inv'
  <2>1. TypeOK' /\ EffectsBounded'
    BY <1>1, <1>2 DEF Client, Send, Inv, TypeOK, EffectsBounded, Replies
  <2>2. OrderedOnce' /\ RefusedMeansNothing' /\ Answers'
    BY <1>1, <1>2 DEF Client, Send, Inv, TypeOK, OrderedOnce, RefusedMeansNothing, Answers
  <2> QED
    BY <1>1, <1>2, <2>1, <2>2 DEF Client, Inv
<1>3. ASSUME Inv, Receive
      PROVE  Inv'
  <2>1. TypeOK' /\ EffectsBounded'
    BY <1>1, <1>3
    DEF Client, Receive, Returns, Retry, End, Inv, TypeOK, EffectsBounded, Replies
  <2>2. OrderedOnce' /\ RefusedMeansNothing' /\ Answers'
    BY <1>1, <1>3
    DEF Client, Receive, Returns, Retry, End, Inv, TypeOK, OrderedOnce, RefusedMeansNothing,
        Answers
  <2> QED
    BY <1>1, <1>3, <2>1, <2>2 DEF Client, Inv
<1>4. ASSUME Inv, Break
      PROVE  Inv'
  <2>1. /\ phase = "wait" /\ Retry /\ atServer' = 0 /\ reply' = "none"
        /\ late' = late \/ (atServer # 0 /\ late' = late \cup {attempt})
    BY <1>4 DEF Break, Inv, TypeOK
  <2>2. \/ late' = late
        \/ atServer # 0 /\ Cardinality(late') = Cardinality(late) + 1
    BY <1>4, <2>1, LateCount DEF Inv
  <2>3. TypeOK'
    <3>1. late' \subseteq 1 .. attempt
      <4>1. late \subseteq 1 .. attempt - 1
        BY <1>4, <2>1 DEF Inv, TypeOK
      <4>2. attempt \in 1 .. attempt /\ 1 .. attempt - 1 \subseteq 1 .. attempt
        BY <1>4 DEF Inv, TypeOK
      <4> QED
        BY <2>1, <4>1, <4>2
    <3>2. \/ phase' = "send" /\ attempt' = attempt + 1 /\ outcome' = outcome
             /\ attempt < MaxAttempts
          \/ phase' = "done" /\ attempt' = attempt /\ outcome' = "failed"
      BY <2>1 DEF Retry, End
    <3>3. late' \subseteq 1 .. (IF phase' = "done" THEN attempt' ELSE attempt' - 1)
      BY <1>1, <1>4, <3>1, <3>2 DEF Client
    <3> QED
      BY <1>1, <1>4, <2>1, <3>2, <3>3 DEF Client, Inv, TypeOK, Replies
  <2>4. EffectsBounded'
    BY <1>1, <1>4, <2>1, <2>2 DEF Client, Retry, End, Inv, TypeOK, EffectsBounded
  <2>5. OrderedOnce' /\ RefusedMeansNothing' /\ Answers'
    BY <1>1, <1>4, <2>1
    DEF Client, Retry, End, Inv, TypeOK, OrderedOnce, RefusedMeansNothing, Answers
  <2> QED
    BY <1>1, <1>4, <2>3, <2>4, <2>5 DEF Client, Inv
<1> QED
  BY <1>2, <1>3, <1>4 DEF Client

\* Every step does.
LEMMA StepInv == Inv /\ [Next]_vars => Inv'
<1> SUFFICES ASSUME Inv, [Next]_vars PROVE Inv'
  OBVIOUS
<1>1. CASE UNCHANGED vars
  BY <1>1
  DEF vars, client, server, Inv, TypeOK, EffectsBounded, OrderedOnce, RefusedMeansNothing,
      Answers, IdTaken, ClientOrderId
<1>2. CASE Ended
  BY <1>1, <1>2 DEF Ended
<1> QED BY <1>1, <1>2, ServeInv, ServeLateInv, ClientInv DEF Next

\* The invariant and its parts: the loop of _request stays within its attempts, each
\* attempt takes effect at most once, an order is created at most once however the
\* replies are lost, and a call refused at once has done nothing.
THEOREM RequestInvariant == Spec => []Inv
BY InitInv, StepInv, PTL DEF Spec

\* The loop and its request have their types and agree with each other.
THEOREM RequestTypes == Spec => []TypeOK
<1>1. Inv => TypeOK
  BY DEF Inv
<1> QED BY <1>1, RequestInvariant, PTL

\* The attempts bound what a call can have done: for any limit of attempts.
THEOREM AttemptsBoundEffects == Spec => []EffectsBounded
<1>1. Inv => EffectsBounded
  BY DEF Inv
<1> QED BY <1>1, RequestInvariant, PTL

\* Repeating a POST /v2/orders never creates a second order, because every attempt
\* carries the id the first one did (submit_order, clients/alpaca_client.py), and an
\* order reported as created was created.
THEOREM OneOrder == Spec => []OrderedOnce
<1>1. Inv => OrderedOnce
  BY DEF Inv
<1> QED BY <1>1, RequestInvariant, PTL

\* An error after one attempt of several is a refusal, and nothing was done.
THEOREM RefusedCallsDoNothing == Spec => []RefusedMeansNothing
<1>1. Inv => RefusedMeansNothing
  BY DEF Inv
<1> QED BY <1>1, RequestInvariant, PTL

\* A step of the loop or the server is a step of the contract or none.
LEMMA StepKeepsContract ==
  Inv /\ Inv' /\ [Next]_vars =>
    [Contract!TakeEffect \/ Contract!Succeed \/ Contract!Fail]_Contract!call
<1> USE DEF Contract!TakeEffect, Contract!Succeed, Contract!Fail, Contract!call, server
<1> SUFFICES ASSUME Inv, Inv', [Next]_vars
             PROVE [Contract!TakeEffect \/ Contract!Succeed \/ Contract!Fail]_Contract!call
  OBVIOUS
<1>1. CASE Serve
  BY <1>1 DEF Serve, Apply, client, Inv, TypeOK
<1>2. ASSUME NEW n \in late, ServeLate(n)
      PROVE  [Contract!TakeEffect \/ Contract!Succeed \/ Contract!Fail]_Contract!call
  BY <1>2 DEF ServeLate, Apply, client, Inv, TypeOK
<1>3. CASE Send
  BY <1>3 DEF Send
<1>4. CASE Receive
  BY <1>4 DEF Receive, Returns, Retry, End, Inv, TypeOK, Answers
<1>5. CASE Break
  BY <1>5 DEF Break, Retry, End, Inv, TypeOK
<1>6. CASE UNCHANGED vars
  BY <1>6 DEF vars, client
<1> QED BY <1>1, <1>2, <1>3, <1>4, <1>5, <1>6 DEF Next, Client, Ended

\* _request with its retries implements the call that ExecutionService is written
\* against: success only of what was done, failure of what may have been done.
THEOREM RequestKeepsContract == Spec => KeepsContract
<1>1. Init => Contract!Init
  BY DEF Init, Contract!Init
<1> QED BY <1>1, StepKeepsContract, RequestInvariant, PTL DEF Spec, KeepsContract, Contract!Spec
=============================================================================
