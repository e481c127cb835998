------------------------- MODULE AsyncDbWriterProofs -------------------------
(***************************************************************************)
(* Proofs about the database writer, for every set of trades, every queue  *)
(* and batch size: writes keep their order from the queue to the rows, and *)
(* none disappears but in three ways, the silent one never first.          *)
(***************************************************************************)
EXTENDS AsyncDbWriter, TLAPS

-----------------------------------------------------------------------------
(* Sequences of tasks                                                      *)

\* A task of a trade, in the two parts the proofs use.
LEMMA TaskParts ==
  ASSUME NEW t \in Trades, NEW n \in Nat
  PROVE  TaskOf(t, n) \in Task /\ TaskOf(t, n).trade = t /\ TaskOf(t, n).write = n
BY DEF TaskOf, Task

\* What is appended comes last; everything else stays where it was.
LEMMA AppendTask ==
  ASSUME NEW s \in Seq(Task), NEW task \in Task
  PROVE  /\ Append(s, task) \in Seq(Task)
         /\ Len(Append(s, task)) = Len(s) + 1
         /\ \A i \in DOMAIN Append(s, task) :
              Append(s, task)[i] = IF i = Len(s) + 1 THEN task ELSE s[i]
         /\ DOMAIN Append(s, task) = DOMAIN s \cup {Len(s) + 1}
         /\ Len(s) + 1 \notin DOMAIN s
OBVIOUS

\* The head of a sequence is its first task, the tail the others in their order.
LEMMA HeadTail ==
  ASSUME NEW s \in Seq(Task), s # <<>>
  PROVE  /\ Head(s) \in Task /\ Head(s) = s[1] /\ 1 \in DOMAIN s
         /\ Tail(s) \in Seq(Task) /\ Len(Tail(s)) = Len(s) - 1
         /\ \A i \in DOMAIN Tail(s) : i + 1 \in DOMAIN s /\ Tail(s)[i] = s[i + 1]
OBVIOUS

\* One task is a sequence.
LEMMA OneTask ==
  ASSUME NEW task \in Task
  PROVE  /\ <<task>> \in Seq(Task) /\ Len(<<task>>) = 1
         /\ DOMAIN <<task>> = {1} /\ <<task>>[1] = task
OBVIOUS

\* The tail of an ordered queue is ordered, and comes after the head.
LEMMA TailOrdered ==
  ASSUME NEW s \in Seq(Task), s # <<>>, Increasing(s)
  PROVE  /\ Increasing(Tail(s))
         /\ \A i \in DOMAIN Tail(s) :
              Tail(s)[i].trade = Head(s).trade => Head(s).write < Tail(s)[i].write
<1>1. \A i \in DOMAIN Tail(s) : i \in Int /\ i >= 1
  BY HeadTail
<1> QED
  BY <1>1, HeadTail DEF Increasing

\* The tasks of a sequence have the type of tasks.
LEMMA Elements ==
  ASSUME NEW s \in Seq(Task), NEW i \in DOMAIN s
  PROVE  /\ s[i] \in Task /\ s[i].trade \in Trades /\ s[i].write \in Nat
         /\ i \in Int /\ 1 =< i /\ i =< Len(s)
<1>1. s[i] \in Task /\ i \in Int /\ 1 =< i /\ i =< Len(s)
  OBVIOUS
<1> QED
  BY <1>1 DEF Task

\* What lies between two tables lies between a lower and a higher one.
LEMMA BetweenWider ==
  ASSUME NEW s \in Seq(Task),
         NEW low \in [Trades -> Nat], NEW lower \in [Trades -> Nat],
         NEW high \in [Trades -> Nat], NEW higher \in [Trades -> Nat],
         \A t \in Trades : lower[t] =< low[t] /\ high[t] =< higher[t],
         Between(low, s, high)
  PROVE  Between(lower, s, higher)
<1> SUFFICES ASSUME NEW i \in DOMAIN s
             PROVE  lower[s[i].trade] < s[i].write /\ s[i].write =< higher[s[i].trade]
  BY DEF Between
<1>1. s[i].trade \in Trades /\ s[i].write \in Nat
  BY Elements
<1>2. low[s[i].trade] < s[i].write /\ s[i].write =< high[s[i].trade]
  BY DEF Between
<1>3. lower[s[i].trade] =< low[s[i].trade] /\ high[s[i].trade] =< higher[s[i].trade]
  BY <1>1
<1> QED
  BY <1>1, <1>2, <1>3

-----------------------------------------------------------------------------
(* Types                                                                   *)

\* The initial state has the types.
LEMMA TypeInit == Init => TypeOK
<1> SUFFICES ASSUME Init PROVE TypeOK
  OBVIOUS
<1>1. handed \in [Trades -> Nat]
  BY DEF Init
<1>2. <<>> \in Seq(Task) /\ Len(<<>>) = 0
  OBVIOUS
<1>3. queue \in Seq(Task) /\ Len(queue) =< QueueSize
  BY <1>2, WriterAssumption DEF Init
<1>4. batch \in Seq(Task) /\ Len(batch) =< BatchSize
  BY <1>2, WriterAssumption DEF Init
<1> QED
  BY <1>1, <1>3, <1>4 DEF Init, TypeOK

\* Every step keeps the types.
LEMMA TypeNext == TypeOK /\ [Next]_vars => TypeOK'
<1> SUFFICES ASSUME TypeOK, [Next]_vars PROVE TypeOK'
  OBVIOUS
<1> USE DEF TypeOK
<1>1. CASE UNCHANGED vars
  BY <1>1 DEF vars
<1>2. ASSUME NEW t \in Trades, Write(t) PROVE TypeOK'
  <2> DEFINE task == TaskOf(t, handed[t] + 1)
  <2>1. task \in Task
    BY TaskParts
  <2>2. CASE Len(queue) < QueueSize
    <3>1. queue' = Append(queue, task) /\ lost' = lost
      BY <1>2, <2>2 DEF Write, Enqueue
    <3>2. queue' \in Seq(Task) /\ Len(queue') =< QueueSize
      BY <2>1, <2>2, <3>1, AppendTask, WriterAssumption
    <3> QED
      BY <1>2, <3>1, <3>2 DEF Write
  <2>3. CASE ~(Len(queue) < QueueSize)
    BY <1>2, <2>1, <2>3 DEF Write, Enqueue
  <2> QED
    BY <2>2, <2>3
<1>3. CASE Loop \/ Nothing \/ Begin \/ Commit \/ Stop \/ Die
  BY <1>3 DEF Loop, Nothing, Begin, Commit, Stop, Die, AfterBatch
<1>4. CASE TakeFirst
  BY <1>4, HeadTail, OneTask, WriterAssumption DEF TakeFirst
<1>5. CASE TakeMore
  BY <1>5, HeadTail, AppendTask, WriterAssumption DEF TakeMore
<1>6. CASE Insert
  <2>1. Tail(batch) \in Seq(Task) /\ Len(Tail(batch)) =< BatchSize
    BY <1>6, HeadTail, WriterAssumption DEF Insert, Applying
  <2> QED
    BY <1>6, <2>1 DEF Insert
<1>7. CASE Update
  <2>1. /\ Tail(batch) \in Seq(Task) /\ Len(Tail(batch)) =< BatchSize
        /\ Head(batch) \in Task /\ Head(batch).write \in Nat
    <3>1. batch # <<>>
      BY <1>7 DEF Update, Applying
    <3>2. Head(batch) \in Task /\ Tail(batch) \in Seq(Task) /\ Len(Tail(batch)) = Len(batch) - 1
      BY <3>1, HeadTail
    <3>3. Head(batch).write \in Nat
      BY <3>2 DEF Task
    <3> QED
      BY <3>2, <3>3, WriterAssumption
  <2>2. txn' \in [Trades -> Nat] /\ ignored' \subseteq Task
    BY <1>7, <2>1 DEF Update
  <2> QED
    BY <1>7, <2>1, <2>2 DEF Update
<1>8. CASE Fail
  <2>1. TasksIn(batch) \subseteq Task
    BY DEF TasksIn
  <2>2. InTransaction \subseteq Task
    BY WriterAssumption DEF InTransaction, Task
  <2>3. <<>> \in Seq(Task) /\ Len(<<>>) =< BatchSize
    BY WriterAssumption
  <2> QED
    BY <1>8, <2>1, <2>2, <2>3 DEF Fail, AfterBatch
<1> QED
  BY <1>1, <1>2, <1>3, <1>4, <1>5, <1>6, <1>7, <1>8 DEF Next, Work

-----------------------------------------------------------------------------
(* Order                                                                   *)

\* At the start nothing waits.
LEMMA OrderInit == Init => WritesInOrder
BY DEF Init, WritesInOrder, Increasing, Before, Between, View

\* The worker sees a table.
LEMMA ViewType == TypeOK => View \in [Trades -> Nat]
BY DEF TypeOK, View

\* A write handed over is the newest of its trade.
LEMMA OrderWrite ==
  ASSUME TypeOK, WritesInOrder, NEW t \in Trades, Write(t)
  PROVE  WritesInOrder'
<1> DEFINE task == TaskOf(t, handed[t] + 1)
<1>1. task \in Task /\ task.trade = t /\ task.write = handed[t] + 1
  BY TaskParts DEF TypeOK
<1>2. /\ handed' = [handed EXCEPT ![t] = @ + 1]
      /\ View' = View /\ UNCHANGED <<batch, txn, db>>
  BY DEF Write, View
<1>3. /\ handed \in [Trades -> Nat] /\ handed' \in [Trades -> Nat]
      /\ \A u \in Trades : handed[u] =< handed'[u]
  BY <1>2 DEF TypeOK
<1>4. /\ View \in [Trades -> Nat] /\ db \in [Trades -> Nat]
      /\ \A u \in Trades : db[u] =< View[u] /\ View[u] =< handed[u]
  BY ViewType DEF TypeOK, WritesInOrder
<1>5. Between(View', batch', handed')
  <2>1. batch \in Seq(Task) /\ Between(View, batch, handed)
    BY DEF TypeOK, WritesInOrder
  <2>2. \A u \in Trades : View[u] =< View[u] /\ handed[u] =< handed'[u]
    BY <1>3, <1>4
  <2>3. Between(View, batch, handed')
    BY <1>3, <1>4, <2>1, <2>2, BetweenWider, ZenonT(30)
  <2> QED
    BY <1>2, <2>3
<1>9. queue \in Seq(Task) /\ Between(View, queue, handed')
  <2>1. queue \in Seq(Task) /\ Between(View, queue, handed)
    BY DEF TypeOK, WritesInOrder
  <2>2. \A u \in Trades : View[u] =< View[u] /\ handed[u] =< handed'[u]
    BY <1>3, <1>4
  <2> QED
    BY <1>3, <1>4, <2>1, <2>2, BetweenWider, ZenonT(30)
<1>6. CASE queue' = queue
  <2>1. Between(View', queue', handed')
    BY <1>2, <1>6, <1>9
  <2> QED
    BY <1>2, <1>3, <1>4, <1>5, <1>6, <2>1 DEF WritesInOrder
<1>7. CASE queue' = Append(queue, task)
  <2>1. /\ \A i \in DOMAIN queue' :
             queue'[i] = IF i = Len(queue) + 1 THEN task ELSE queue[i]
        /\ DOMAIN queue' = DOMAIN queue \cup {Len(queue) + 1}
        /\ \A i \in DOMAIN queue : i \in Int /\ i < Len(queue) + 1
        /\ Len(queue) \in Nat
    BY <1>1, <1>7, <1>9, AppendTask, Elements
  <2>2. \A i \in DOMAIN queue : queue[i].trade = t => queue[i].write < task.write
    BY <1>1, <1>3, <1>9, Elements DEF WritesInOrder, Between
  <2>3. Increasing(queue')
    <3>1. Increasing(queue)
      BY DEF WritesInOrder
    <3> SUFFICES ASSUME NEW i \in DOMAIN queue', NEW j \in DOMAIN queue', i < j,
                        queue'[i].trade = queue'[j].trade
                 PROVE  queue'[i].write < queue'[j].write
      BY DEF Increasing
    <3>2. i \in DOMAIN queue /\ queue'[i] = queue[i]
      BY <2>1
    <3>3. CASE j \in DOMAIN queue
      BY <2>1, <3>1, <3>2, <3>3 DEF Increasing
    <3>4. CASE j = Len(queue) + 1
      BY <1>1, <2>1, <2>2, <3>2, <3>4
    <3> QED
      BY <2>1, <3>3, <3>4
  <2>4. \A i \in DOMAIN batch : batch[i].trade = t => batch[i].write < task.write
    <3>1. batch \in Seq(Task)
      BY DEF TypeOK
    <3> QED
      BY <1>1, <1>3, <3>1, Elements DEF WritesInOrder, Between
  <2>5. Before(batch', queue')
    BY <1>1, <1>2, <2>1, <2>4 DEF WritesInOrder, Before
  <2>6. Between(View', queue', handed')
    <3>2. View[t] < task.write /\ task.write =< handed'[t]
      BY <1>1, <1>2, <1>3, <1>4
    <3> QED
      BY <1>1, <1>2, <1>9, <2>1, <3>2 DEF Between
  <2> QED
    BY <1>2, <1>3, <1>4, <1>5, <2>3, <2>5, <2>6 DEF WritesInOrder
<1> QED
  BY <1>6, <1>7 DEF Write, Enqueue

\* What leaves the queue joins the end of the batch.
LEMMA OrderTake ==
  ASSUME TypeOK, WritesInOrder, TakeFirst \/ TakeMore,
         TakeFirst => batch = <<>>
  PROVE  WritesInOrder'
<1> DEFINE task == Head(queue)
<1>1. queue # <<>> /\ queue' = Tail(queue) /\ UNCHANGED <<handed, txn, db>> /\ View' = View
  BY DEF TakeFirst, TakeMore, View
<1>2. task \in Task /\ task = queue[1] /\ 1 \in DOMAIN queue
  BY <1>1, HeadTail DEF TypeOK
<1>3. \A i \in DOMAIN queue' : i + 1 \in DOMAIN queue /\ queue'[i] = queue[i + 1]
  BY <1>1, HeadTail DEF TypeOK
<1>4. /\ Increasing(queue')
      /\ \A i \in DOMAIN queue' : queue'[i].trade = task.trade => task.write < queue'[i].write
  BY <1>1, TailOrdered DEF TypeOK, WritesInOrder
<1>5. Between(View', queue', handed')
  BY <1>1, <1>3 DEF WritesInOrder, Between
<1>6. View[task.trade] < task.write /\ task.write =< handed[task.trade]
  BY <1>2 DEF WritesInOrder, Between
<1>7. CASE TakeFirst
  <2>1. batch' = <<task>> /\ DOMAIN batch' = {1} /\ batch'[1] = task
    BY <1>7, <1>2, OneTask DEF TakeFirst
  <2>2. Increasing(batch') /\ Before(batch', queue') /\ Between(View', batch', handed')
    BY <1>1, <1>4, <1>6, <2>1 DEF Increasing, Before, Between
  <2> QED
    BY <1>1, <1>4, <1>5, <2>2 DEF WritesInOrder
<1>8. CASE TakeMore
  <2>1. /\ \A i \in DOMAIN batch' :
             batch'[i] = IF i = Len(batch) + 1 THEN task ELSE batch[i]
        /\ DOMAIN batch' = DOMAIN batch \cup {Len(batch) + 1}
        /\ \A i \in DOMAIN batch : i < Len(batch) + 1
    BY <1>8, <1>2, AppendTask DEF TypeOK, TakeMore
  <2>2. \A i \in DOMAIN batch : batch[i].trade = task.trade => batch[i].write < task.write
    BY <1>2 DEF WritesInOrder, Before
  <2>3. Increasing(batch')
    BY <2>1, <2>2 DEF WritesInOrder, Increasing, TypeOK
  <2>4. Before(batch', queue')
    BY <1>3, <1>4, <2>1 DEF WritesInOrder, Before
  <2>5. Between(View', batch', handed')
    BY <1>1, <1>6, <2>1 DEF WritesInOrder, Between
  <2> QED
    BY <1>1, <1>4, <1>5, <2>3, <2>4, <2>5 DEF WritesInOrder
<1> QED
  BY <1>7, <1>8

\* The worker applies the oldest task it has: the view moves up to it and stays
\* behind all others.
LEMMA OrderApply ==
  ASSUME TypeOK, WritesInOrder, Insert \/ Update
  PROVE  WritesInOrder'
<1> DEFINE task == Head(batch)
<1>1. /\ batch # <<>> /\ batch' = Tail(batch) /\ UNCHANGED <<handed, queue, db>>
      /\ View = txn /\ View' = txn'
  BY DEF Insert, Update, Applying, View
<1>2. /\ task \in Task /\ task = batch[1] /\ 1 \in DOMAIN batch
      /\ task.trade \in Trades /\ task.write \in Nat
  BY <1>1, HeadTail DEF TypeOK, Task
<1>3. txn' = txn \/ txn' = [txn EXCEPT ![task.trade] = task.write]
  BY DEF Insert, Update
<1>4. \A i \in DOMAIN batch' : i + 1 \in DOMAIN batch /\ batch'[i] = batch[i + 1]
  BY <1>1, HeadTail DEF TypeOK
<1>5. /\ Increasing(batch')
      /\ \A i \in DOMAIN batch' : batch'[i].trade = task.trade => task.write < batch'[i].write
  BY <1>1, TailOrdered DEF TypeOK, WritesInOrder
<1>6. Before(batch', queue')
  BY <1>1, <1>4 DEF WritesInOrder, Before
<1>7. \A i \in DOMAIN queue : queue[i].trade = task.trade => task.write < queue[i].write
  BY <1>2 DEF WritesInOrder, Before
<1>8. txn \in [Trades -> Nat] /\ batch \in Seq(Task) /\ queue \in Seq(Task)
  BY DEF TypeOK
<1>14. \A t \in Trades : txn'[t] = txn[t] \/ (t = task.trade /\ txn'[t] = task.write)
  BY <1>2, <1>3, <1>8
<1>9. Between(View', batch', handed')
  <2> SUFFICES ASSUME NEW i \in DOMAIN batch'
               PROVE  /\ txn'[batch'[i].trade] < batch'[i].write
                      /\ batch'[i].write =< handed[batch'[i].trade]
    BY <1>1 DEF Between
  <2>1. batch'[i].trade \in Trades
    BY <1>4, <1>8, Elements
  <2>2. txn[batch'[i].trade] < batch'[i].write /\ batch'[i].write =< handed[batch'[i].trade]
    BY <1>1, <1>4 DEF WritesInOrder, Between
  <2> QED
    BY <1>5, <1>14, <2>1, <2>2
<1>10. Between(View', queue', handed')
  <2> SUFFICES ASSUME NEW i \in DOMAIN queue
               PROVE  /\ txn'[queue[i].trade] < queue[i].write
                      /\ queue[i].write =< handed[queue[i].trade]
    BY <1>1 DEF Between
  <2>1. queue[i].trade \in Trades
    BY <1>8, Elements
  <2>2. txn[queue[i].trade] < queue[i].write /\ queue[i].write =< handed[queue[i].trade]
    BY <1>1 DEF WritesInOrder, Between
  <2> QED
    BY <1>7, <1>14, <2>1, <2>2
<1>11. View[task.trade] < task.write /\ task.write =< handed[task.trade]
  BY <1>2 DEF WritesInOrder, Between
<1>12. /\ db \in [Trades -> Nat] /\ handed \in [Trades -> Nat]
       /\ \A t \in Trades : db[t] =< txn[t] /\ txn[t] =< handed[t]
  BY <1>1 DEF TypeOK, WritesInOrder
<1>13. \A t \in Trades : db'[t] =< View'[t] /\ View'[t] =< handed'[t]
  <2> SUFFICES ASSUME NEW t \in Trades
               PROVE  db[t] =< txn'[t] /\ txn'[t] =< handed[t]
    BY <1>1
  <2>1. CASE txn'[t] = txn[t]
    BY <1>12, <2>1
  <2>2. CASE t = task.trade /\ txn'[t] = task.write
    BY <1>1, <1>2, <1>8, <1>11, <1>12, <2>2
  <2> QED
    BY <1>14, <2>1, <2>2
<1> QED
  BY <1>1, <1>5, <1>6, <1>9, <1>10, <1>13 DEF WritesInOrder

\* Between two batches, and after an error, the worker sees the committed table.
LEMMA OrderElse ==
  ASSUME TypeOK, WritesInOrder,
         Loop \/ Nothing \/ Begin \/ Commit \/ Fail \/ Stop \/ Die
  PROVE  WritesInOrder'
<1>1. /\ UNCHANGED <<handed, queue>> /\ (batch' = batch \/ batch' = <<>>)
      /\ View' = View \/ View' = db
      /\ db' = View' \/ (db' = db /\ View' = View) \/ db' = db
  BY DEF Loop, Nothing, Begin, Commit, Fail, Stop, Die, View, AfterBatch
<1>2. \A t \in Trades : db'[t] =< View'[t]
  BY <1>1 DEF TypeOK, WritesInOrder, View
<1>3. /\ View \in [Trades -> Nat] /\ View' \in [Trades -> Nat] /\ handed \in [Trades -> Nat]
      /\ queue \in Seq(Task) /\ batch \in Seq(Task)
  BY <1>1, ViewType DEF TypeOK
<1>6. \A t \in Trades : View'[t] =< View[t]
  BY <1>1, <1>3 DEF TypeOK, WritesInOrder
<1>4. Between(View', queue, handed) /\ Between(View', batch, handed)
  <2>1. Between(View, queue, handed) /\ Between(View, batch, handed)
    BY DEF WritesInOrder
  <2>2. \A t \in Trades : handed[t] =< handed[t]
    BY <1>3
  <2>3. Between(View', queue, handed)
    BY <1>3, <1>6, <2>1, <2>2, BetweenWider
  <2>4. Between(View', batch, handed)
    BY <1>3, <1>6, <2>1, <2>2, BetweenWider
  <2> QED
    BY <2>3, <2>4
<1>5. \A t \in Trades : View'[t] =< handed[t]
  <2>1. \A t \in Trades : View[t] =< handed[t]
    BY DEF WritesInOrder
  <2> QED
    BY <1>3, <1>6, <2>1
<1> QED
  BY <1>1, <1>2, <1>4, <1>5 DEF WritesInOrder, Between, Before, Increasing

\* A batch is taken from the start only.
BatchEmpty == pc \in {"top", "get"} => batch = <<>>

\* The three parts of the invariant hold together.
WriterInv == TypeOK /\ BatchEmpty /\ WritesInOrder

\* Every step keeps the order of writes.
LEMMA OrderNext == WriterInv /\ [Next]_vars => WriterInv'
<1> SUFFICES ASSUME WriterInv, [Next]_vars PROVE WriterInv'
  OBVIOUS
<1>1. TypeOK'
  BY TypeNext DEF WriterInv
<1>2. BatchEmpty'
  BY DEF WriterInv, BatchEmpty, Next, Work, vars, Write, Loop, TakeFirst, Nothing,
         TakeMore, Begin, Insert, Update, Applying, Commit, Fail, Stop, Die, AfterBatch
<1>3. WritesInOrder'
  <2>1. CASE UNCHANGED vars
    BY <2>1 DEF vars, WriterInv, WritesInOrder, Increasing, Before, Between, View
  <2>2. CASE TakeFirst \/ TakeMore
    BY <2>2, OrderTake DEF WriterInv, BatchEmpty, TakeFirst
  <2> QED
    BY <2>1, <2>2, OrderWrite, OrderApply, OrderElse DEF WriterInv, Next, Work
<1> QED
  BY <1>1, <1>2, <1>3 DEF WriterInv

\* Writes wait in the order they were handed over and behind the rows, in every
\* reachable state.
THEOREM OrderKept == Spec => []WritesInOrder
<1>1. Init => WriterInv
  BY TypeInit, OrderInit DEF WriterInv, BatchEmpty, Init
<1>2. WriterInv => WritesInOrder
  BY DEF WriterInv
<1> QED
  BY <1>1, <1>2, OrderNext, PTL DEF Spec

\* The variables always have their types: batch and queue never exceed their sizes.
THEOREM WriterTypes == Spec => []TypeOK
<1> QED
  BY TypeInit, TypeNext, PTL DEF Spec

\* No committed row ever goes back to an older write.
THEOREM RowsNeverGoBack == Spec => RowsAdvance
<1>1. TypeOK /\ WritesInOrder /\ [Next]_vars
        => [\A t \in Trades : db[t] =< db'[t]]_db
  <2> SUFFICES ASSUME TypeOK, WritesInOrder, [Next]_vars, db' # db
               PROVE  \A t \in Trades : db[t] =< db'[t]
    OBVIOUS
  <2>1. Commit
    BY DEF Next, Work, vars, Write, Loop, TakeFirst, Nothing, TakeMore, Begin,
           Insert, Update, Fail, Stop, Die
  <2> QED
    BY <2>1 DEF Commit, WritesInOrder, View
<1> QED
  BY <1>1, OrderKept, WriterTypes, PTL DEF Spec, RowsAdvance

-----------------------------------------------------------------------------
(* What is lost                                                            *)

\* A write is lost once: it was handed over before, and it does not wait any more.
LostOnce ==
  /\ \A task \in lost : task.write =< handed[task.trade]
  /\ TasksIn(queue) \cap lost = {}
  /\ TasksIn(batch) \cap lost = {}

\* The bound on writes spares the rows that were there before: nothing is open on them.
WritesBounded == \A t \in Trades : handed[t] =< MaxWrites \/ db[t] = handed[t]

LossInv == LostOnce /\ WritesBounded /\ NothingElseIsLost

\* The tasks of a sequence: of an empty one, of one with a task added at the end, and
\* of a head and a tail.
LEMMA TasksOf ==
  ASSUME NEW s \in Seq(Task)
  PROVE  /\ s = <<>> => TasksIn(s) = {}
         /\ \A task \in Task : TasksIn(Append(s, task)) = TasksIn(s) \cup {task}
         /\ s # <<>> => TasksIn(s) = {Head(s)} \cup TasksIn(Tail(s))
         /\ TasksIn(s) \subseteq Task
<1>1. s = <<>> => TasksIn(s) = {}
  BY DEF TasksIn
<1>2. ASSUME NEW task \in Task
      PROVE  TasksIn(Append(s, task)) = TasksIn(s) \cup {task}
  BY AppendTask DEF TasksIn
<1>3. ASSUME s # <<>>
      PROVE  TasksIn(s) = {Head(s)} \cup TasksIn(Tail(s))
  <2>1. \A i \in DOMAIN s : i = 1 \/ (i - 1 \in DOMAIN Tail(s) /\ Tail(s)[i - 1] = s[i])
    BY <1>3
  <2>2. ASSUME NEW i \in DOMAIN s
        PROVE  s[i] = Head(s) \/ \E j \in DOMAIN Tail(s) : Tail(s)[j] = s[i]
    BY <1>3, <2>1, HeadTail
  <2>3. {Head(s)} \cup TasksIn(Tail(s)) \subseteq TasksIn(s)
    BY <1>3, HeadTail DEF TasksIn
  <2> QED
    BY <2>2, <2>3 DEF TasksIn
<1>4. TasksIn(s) \subseteq Task
  BY Elements DEF TasksIn
<1> QED
  BY <1>1, <1>2, <1>3, <1>4

\* A task is its trade and its number.
LEMMA TaskEqual ==
  ASSUME NEW task \in Task
  PROVE  task.trade \in Trades /\ task.write \in Nat /\ task = TaskOf(task.trade, task.write)
BY DEF Task, TaskOf

\* A waiting task is newer than the row and was handed over.
LEMMA WaitingTask ==
  ASSUME WriterInv, NEW task \in TasksIn(queue) \cup TasksIn(batch)
  PROVE  /\ task \in Task
         /\ View[task.trade] < task.write /\ task.write =< handed[task.trade]
<1>1. queue \in Seq(Task) /\ batch \in Seq(Task)
  BY DEF WriterInv, TypeOK
<1>2. Between(View, queue, handed) /\ Between(View, batch, handed)
  BY DEF WriterInv, WritesInOrder
<1> QED
  BY <1>1, <1>2, TasksOf DEF Between, TasksIn

\* Initially nothing is lost.
LEMMA LossInit == Init => LossInv
<1> SUFFICES ASSUME Init PROVE LossInv
  OBVIOUS
<1>1. TasksIn(queue) = {} /\ TasksIn(batch) = {} /\ lost = {} /\ ignored = {}
      /\ View = handed
  BY DEF Init, TasksIn, View
<1>2. LostOnce /\ WritesBounded
  BY <1>1 DEF Init, LostOnce, WritesBounded
<1>3. NothingElseIsLost
  <2>1. ASSUME NEW t \in Trades, NEW n \in 1 .. handed[t]
        PROVE  n =< View[t]
    BY <1>1, <2>1 DEF Init
  <2> QED
    BY <1>1, <2>1 DEF NothingElseIsLost
<1> QED
  BY <1>2, <1>3 DEF LossInv

\* A write that is handed over waits or is lost.
LEMMA LossWrite ==
  ASSUME WriterInv, LossInv, NEW t \in Trades, Write(t)
  PROVE  LossInv'
<1> DEFINE task == TaskOf(t, handed[t] + 1)
<1>1. task \in Task /\ task.trade = t /\ task.write = handed[t] + 1
  BY TaskParts DEF WriterInv, TypeOK
<1>2. /\ handed' = [handed EXCEPT ![t] = @ + 1] /\ View' = View
      /\ UNCHANGED <<batch, txn, db, pc>> /\ handed[t] < MaxWrites
  BY DEF Write, View
<1>3. /\ handed \in [Trades -> Nat] /\ View \in [Trades -> Nat]
      /\ \A u \in Trades : View[u] =< handed[u]
      /\ queue \in Seq(Task) /\ lost \subseteq Task /\ ignored' = ignored
  BY ViewType DEF WriterInv, TypeOK, WritesInOrder, Write
<1>4. task \notin lost /\ task \notin TasksIn(queue) /\ task \notin TasksIn(batch)
  BY <1>1, <1>3, WaitingTask DEF LossInv, LostOnce
<1>5. \/ lost' = lost /\ TasksIn(queue') = TasksIn(queue) \cup {task}
      \/ lost' = lost \cup {task} /\ TasksIn(queue') = TasksIn(queue)
  BY <1>1, <1>3, TasksOf DEF Write, Enqueue
<1>6. LostOnce'
  <2>1. ASSUME NEW l \in lost'
        PROVE  l.write =< handed'[l.trade]
    <3>1. CASE l \in lost
      <4>1. l.trade \in Trades /\ l.write \in Nat /\ l.write =< handed[l.trade]
        BY <1>3, <3>1, TaskEqual DEF LossInv, LostOnce
      <4> QED
        BY <1>2, <1>3, <4>1
    <3>2. CASE l = task
      BY <1>1, <1>2, <1>3, <3>2
    <3> QED
      BY <1>5, <2>1, <3>1, <3>2
  <2>2. TasksIn(queue') \cap lost' = {} /\ TasksIn(batch') \cap lost' = {}
    BY <1>2, <1>4, <1>5 DEF LossInv, LostOnce
  <2> QED
    BY <2>1, <2>2 DEF LostOnce
<1>7. WritesBounded'
  BY <1>2, <1>3, WriterAssumption DEF LossInv, WritesBounded
<1>8. ASSUME NEW u \in Trades, TaskOf(u, 1) \in lost'
      PROVE  View'[u] = 0
  <2>1. CASE TaskOf(u, 1) \in lost
    BY <1>2, <2>1 DEF LossInv, NothingElseIsLost
  <2>2. CASE TaskOf(u, 1) = task
    <3>1. u = t /\ handed[t] + 1 = 1
      BY <1>1, <2>2, TaskParts
    <3> QED
      BY <1>2, <1>3, <3>1
  <2> QED
    BY <1>5, <1>8, <2>1, <2>2
<1>9. ASSUME NEW u \in Trades, pc' # "dead", NEW n \in 1 .. handed'[u]
      PROVE  \/ n =< View'[u]
             \/ TaskOf(u, n) \in TasksIn(queue') \cup TasksIn(batch') \cup lost' \cup ignored'
  <2>1. CASE n \in 1 .. handed[u]
    BY <1>2, <1>3, <1>5, <1>9, <2>1 DEF LossInv, NothingElseIsLost
  <2>2. CASE n \notin 1 .. handed[u]
    <3>1. u = t /\ n = handed[t] + 1
      BY <1>2, <1>3, <2>2
    <3> QED
      BY <1>5, <3>1
  <2> QED
    BY <2>1, <2>2
<1>10. \A l \in ignored' : TaskOf(l.trade, 1) \in lost'
  BY <1>3, <1>5 DEF LossInv, NothingElseIsLost
<1> QED
  BY <1>6, <1>7, <1>8, <1>9, <1>10 DEF LossInv, NothingElseIsLost

\* A task that moves from the queue to the batch still waits.
LEMMA LossTake ==
  ASSUME WriterInv, LossInv, TakeFirst \/ TakeMore
  PROVE  LossInv'
<1>1. /\ queue # <<>> /\ queue' = Tail(queue)
      /\ UNCHANGED <<handed, txn, db, lost, ignored>> /\ View' = View /\ pc # "dead"
  BY DEF TakeFirst, TakeMore, View
<1>2. /\ queue \in Seq(Task) /\ batch \in Seq(Task) /\ Head(queue) \in Task
  BY <1>1, HeadTail DEF WriterInv, TypeOK
<1>3. TasksIn(queue) = {Head(queue)} \cup TasksIn(queue')
  BY <1>1, <1>2, TasksOf
<1>4. TasksIn(batch') = TasksIn(batch) \cup {Head(queue)}
  <2>1. CASE TakeFirst
    <3>1. TasksIn(batch) = {}
      BY <1>2, <2>1, TasksOf DEF TakeFirst, WriterInv, BatchEmpty
    <3>2. TasksIn(batch') = {Head(queue)}
      BY <1>2, <2>1, OneTask DEF TakeFirst, TasksIn
    <3> QED
      BY <3>1, <3>2
  <2>2. CASE TakeMore
    BY <1>2, <2>2, TasksOf DEF TakeMore
  <2> QED
    BY <2>1, <2>2
<1>5. LostOnce' /\ WritesBounded'
  BY <1>1, <1>3, <1>4 DEF LossInv, LostOnce, WritesBounded
<1>6. NothingElseIsLost'
  BY <1>1, <1>3, <1>4 DEF LossInv, NothingElseIsLost
<1> QED
  BY <1>5, <1>6 DEF LossInv

\* A task that is applied shows in the row, or is lost because there is none.
LEMMA LossApply ==
  ASSUME WriterInv, LossInv, Insert \/ Update
  PROVE  LossInv'
<1> DEFINE task == Head(batch)
<1>1. /\ batch # <<>> /\ batch' = Tail(batch) /\ UNCHANGED <<handed, queue, db, pc, lost>>
      /\ View = txn /\ View' = txn' /\ pc # "dead"
  BY DEF Insert, Update, Applying, View
<1>2. /\ batch \in Seq(Task) /\ queue \in Seq(Task) /\ lost \subseteq Task
      /\ txn \in [Trades -> Nat] /\ handed \in [Trades -> Nat]
  BY DEF WriterInv, TypeOK
<1>3. /\ TasksIn(batch) = {task} \cup TasksIn(batch') /\ task \in Task
      /\ task.trade \in Trades /\ task.write \in Nat
      /\ task = TaskOf(task.trade, task.write)
  BY <1>1, <1>2, TasksOf, HeadTail, TaskEqual
<1>4. task \notin TasksIn(batch') /\ task \notin TasksIn(queue)
  <2>1. \A i \in DOMAIN batch' : batch'[i].trade = task.trade => task.write < batch'[i].write
    BY <1>1, <1>2, TailOrdered DEF WriterInv, WritesInOrder
  <2>2. \A i \in DOMAIN queue : queue[i].trade = task.trade => task.write < queue[i].write
    BY <1>1, <1>2, HeadTail DEF WriterInv, WritesInOrder, Before
  <2> QED
    BY <1>3, <2>1, <2>2 DEF TasksIn
<1>5. txn[task.trade] < task.write /\ task.write =< handed[task.trade]
  BY <1>1, <1>3, WaitingTask
<1>6. \/ /\ ignored' = ignored /\ txn' = [txn EXCEPT ![task.trade] = task.write]
         /\ task.write = 1 \/ txn[task.trade] # 0
      \/ /\ ignored' = ignored \cup {task} /\ txn' = txn
         /\ task.write > 1 /\ txn[task.trade] = 0
  BY DEF Insert, Update
<1>7. \A t \in Trades : txn[t] =< txn'[t]
  <2>1. txn' = txn \/ txn' = [txn EXCEPT ![task.trade] = task.write]
    BY <1>6
  <2>2. \A t \in Trades : txn'[t] = txn[t] \/ (t = task.trade /\ txn'[t] = task.write)
    BY <1>2, <1>3, <2>1
  <2> QED
    BY <1>2, <1>3, <1>5, <2>2
<1>8. LostOnce'
  BY <1>1, <1>3, <1>4, <1>5, <1>6 DEF LossInv, LostOnce
<1>9. WritesBounded'
  BY <1>1 DEF LossInv, WritesBounded
<1>10. ASSUME NEW t \in Trades, TaskOf(t, 1) \in lost'
       PROVE  View'[t] = 0
  <2>1. TaskOf(t, 1) \in lost
    BY <1>1, <1>10
  <2>2. txn[t] = 0
    BY <1>1, <2>1 DEF LossInv, NothingElseIsLost
  <2>3. ~(t = task.trade /\ task.write = 1)
    BY <1>3, <2>1 DEF LossInv, LostOnce
  <2> QED
    BY <1>1, <1>2, <1>3, <1>6, <2>2, <2>3
<1>11. ASSUME NEW t \in Trades, NEW n \in 1 .. handed[t]
       PROVE  \/ n =< txn'[t]
              \/ TaskOf(t, n) \in TasksIn(queue) \cup TasksIn(batch') \cup lost' \cup ignored'
  <2>1. \/ n =< txn[t]
        \/ TaskOf(t, n) \in TasksIn(queue) \cup TasksIn(batch) \cup lost \cup ignored
    BY <1>1, <1>11 DEF LossInv, NothingElseIsLost
  <2>2. CASE n =< txn[t]
    <3>1. txn[t] =< txn'[t] /\ txn[t] \in Nat /\ txn'[t] \in Nat
      BY <1>2, <1>3, <1>6, <1>7
    <3> QED
      BY <2>2, <3>1
  <2>3. CASE TaskOf(t, n) = task
    <3>1. t = task.trade /\ n = task.write
      BY <2>3, TaskParts
    <3> QED
      BY <1>2, <1>3, <1>6, <2>3, <3>1
  <2>4. TaskOf(t, n) \in TasksIn(batch) => TaskOf(t, n) = task \/ TaskOf(t, n) \in TasksIn(batch')
    BY <1>3
  <2>5. ignored \subseteq ignored' /\ lost' = lost
    BY <1>1, <1>6
  <2> QED
    BY <2>1, <2>2, <2>3, <2>4, <2>5
<1>12. ASSUME txn[task.trade] = 0, task.write > 1
       PROVE  TaskOf(task.trade, 1) \in lost
  <2> DEFINE t == task.trade
  <2>1. 1 \in 1 .. handed[t] /\ ~(1 =< txn[t])
    BY <1>2, <1>3, <1>5, <1>12
  <2>2. TaskOf(t, 1) \in TasksIn(queue) \cup TasksIn(batch) \cup lost \cup ignored
    BY <1>1, <1>3, <2>1 DEF LossInv, NothingElseIsLost
  <2>3. TaskOf(t, 1) \notin TasksIn(queue)
    <3>1. \A i \in DOMAIN queue : queue[i].trade = t => task.write < queue[i].write
      BY <1>1, <1>2, HeadTail DEF WriterInv, WritesInOrder, Before
    <3>2. TaskOf(t, 1).trade = t /\ TaskOf(t, 1).write = 1
      BY <1>3, TaskParts
    <3> QED
      BY <1>3, <1>12, <3>1, <3>2 DEF TasksIn
  <2>4. TaskOf(t, 1) \notin TasksIn(batch)
    <3>1. \A i \in DOMAIN batch' : batch'[i].trade = t => task.write < batch'[i].write
      BY <1>1, <1>2, TailOrdered DEF WriterInv, WritesInOrder
    <3>2. TaskOf(t, 1).trade = t /\ TaskOf(t, 1).write = 1
      BY <1>3, TaskParts
    <3>3. TaskOf(t, 1) \notin TasksIn(batch')
      BY <1>3, <1>12, <3>1, <3>2 DEF TasksIn
    <3> QED
      BY <1>3, <1>12, <3>2, <3>3
  <2>5. TaskOf(t, 1) \in ignored => TaskOf(t, 1) \in lost
    BY <1>3, TaskParts DEF LossInv, NothingElseIsLost
  <2> QED
    BY <2>2, <2>3, <2>4, <2>5
<1>13. \A l \in ignored' : TaskOf(l.trade, 1) \in lost'
  BY <1>1, <1>6, <1>12 DEF LossInv, NothingElseIsLost
<1> QED
  BY <1>1, <1>8, <1>9, <1>10, <1>11, <1>13 DEF LossInv, NothingElseIsLost

\* A batch that fails is lost, with all that its transaction had written.
LEMMA LossFail ==
  ASSUME WriterInv, LossInv, Fail
  PROVE  LossInv'
<1>1. /\ lost' = lost \cup TasksIn(batch) \cup InTransaction /\ batch' = <<>>
      /\ UNCHANGED <<handed, queue, db, ignored>> /\ View = txn /\ View' = db /\ pc # "dead"
  BY DEF Fail, View, AfterBatch
<1>2. /\ batch \in Seq(Task) /\ queue \in Seq(Task) /\ lost \subseteq Task
      /\ txn \in [Trades -> Nat] /\ db \in [Trades -> Nat] /\ handed \in [Trades -> Nat]
      /\ \A t \in Trades : db[t] =< txn[t] /\ txn[t] =< handed[t]
  BY <1>1 DEF WriterInv, TypeOK, WritesInOrder
<1>3. ASSUME NEW task \in InTransaction
      PROVE  /\ task \in Task /\ task.trade \in Trades /\ task.write \in Nat
             /\ db[task.trade] < task.write /\ task.write =< txn[task.trade]
  BY WriterAssumption DEF InTransaction, Task
<1>4. TasksIn(batch') = {}
  BY <1>1 DEF TasksIn
<1>5. LostOnce'
  <2>1. ASSUME NEW l \in lost'
        PROVE  l.write =< handed[l.trade]
    <3>1. CASE l \in lost
      BY <3>1 DEF LossInv, LostOnce
    <3>2. CASE l \in TasksIn(batch)
      BY <3>2, WaitingTask
    <3>3. CASE l \in InTransaction
      <4>1. /\ l.trade \in Trades /\ l.write \in Nat /\ l.write =< txn[l.trade]
        BY <1>3, <3>3
      <4> QED
        BY <1>2, <4>1
    <3> QED
      BY <1>1, <3>1, <3>2, <3>3
  <2>2. ASSUME NEW q \in TasksIn(queue)
        PROVE  q \notin lost'
    <3>1. q \notin lost
      BY DEF LossInv, LostOnce
    <3>2. q \notin TasksIn(batch)
      <4>1. PICK i \in DOMAIN queue : q = queue[i]
        BY DEF TasksIn
      <4>2. \A j \in DOMAIN batch : batch[j] = queue[i] => batch[j].write < queue[i].write
        BY DEF WriterInv, WritesInOrder, Before
      <4>3. queue[i].write \in Nat
        BY <1>2, Elements
      <4> QED
        BY <4>1, <4>2, <4>3 DEF TasksIn
    <3>3. q \notin InTransaction
      <4>1. q \in Task /\ txn[q.trade] < q.write
        BY <1>1, WaitingTask
      <4>2. q.write \in Nat /\ txn[q.trade] \in Nat
        BY <1>2, <4>1, TaskEqual
      <4> QED
        BY <1>3, <4>1, <4>2
    <3> QED
      BY <1>1, <3>1, <3>2, <3>3
  <2> QED
    BY <1>1, <1>4, <2>1, <2>2 DEF LostOnce
<1>6. WritesBounded'
  BY <1>1 DEF LossInv, WritesBounded
<1>7. ASSUME NEW t \in Trades, TaskOf(t, 1) \in lost'
      PROVE  db[t] = 0
  <2>1. TaskOf(t, 1).write = 1 /\ TaskOf(t, 1).trade = t
    BY TaskParts
  <2>2. CASE TaskOf(t, 1) \in lost
    <3>1. txn[t] = 0
      BY <1>1, <2>2 DEF LossInv, NothingElseIsLost
    <3> QED
      BY <1>2, <3>1
  <2>3. CASE TaskOf(t, 1) \in TasksIn(batch)
    <3>1. txn[t] < 1
      BY <1>1, <2>1, <2>3, WaitingTask
    <3> QED
      BY <1>2, <3>1
  <2>4. CASE TaskOf(t, 1) \in InTransaction
    <3>1. db[t] < 1
      BY <1>3, <2>1, <2>4
    <3> QED
      BY <1>2, <3>1
  <2> QED
    BY <1>1, <1>7, <2>2, <2>3, <2>4
<1>8. ASSUME NEW t \in Trades, NEW n \in 1 .. handed[t]
      PROVE  n =< db[t] \/ TaskOf(t, n) \in TasksIn(queue) \cup lost' \cup ignored'
  <2>1. \/ n =< txn[t]
        \/ TaskOf(t, n) \in TasksIn(queue) \cup TasksIn(batch) \cup lost \cup ignored
    BY <1>1, <1>8 DEF LossInv, NothingElseIsLost
  <2>2. ASSUME n =< txn[t], ~(n =< db[t])
        PROVE  TaskOf(t, n) \in InTransaction
    <3>1. n \in Nat /\ db[t] < n /\ n =< txn[t] /\ n =< handed[t]
      BY <1>2, <1>8, <2>2
    <3>2. n =< MaxWrites
      <4>1. handed[t] =< MaxWrites
        <5>1. db[t] # handed[t]
          BY <1>2, <3>1
        <5> QED
          BY <5>1 DEF LossInv, WritesBounded
      <4> QED
        BY <1>2, <1>8, <3>1, <4>1, WriterAssumption
    <3>3. TaskOf(t, n) \in [trade : Trades, write : 1 .. MaxWrites]
      BY <1>8, <3>2, WriterAssumption DEF TaskOf
    <3>4. TaskOf(t, n).trade = t /\ TaskOf(t, n).write = n
      BY <3>1, TaskParts
    <3> QED
      BY <3>1, <3>3, <3>4 DEF InTransaction
  <2> QED
    BY <1>1, <2>1, <2>2
<1>9. \A l \in ignored' : TaskOf(l.trade, 1) \in lost'
  BY <1>1 DEF LossInv, NothingElseIsLost
<1> QED
  BY <1>1, <1>5, <1>6, <1>7, <1>8, <1>9 DEF LossInv, NothingElseIsLost

\* The other steps lose nothing; after the end of the process nothing more is applied.
LEMMA LossElse ==
  ASSUME WriterInv, LossInv, Loop \/ Nothing \/ Begin \/ Commit \/ Stop \/ Die
  PROVE  LossInv'
<1>1. /\ UNCHANGED <<handed, queue, batch, lost, ignored>>
      /\ View' = View \/ (pc' = "dead" /\ View' = db)
      /\ UNCHANGED db \/ (db' = txn /\ View = txn)
      /\ pc = "dead" => pc' = "dead"
  BY DEF Loop, Nothing, Begin, Commit, Stop, Die, AfterBatch, View
<1>2. /\ View \in [Trades -> Nat] /\ db \in [Trades -> Nat] /\ handed \in [Trades -> Nat]
      /\ \A t \in Trades : db[t] =< View[t] /\ View[t] =< handed[t]
  BY ViewType DEF WriterInv, TypeOK, WritesInOrder
<1>3. LostOnce'
  BY <1>1 DEF LossInv, LostOnce
<1>4. WritesBounded'
  <2> SUFFICES ASSUME NEW t \in Trades
               PROVE  handed[t] =< MaxWrites \/ db'[t] = handed[t]
    BY <1>1 DEF WritesBounded
  <2>1. handed[t] =< MaxWrites \/ db[t] = handed[t]
    BY DEF LossInv, WritesBounded
  <2>2. db'[t] = db[t] \/ db'[t] = View[t]
    BY <1>1
  <2>3. db[t] =< View[t] /\ View[t] =< handed[t] /\ db[t] \in Nat /\ View[t] \in Nat
    BY <1>2
  <2> QED
    BY <1>2, <2>1, <2>2, <2>3
<1>5. NothingElseIsLost'
  <2>1. ASSUME NEW t \in Trades, TaskOf(t, 1) \in lost
        PROVE  View'[t] = 0
    <3>1. View[t] = 0
      BY <2>1 DEF LossInv, NothingElseIsLost
    <3> QED
      BY <1>1, <1>2, <3>1
  <2>2. ASSUME pc' # "dead", NEW t \in Trades, NEW n \in 1 .. handed[t]
        PROVE  \/ n =< View'[t]
               \/ TaskOf(t, n) \in TasksIn(queue) \cup TasksIn(batch) \cup lost \cup ignored
    BY <1>1, <2>2 DEF LossInv, NothingElseIsLost
  <2>3. \A l \in ignored' : TaskOf(l.trade, 1) \in lost'
    BY <1>1 DEF LossInv, NothingElseIsLost
  <2> QED
    BY <1>1, <2>1, <2>2, <2>3 DEF NothingElseIsLost
<1> QED
  BY <1>3, <1>4, <1>5 DEF LossInv

\* A write that is handed over ends in its row, or in one of three losses: dropped by a
\* full queue or with a failed batch, both logged, or as an update of a row that is not
\* there, which nobody notices but which only follows the logged loss of the insert; and
\* no row grows out of the updates of such a trade (async_writer.py, apply_update).
THEOREM NoOtherLoss == Spec => []NothingElseIsLost
<1>1. Init => WriterInv /\ LossInv
  BY TypeInit, OrderInit, LossInit DEF WriterInv, BatchEmpty, Init
<1>2. WriterInv /\ LossInv /\ [Next]_vars => LossInv'
  <2> SUFFICES ASSUME WriterInv, LossInv, [Next]_vars PROVE LossInv'
    OBVIOUS
  <2>1. CASE UNCHANGED vars
    <3>1. UNCHANGED <<handed, queue, batch, txn, db, pc, lost, ignored>>
      BY <2>1 DEF vars
    <3> QED
      BY <3>1 DEF LossInv, LostOnce, WritesBounded, NothingElseIsLost, View
  <2> QED
    BY <2>1, LossWrite, LossTake, LossApply, LossFail, LossElse DEF Next, Work
<1>3. LossInv => NothingElseIsLost
  BY DEF LossInv
<1> QED
  BY <1>1, <1>2, <1>3, OrderNext, PTL DEF Spec
=============================================================================
