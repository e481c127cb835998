---------------------------- MODULE AsyncDbWriter ----------------------------
(***************************************************************************)
(* The non-blocking database writer (repository/async_writer.py) and the   *)
(* rows it writes (repository/trades_repo.py). Any thread hands it writes; *)
(* one thread takes them off a bounded FIFO queue in batches and applies   *)
(* each batch in one transaction.                                          *)
(*                                                                         *)
(* The writes of a trade are numbered in the order they are handed over:   *)
(* 1 is the insert of its row, the others are updates by primary key. A    *)
(* row is represented by the number of the write it shows, 0 for no row.   *)
(***************************************************************************)
EXTENDS Integers, Sequences

CONSTANTS
  Trades,
  Key,        \* Key[t]: the idempotency key of trade t
  Persisted,  \* the trades whose rows an earlier process left in the table
  QueueSize,  \* DB_WRITER_QUEUE_SIZE
  BatchSize,  \* DB_WRITER_BATCH_SIZE
  MaxWrites   \* bound: the writes handed over for one trade

ASSUME WriterAssumption ==
  /\ Persisted \subseteq Trades
  /\ QueueSize \in Nat \ {0} /\ BatchSize \in Nat \ {0} /\ MaxWrites \in Nat
  \* the unique index holds among the rows that are already there
  /\ \A t, u \in Persisted : Key[t] = Key[u] => t = u

VARIABLES
  handed,  \* handed[t]: how many writes of t were handed over
  queue,
  batch,   \* what the worker took off the queue and has not applied
  txn,     \* the table as the worker's open transaction sees it
  db,      \* the table as committed
  pc,      \* where the worker is; "dead" when the process is gone
  last,    \* the worker has left its loop and takes one last batch
  stop,    \* the stop event
  \* history
  lost,    \* the writes that were dropped, with an error in the log
  ignored  \* the updates that were executed and found no row

vars == <<handed, queue, batch, txn, db, pc, last, stop, lost, ignored>>

Task == [trade : Trades, write : Nat]

TaskOf(t, n) == [trade |-> t, write |-> n]

TasksIn(s) == {s[i] : i \in DOMAIN s}

Init ==
  /\ handed = [t \in Trades |-> IF t \in Persisted THEN 1 ELSE 0]
  /\ queue = <<>> /\ batch = <<>>
  /\ db = handed /\ txn = handed
  /\ pc = "top" /\ last = FALSE /\ stop = FALSE
  /\ lost = {} /\ ignored = {}

-----------------------------------------------------------------------------
(* The threads that hand writes over                                       *)

\* Mutant: the queue is a stack.
EnqueueFirst(task) ==
  IF Len(queue) < QueueSize THEN queue' = <<task>> \o queue /\ UNCHANGED lost
                            ELSE lost' = lost \cup {task} /\ UNCHANGED queue

\* A full queue drops the write.
Enqueue(task) ==
  IF Len(queue) < QueueSize THEN queue' = Append(queue, task) /\ UNCHANGED lost
                            ELSE lost' = lost \cup {task} /\ UNCHANGED queue

\* insert or update, by any thread, also after the stop event and after the
\* worker has ended.
Write(t) ==
  /\ pc # "dead"
  /\ t \notin Persisted /\ handed[t] < MaxWrites
  /\ handed' = [handed EXCEPT ![t] = @ + 1]
  /\ Enqueue(TaskOf(t, handed[t] + 1))
  /\ UNCHANGED <<batch, txn, db, pc, last, stop, ignored>>

-----------------------------------------------------------------------------
(* The worker                                                              *)

Loop ==
  /\ pc = "top"
  /\ pc' = "get" /\ last' = stop
  /\ UNCHANGED <<handed, queue, batch, txn, db, stop, lost, ignored>>

AfterBatch == pc' = IF last THEN "done" ELSE "top"

TakeFirst ==
  /\ pc = "get" /\ queue # <<>>
  /\ batch' = <<Head(queue)>> /\ queue' = Tail(queue)
  /\ pc' = "fill"
  /\ UNCHANGED <<handed, txn, db, last, stop, lost, ignored>>

\* Mutant: the worker ends when it finds nothing to do.
NothingEnds ==
  /\ pc = "get" /\ queue = <<>>
  /\ pc' = "done"
  /\ UNCHANGED <<handed, queue, batch, txn, db, last, stop, lost, ignored>>

\* get timed out, or get_nowait found nothing.
Nothing ==
  /\ pc = "get" /\ queue = <<>>
  /\ AfterBatch
  /\ UNCHANGED <<handed, queue, batch, txn, db, last, stop, lost, ignored>>

\* Mutant: the task is taken and not added to a batch that is full.
TakeMoreUnchecked ==
  /\ pc = "fill" /\ queue # <<>>
  /\ batch' = IF Len(batch) < BatchSize THEN Append(batch, Head(queue)) ELSE batch
  /\ queue' = Tail(queue)
  /\ UNCHANGED <<handed, txn, db, pc, last, stop, lost, ignored>>

TakeMore ==
  /\ pc = "fill" /\ queue # <<>> /\ Len(batch) < BatchSize
  /\ batch' = Append(batch, Head(queue)) /\ queue' = Tail(queue)
  /\ UNCHANGED <<handed, txn, db, pc, last, stop, lost, ignored>>

Begin ==
  /\ pc = "fill" /\ (Len(batch) = BatchSize \/ queue = <<>>)
  /\ txn' = db
  /\ pc' = "apply"
  /\ UNCHANGED <<handed, queue, batch, db, last, stop, lost, ignored>>

Conflicts(t) == \E u \in Trades \ {t} : txn[u] # 0 /\ Key[u] = Key[t]

Applying == pc = "apply" /\ batch # <<>>

Insert ==
  LET t == Head(batch).trade
  IN  /\ Applying /\ Head(batch).write = 1
      /\ ~Conflicts(t)
      /\ txn' = [txn EXCEPT ![t] = 1]
      /\ batch' = Tail(batch)
      /\ UNCHANGED <<handed, queue, db, pc, last, stop, lost, ignored>>

\* A blind UPDATE: without a row it changes nothing, and nobody notices.
Update ==
  LET task == Head(batch)
  IN  /\ Applying /\ task.write > 1
      /\ IF txn[task.trade] = 0
         THEN ignored' = ignored \cup {task} /\ UNCHANGED txn
         ELSE txn' = [txn EXCEPT ![task.trade] = task.write] /\ UNCHANGED ignored
      /\ batch' = Tail(batch)
      /\ UNCHANGED <<handed, queue, db, pc, last, stop, lost>>

Commit ==
  /\ pc = "apply" /\ batch = <<>>
  /\ db' = txn
  /\ AfterBatch
  /\ UNCHANGED <<handed, queue, batch, txn, last, stop, lost, ignored>>

\* The writes the open transaction has made.
InTransaction ==
  {task \in [trade : Trades, write : 1 .. MaxWrites] :
     db[task.trade] < task.write /\ task.write =< txn[task.trade]}

\* Any error rolls the transaction back and drops the whole batch: the insert of
\* a key that is there, a row that violates another constraint, a database that
\* cannot be reached. A commit that is done and reported as failed is a Commit:
\* only the log says otherwise.
Fail ==
  /\ pc = "apply"
  /\ lost' = lost \cup TasksIn(batch) \cup InTransaction
  /\ batch' = <<>> /\ txn' = db
  /\ AfterBatch
  /\ UNCHANGED <<handed, queue, db, last, stop, ignored>>

-----------------------------------------------------------------------------
(* The process                                                             *)

Stop ==
  /\ ~stop
  /\ stop' = TRUE
  /\ UNCHANGED <<handed, queue, batch, txn, db, pc, last, lost, ignored>>

\* A crash, or the main thread ends: the worker is a daemon thread.
Die ==
  /\ pc # "dead"
  /\ pc' = "dead" /\ txn' = db
  /\ UNCHANGED <<handed, queue, batch, db, last, stop, lost, ignored>>

Work ==
  \/ Loop \/ TakeFirst \/ Nothing \/ TakeMore \/ Begin
  \/ Insert \/ Update \/ Commit \/ Fail

Next ==
  \/ \E t \in Trades : Write(t)
  \/ Work
  \/ Stop \/ Die

Spec == Init /\ [][Next]_vars

\* The worker thread keeps running while the process lives.
FairSpec == Spec /\ WF_vars(Work)

-----------------------------------------------------------------------------
(* Properties                                                              *)

\* The variables have the values their declarations describe. No more than
\* BatchSize tasks are taken at once, and no more than QueueSize wait.
TypeOK ==
  /\ handed \in [Trades -> Nat]
  /\ queue \in Seq(Task) /\ Len(queue) =< QueueSize
  /\ batch \in Seq(Task) /\ Len(batch) =< BatchSize
  /\ txn \in [Trades -> Nat] /\ db \in [Trades -> Nat]
  /\ pc \in {"top", "get", "fill", "apply", "done", "dead"}
  /\ last \in BOOLEAN /\ stop \in BOOLEAN
  /\ lost \subseteq Task /\ ignored \subseteq Task

Increasing(s) ==
  \A i, j \in DOMAIN s : i < j /\ s[i].trade = s[j].trade => s[i].write < s[j].write

Before(s, r) ==
  \A i \in DOMAIN s, j \in DOMAIN r :
    s[i].trade = r[j].trade => s[i].write < r[j].write

Between(low, s, high) ==
  \A i \in DOMAIN s : low[s[i].trade] < s[i].write /\ s[i].write =< high[s[i].trade]

\* The table as the worker sees it.
View == IF pc = "apply" THEN txn ELSE db

\* The writes of a trade that wait are in the order they were handed over, and all
\* are newer than the row: an insert lands before the updates that follow it, and
\* no row goes back to an older write (async_writer.py, "Ordering is preserved").
WritesInOrder ==
  /\ Increasing(queue) /\ Increasing(batch) /\ Before(batch, queue)
  /\ Between(View, queue, handed) /\ Between(View, batch, handed)
  /\ \A t \in Trades : db[t] =< View[t] /\ View[t] =< handed[t]

\* No commit takes a row back to an older write.
RowsAdvance == [][\A t \in Trades : db[t] =< db'[t]]_db

\* A write disappears in three ways only: the queue was full or its batch failed,
\* which is logged, or it is an update that found no row, which nobody notices
\* (apply_update does not look at the number of rows). The third never comes first:
\* the insert of that trade was lost before, and that is in the log. Whatever else
\* was handed over waits, or the row shows it or a newer write. And no row grows out
\* of the updates of a trade whose insert was lost.
NothingElseIsLost ==
  /\ \A task \in ignored : TaskOf(task.trade, 1) \in lost
  /\ \A t \in Trades :
       /\ TaskOf(t, 1) \in lost => View[t] = 0
       /\ pc # "dead" => \A n \in 1 .. handed[t] :
            \/ n =< View[t]
            \/ TaskOf(t, n) \in TasksIn(queue) \cup TasksIn(batch) \cup lost \cup ignored

\* While the process runs, a write is applied or dropped, it does not wait for ever.
WritesSettle ==
  \A t \in Trades : \A n \in 1 .. MaxWrites :
    handed[t] >= n ~> db[t] >= n \/ TaskOf(t, n) \in lost \cup ignored \/ stop \/ pc = "dead"

\* async_writer.py: until stopped, then flush whatever remains. The worker ends
\* with nothing left in the queue.
FlushesTheRest == [][pc' = "done" /\ pc # "done" => queue = <<>>]_vars
=============================================================================
