------------------------------ MODULE Migration ------------------------------
(***************************************************************************)
(* `alembic upgrade head` (alembic/env.py and alembic/versions) run by the *)
(* migrate programs of several containers, and the executors that wait for *)
(* the trades table (db.py, wait_for_table). A migrator works in one       *)
(* transaction: under an advisory lock it moves the tables of this service *)
(* out of the schema they used to be in, reads the revision and applies    *)
(* what is missing. The database is Postgres: DDL is transactional, and a  *)
(* connection that ends rolls back and frees its locks.                    *)
(***************************************************************************)
EXTENDS Integers

CONSTANTS
  Migrators,  \* migrate programs, one for each container
  Executors,
  Nobody,     \* no holder of the advisory lock
  MaxStarts   \* bound: the times that migrate programs are started again

ASSUME MigrationAssumption == Nobody \notin Migrators /\ MaxStarts \in Nat

VARIABLES
  db,       \* the committed tables
  initial,  \* the committed tables at first
  lock,     \* who holds the advisory lock
  pc,       \* pc[m]: where migrator m is
  step,     \* step[m]: its position in the list of owned tables
  tx,       \* tx[m]: the tables as its transaction has them
  ran,      \* ran[m]: the revisions that its transaction has applied
  applied,  \* applied[r]: how often revision r was committed
  starts,
  seen      \* seen[e]: what executor e got from wait_for_table

migrator == <<lock, pc, step, tx, ran, starts>>
vars == <<db, initial, migrator, applied, seen>>

Head == 3

Revisions == 1 .. Head

\* The tables of the metadata, and then the version table.
Owned == <<"trades", "daily_pnl", "alembic_version">>

Names == {Owned[i] : i \in 1 .. 3}

\* Whose a table is: "ours" with the rows it had, "new" if a migration created it,
\* "theirs" if another project's; and the revision its columns, or its row, are at.
Tables == [owner : {"ours", "new", "theirs"}, rev : 0 .. Head]

Absent == [owner |-> "none", rev |-> 0]

Schemas == {"public", "target"}

Databases == [Schemas -> [Names -> Tables \cup {Absent}]]

Holds(d, schema, name) == d[schema][name] # Absent

Nothing == [n \in Names |-> Absent]

\* The tables of this service at a revision.
LaidOut(owner, r) ==
  [n \in Names |->
     IF r = 0 \/ (n = "daily_pnl" /\ r < 3) THEN Absent
     ELSE [owner |-> owner, rev |-> IF n = "trades" /\ r > 1 THEN 2 ELSE r]]

\* Another project may have tables of the same names in the shared schema.
WithTheirs(tables, names) ==
  [n \in Names |-> IF n \in names /\ tables[n] = Absent
                   THEN [owner |-> "theirs", rev |-> 0] ELSE tables[n]]

Init ==
  /\ \E r \in 0 .. Head, legacy \in BOOLEAN, names \in SUBSET {"trades", "daily_pnl"} :
       db = [s \in Schemas |->
               IF s = "public"
               THEN WithTheirs(IF legacy THEN LaidOut("ours", r) ELSE Nothing, names)
               ELSE IF legacy THEN Nothing ELSE LaidOut("ours", r)]
  /\ initial = db
  /\ lock = Nobody
  /\ pc = [m \in Migrators |-> "start"]
  /\ step = [m \in Migrators |-> 1]
  /\ tx = [m \in Migrators |-> db]
  /\ ran = [m \in Migrators |-> {}]
  /\ applied = [r \in Revisions |-> 0]
  /\ starts = 0
  /\ seen = [e \in Executors |-> "waiting"]

-----------------------------------------------------------------------------
(* The transaction of a migrator                                           *)

\* Mutant: the migrators do not wait for each other.
NoLock(m) == UNCHANGED lock

Acquire(m) == lock = Nobody /\ lock' = m

\* The transaction begins with the lock; its first read is after that.
Begin(m) ==
  /\ pc[m] = "start"
  /\ Acquire(m)
  /\ tx' = [tx EXCEPT ![m] = db]
  /\ ran' = [ran EXCEPT ![m] = {}]
  /\ step' = [step EXCEPT ![m] = 1]
  /\ pc' = [pc EXCEPT ![m] = "relocate"]
  /\ UNCHANGED <<db, initial, applied, starts, seen>>

\* Mutant: the tables stay where they are.
MovesNothing(d, name) == FALSE

\* Mutant: the version table is not among the tables that move.
MovesTablesOnly(d, name) ==
  name # "alembic_version" /\ Holds(d, "public", name) /\ ~Holds(d, "target", name)

NeedsMove(d, name) == Holds(d, "public", name) /\ ~Holds(d, "target", name)

Relocate(m) ==
  /\ pc[m] = "relocate"
  /\ LET name == Owned[step[m]]
     IN  tx' = IF NeedsMove(tx[m], name)
               THEN [tx EXCEPT ![m]["target"][name] = tx[m]["public"][name],
                               ![m]["public"][name] = Absent]
               ELSE tx
  /\ IF step[m] < 3
     THEN step' = [step EXCEPT ![m] = @ + 1] /\ UNCHANGED pc
     ELSE pc' = [pc EXCEPT ![m] = "read"] /\ UNCHANGED step
  /\ UNCHANGED <<db, initial, lock, ran, applied, starts, seen>>

\* Alembic reads its version table, and creates it before if there is none.
ReadVersion(m) ==
  /\ pc[m] = "read"
  /\ tx' = IF Holds(tx[m], "target", "alembic_version") THEN tx
           ELSE [tx EXCEPT ![m]["target"]["alembic_version"] = [owner |-> "new", rev |-> 0]]
  /\ pc' = [pc EXCEPT ![m] = "upgrade"]
  /\ UNCHANGED <<db, initial, lock, step, ran, applied, starts, seen>>

Version(m) == tx[m]["target"]["alembic_version"].rev

\* What the statements of a revision need. A name without a schema is looked up in
\* the target and then in public.
Applicable(m, r) ==
  CASE r = 1 -> ~Holds(tx[m], "target", "trades")
    [] r = 2 -> tx[m]["target"]["trades"].rev = 1
    [] r = 3 -> ~Holds(tx[m], "target", "daily_pnl")

\* 0001 creates trades, 0002 adds columns to it, 0003 creates daily_pnl.
Applied(m, r) ==
  CASE r = 1 -> [tx EXCEPT ![m]["target"]["trades"] = [owner |-> "new", rev |-> 1],
                           ![m]["target"]["alembic_version"].rev = 1]
    [] r = 2 -> [tx EXCEPT ![m]["target"]["trades"].rev = 2,
                           ![m]["target"]["alembic_version"].rev = 2]
    [] r = 3 -> [tx EXCEPT ![m]["target"]["daily_pnl"] = [owner |-> "new", rev |-> 3],
                           ![m]["target"]["alembic_version"].rev = 3]

\* Mutant: every revision is committed by itself.
UpgradeAndCommit(m) ==
  /\ pc[m] = "upgrade" /\ Version(m) < Head
  /\ Applicable(m, Version(m) + 1)
  /\ tx' = Applied(m, Version(m) + 1)
  /\ db' = tx'[m]
  /\ UNCHANGED <<initial, lock, pc, step, ran, applied, starts, seen>>

Upgrade(m) ==
  /\ pc[m] = "upgrade" /\ Version(m) < Head
  /\ Applicable(m, Version(m) + 1)
  /\ tx' = Applied(m, Version(m) + 1)
  /\ ran' = [ran EXCEPT ![m] = @ \cup {Version(m) + 1}]
  /\ UNCHANGED <<db, initial, lock, pc, step, applied, starts, seen>>

\* Mutant: a lock of the session, on a connection that is kept.
KeepLock(m) == UNCHANGED lock

Release(m) == lock' = IF lock = m THEN Nobody ELSE lock

\* A statement fails: the transaction is rolled back and the program exits.
UpgradeFails(m) ==
  /\ pc[m] = "upgrade" /\ Version(m) < Head
  /\ ~Applicable(m, Version(m) + 1)
  /\ pc' = [pc EXCEPT ![m] = "failed"]
  /\ Release(m)
  /\ UNCHANGED <<db, initial, step, tx, ran, applied, starts, seen>>

Commit(m) ==
  /\ pc[m] = "upgrade" /\ Version(m) = Head
  /\ db' = tx[m]
  /\ applied' = [r \in Revisions |-> applied[r] + (IF r \in ran[m] THEN 1 ELSE 0)]
  /\ pc' = [pc EXCEPT ![m] = "done"]
  /\ Release(m)
  /\ UNCHANGED <<initial, step, tx, ran, starts, seen>>

Crash(m) ==
  /\ pc[m] \in {"start", "relocate", "read", "upgrade"}
  /\ pc' = [pc EXCEPT ![m] = "down"]
  /\ Release(m)
  /\ UNCHANGED <<db, initial, step, tx, ran, applied, starts, seen>>

\* A new container; supervisord itself does not start the program again.
Redeploy(m) ==
  /\ pc[m] \in {"done", "failed", "down"}
  /\ starts < MaxStarts
  /\ starts' = starts + 1
  /\ pc' = [pc EXCEPT ![m] = "start"]
  /\ UNCHANGED <<db, initial, lock, step, tx, ran, applied, seen>>

-----------------------------------------------------------------------------
(* The executors                                                           *)

\* wait_for_table finds the table, or its time is over and the executor goes on.
WaitForTable(e) ==
  /\ seen[e] = "waiting"
  /\ seen' = [seen EXCEPT ![e] = IF Holds(db, "target", "trades") THEN "table" ELSE "timeout"]
  /\ UNCHANGED <<db, initial, migrator, applied>>

-----------------------------------------------------------------------------

Migrate(m) ==
  \/ Begin(m) \/ Relocate(m) \/ ReadVersion(m)
  \/ Upgrade(m) \/ UpgradeFails(m) \/ Commit(m)

Next ==
  \/ \E m \in Migrators : Migrate(m) \/ Crash(m) \/ Redeploy(m)
  \/ \E e \in Executors : WaitForTable(e)

Spec == Init /\ [][Next]_vars

\* A migrator that is not stopped runs; the lock comes to those who wait for it.
FairSpec == Spec /\ \A m \in Migrators : WF_vars(Migrate(m))

-----------------------------------------------------------------------------

InTransaction(m) == pc[m] \in {"relocate", "read", "upgrade"}

\* The types, and that whoever works on the tables holds the lock.
TypeOK ==
  /\ db \in Databases /\ initial \in Databases
  /\ lock \in Migrators \cup {Nobody}
  /\ pc \in [Migrators -> {"start", "relocate", "read", "upgrade", "done", "failed", "down"}]
  /\ step \in [Migrators -> 1 .. 3]
  /\ tx \in [Migrators -> Databases]
  /\ ran \in [Migrators -> SUBSET Revisions]
  /\ applied \in [Revisions -> Nat]
  /\ starts \in 0 .. MaxStarts
  /\ seen \in [Executors -> {"waiting", "table", "timeout"}]
  /\ \A m \in Migrators : InTransaction(m) <=> lock = m

Mine(d, schema, name) == d[schema][name].owner \in {"ours", "new"}

\* What relocate_legacy_tables is for: a table that had rows is there once, with
\* its rows, and no empty one beside it, whoever crashed in the middle of a move.
NothingOrphaned ==
  \A n \in Names :
    /\ ~(Mine(db, "public", n) /\ Mine(db, "target", n))
    /\ (\E s \in Schemas : initial[s][n].owner = "ours") =>
         \E s \in Schemas : db[s][n].owner = "ours"

\* The tables that others see are at one revision: the one that the version table
\* says, all in one schema; and tables of other projects are where they were.
\* Moves and revisions become visible together or not at all.
CommittedWhole ==
  /\ \E s \in Schemas, r \in 0 .. Head :
       \A n \in Names, z \in Schemas :
         IF z = s /\ LaidOut("ours", r)[n] # Absent
         THEN Mine(db, z, n) /\ db[z][n].rev = LaidOut("ours", r)[n].rev
         ELSE ~Mine(db, z, n)
  /\ \A n \in Names : initial["public"][n].owner = "theirs" =>
       db["public"][n] = initial["public"][n]

InitialRevision ==
  IF initial["public"]["alembic_version"] # Absent
  THEN initial["public"]["alembic_version"].rev
  ELSE initial["target"]["alembic_version"].rev

\* Concurrent migrators serialize and the second does nothing (SPEC 6): of all the
\* migrators together, each revision is committed at most once, and not at all if
\* the database had it.
RevisionsOnce ==
  \A r \in Revisions : applied[r] =< IF r =< InitialRevision THEN 0 ELSE 1

NoForeign == \A n \in Names : initial["public"][n].owner # "theirs"

\* Where no other project has a table of one of our names, a migration succeeds,
\* from every revision and layout and after every crash of an earlier one.
MigrationsSucceed == NoForeign => \A m \in Migrators : pc[m] # "failed"

\* No migrator waits for ever for the lock of one that died or failed.
MigratorsEnd ==
  \A m \in Migrators : pc[m] = "start" ~> pc[m] \in {"done", "failed", "down"}

-----------------------------------------------------------------------------
(* Claims of documents and comments that the code does not keep            *)

\* db.py: wait_for_table blocks "so startup never races the migrate step".
StartsAfterMigration ==
  \A e \in Executors : seen[e] = "table" =>
    db["target"]["alembic_version"].rev = Head

\* env.py: the names are per service "so multiple projects can safely share one
\* database"; tables of others in public are left alone.
OthersDoNotMatter == \A m \in Migrators : pc[m] # "failed"
=============================================================================
