---------------------------- MODULE MigrationProofs ----------------------------
(***************************************************************************)
(* Proofs about the migrations, for every set of migrators and executors   *)
(* and every number of restarts: the type invariant, that no table of the  *)
(* service is orphaned, that what is committed is whole, that a revision   *)
(* is committed once, and that no migration fails where no other project   *)
(* has a table of one of the names.                                        *)
(*                                                                         *)
(* Nothing but the commit of a migrator changes the committed tables, and  *)
(* it holds the lock: so as long as a transaction lasts, its own tables    *)
(* are a function of the committed ones and of where it is. TxInv says     *)
(* which; CommittedInv says what the committed tables look like; and at a  *)
(* commit the one is carried over to the other.                            *)
(***************************************************************************)
EXTENDS Migration, TLAPS

\* Whether the tables of a revision have the name, and the revision it is then at.
Has(n, r) == IF n = "daily_pnl" THEN r = 3 ELSE r \in 1 .. 3

RevAt(n, r) == IF n = "trades" /\ r = 3 THEN 2 ELSE r

\* The revision that tables are at.
Revision(d) ==
  IF Holds(d, "public", "alembic_version") THEN d["public"]["alembic_version"].rev
  ELSE d["target"]["alembic_version"].rev

Theirs(n) == initial["public"][n].owner = "theirs"

\* A schema has the tables of this service at a revision; what else there is are
\* the tables of other projects.
WholeIn(d, s, r) ==
  \A n \in Names, z \in Schemas :
    IF z = s /\ Has(n, r) THEN Mine(d, z, n) /\ d[z][n].rev = RevAt(n, r)
    ELSE d[z][n] = IF z = "public" /\ Theirs(n) THEN initial[z][n] ELSE Absent

\* The tables of other projects are where they were, and a table that had rows has
\* them.
Undisturbed(d) ==
  \A n \in Names :
    /\ Theirs(n) => d["public"][n] = initial["public"][n]
    /\ (\E s \in Schemas : initial[s][n].owner = "ours") =>
         \E s \in Schemas : d[s][n].owner = "ours"

CommittedInv ==
  /\ ~Theirs("alembic_version")
  /\ Revision(initial) \in 0 .. Head /\ Revision(db) \in Revision(initial) .. Head
  /\ \E s \in Schemas : WholeIn(db, s, Revision(db))
  /\ Undisturbed(db)
  /\ \A r \in Revisions :
       applied[r] = IF r \in Revision(initial) + 1 .. Revision(db) THEN 1 ELSE 0

\* The committed tables, with those of the first k names moved.
Moving(k) ==
  [s \in Schemas |-> [n \in Names |->
     IF NeedsMove(db, n) /\ (\E i \in 1 .. 3 : i =< k /\ Owned[i] = n)
     THEN IF s = "target" THEN db["public"][n] ELSE Absent
     ELSE db[s][n]]]

\* A table in the transaction at revision v: one that the database had is at the
\* revision, one that it lacks is made by a revision, if the name was free.
Upgraded(m, n, v) ==
  LET moved == Moving(3)["target"][n]
      table == tx[m]["target"][n]
  IN IF Has(n, Revision(db)) THEN table = [owner |-> moved.owner, rev |-> RevAt(n, v)]
     ELSE IF Has(n, v) THEN moved = Absent /\ table = [owner |-> "new", rev |-> RevAt(n, v)]
     ELSE table = moved

\* The tables of a transaction.
TxInv(m) ==
  /\ pc[m] = "relocate" => tx[m] = Moving(step[m] - 1) /\ ran[m] = {}
  /\ pc[m] = "read" => tx[m] = Moving(3) /\ ran[m] = {}
  /\ pc[m] = "upgrade" =>
       /\ Version(m) \in Revision(db) .. Head
       /\ ran[m] = Revision(db) + 1 .. Version(m)
       /\ tx[m]["public"] = Moving(3)["public"]
       /\ tx[m]["target"]["alembic_version"].owner =
            IF Revision(db) = 0 THEN "new" ELSE Moving(3)["target"]["alembic_version"].owner
       /\ \A n \in {"trades", "daily_pnl"} : Upgraded(m, n, Version(m))

MigrationInv ==
  /\ TypeOK
  /\ CommittedInv
  /\ \A m \in Migrators : TxInv(m)
  /\ MigrationsSucceed

-----------------------------------------------------------------------------
(* Tables and layouts *)

\* The names, and their places in the list of owned tables.
LEMMA NamesAre ==
  /\ Names = {"trades", "daily_pnl", "alembic_version"}
  /\ Owned[1] = "trades" /\ Owned[2] = "daily_pnl" /\ Owned[3] = "alembic_version"
<1>1. Owned[1] = "trades" /\ Owned[2] = "daily_pnl" /\ Owned[3] = "alembic_version"
  BY DEF Owned
<1>2. 1 .. 3 = {1, 2, 3}
  OBVIOUS
<1> QED
  BY <1>1, <1>2 DEF Names

\* What a table of a database can be.
LEMMA TableIs ==
  ASSUME NEW d \in Databases, NEW s \in Schemas, NEW n \in Names
  PROVE  /\ d[s][n] \in Tables \cup {Absent}
         /\ d[s][n].owner \in {"ours", "new", "theirs", "none"} /\ d[s][n].rev \in 0 .. Head
         /\ d[s][n] = [owner |-> d[s][n].owner, rev |-> d[s][n].rev]
         /\ d[s][n] = Absent <=> d[s][n].owner = "none"
         /\ Mine(d, s, n) => Holds(d, s, n)
<1>1. d[s][n] \in Tables \cup {Absent}
  BY DEF Databases
<1>2. CASE d[s][n] = Absent
  BY <1>2 DEF Absent, Head, Mine, Holds
<1>3. CASE d[s][n] \in Tables
  BY <1>3 DEF Tables, Absent, Mine, Holds
<1> QED
  BY <1>1, <1>2, <1>3

\* The tables that LaidOut makes.
LEMMA LaidOutIs ==
  ASSUME NEW owner \in {"ours", "new"}, NEW r \in 0 .. Head, NEW n \in Names
  PROVE  LaidOut(owner, r)[n] =
           IF Has(n, r) THEN [owner |-> owner, rev |-> RevAt(n, r)] ELSE Absent
<1> USE NamesAre DEF Head, Has, RevAt
<1>1. r = 0 \/ r = 1 \/ r = 2 \/ r = 3
  OBVIOUS
<1>2. LaidOut(owner, r)[n] =
        IF r = 0 \/ (n = "daily_pnl" /\ r < 3) THEN Absent
        ELSE [owner |-> owner, rev |-> IF n = "trades" /\ r > 1 THEN 2 ELSE r]
  BY DEF LaidOut
<1>3. CASE r = 0
  BY <1>2, <1>3
<1>4. CASE r = 1
  BY <1>2, <1>4
<1>5. CASE r = 2
  BY <1>2, <1>5
<1>6. CASE r = 3
  BY <1>2, <1>6
<1> QED
  BY <1>1, <1>3, <1>4, <1>5, <1>6

\* A revision of a table is a revision, and there is no table at revision 0.
LEMMA RevisionsOfTables ==
  ASSUME NEW r \in 0 .. Head, NEW n \in Names
  PROVE  /\ RevAt(n, r) \in 0 .. Head
         /\ Has(n, r) => RevAt(n, r) \in Revisions /\ r \in Revisions
         /\ Has(n, Head)
         /\ Has("alembic_version", r) <=> r # 0
         /\ RevAt("alembic_version", r) = r
  BY NamesAre DEF Head, Has, RevAt, Revisions

-----------------------------------------------------------------------------
(* The committed tables *)

\* What the invariant says of the committed tables is what is asked of them.
LEMMA CommittedIsWhole ==
  ASSUME TypeOK, CommittedInv
  PROVE  NothingOrphaned /\ CommittedWhole /\ RevisionsOnce
<1> USE DEF CommittedInv
<1>1. db \in Databases /\ initial \in Databases /\ applied \in [Revisions -> Nat]
  BY DEF TypeOK
<1>2. Revision(db) \in 0 .. Head /\ "public" \in Schemas /\ "target" \in Schemas
  BY DEF Head, Schemas
<1>3. PICK s \in Schemas : WholeIn(db, s, Revision(db))
  OBVIOUS
<1>4. ASSUME NEW n \in Names, NEW z \in Schemas, ~(z = s /\ Has(n, Revision(db)))
      PROVE  ~Mine(db, z, n)
  <2>1. db[z][n] = IF z = "public" /\ Theirs(n) THEN initial[z][n] ELSE Absent
    BY <1>3, <1>4 DEF WholeIn
  <2> QED
    BY <2>1 DEF Mine, Theirs, Absent
<1>5. NothingOrphaned
  <2> SUFFICES ASSUME NEW n \in Names
               PROVE  /\ ~(Mine(db, "public", n) /\ Mine(db, "target", n))
                      /\ (\E z \in Schemas : initial[z][n].owner = "ours") =>
                           \E z \in Schemas : db[z][n].owner = "ours"
    BY DEF NothingOrphaned
  <2>1. ~(Mine(db, "public", n) /\ Mine(db, "target", n))
    BY <1>2, <1>4
  <2> QED
    BY <2>1 DEF Undisturbed
<1>6. CommittedWhole
  <2>1. ASSUME NEW n \in Names, NEW z \in Schemas
        PROVE  IF z = s /\ LaidOut("ours", Revision(db))[n] # Absent
               THEN Mine(db, z, n) /\ db[z][n].rev = LaidOut("ours", Revision(db))[n].rev
               ELSE ~Mine(db, z, n)
    <3> DEFINE laid == LaidOut("ours", Revision(db))[n]
    <3>0. laid = IF Has(n, Revision(db))
                 THEN [owner |-> "ours", rev |-> RevAt(n, Revision(db))] ELSE Absent
      BY <1>2, LaidOutIs
    <3> HIDE DEF laid
    <3>1. laid # Absent <=> Has(n, Revision(db))
      BY <3>0 DEF Absent
    <3>2. Has(n, Revision(db)) => laid.rev = RevAt(n, Revision(db))
      BY <3>0
    <3> USE DEF laid
    <3>3. z = s /\ Has(n, Revision(db)) =>
            Mine(db, z, n) /\ db[z][n].rev = RevAt(n, Revision(db))
      BY <1>3 DEF WholeIn
    <3> QED
      BY <1>4, <3>1, <3>2, <3>3
  <2>2. ASSUME NEW n \in Names, initial["public"][n].owner = "theirs"
        PROVE  db["public"][n] = initial["public"][n]
    BY <2>2 DEF Undisturbed, Theirs
  <2> QED
    BY <1>2, <2>1, <2>2 DEF CommittedWhole
<1>7. RevisionsOnce
  <2>1. InitialRevision = Revision(initial)
    BY DEF InitialRevision, Revision, Holds
  <2> SUFFICES ASSUME NEW r \in Revisions
               PROVE  applied[r] =< IF r =< InitialRevision THEN 0 ELSE 1
    BY DEF RevisionsOnce
  <2> QED
    BY <2>1 DEF Revisions, Head
<1> QED
  BY <1>5, <1>6, <1>7

-----------------------------------------------------------------------------
(* The initial states *)

\* The tables are of one revision at first, in one of the schemas.
LEMMA CommittedInit == Init => db \in Databases /\ CommittedInv
<1> SUFFICES ASSUME Init PROVE db \in Databases /\ CommittedInv
  OBVIOUS
<1>1. PICK r \in 0 .. Head, legacy \in BOOLEAN, names \in SUBSET {"trades", "daily_pnl"} :
        db = [s \in Schemas |->
                IF s = "public"
                THEN WithTheirs(IF legacy THEN LaidOut("ours", r) ELSE Nothing, names)
                ELSE IF legacy THEN Nothing ELSE LaidOut("ours", r)]
  BY DEF Init
<1>2. initial = db /\ applied = [x \in Revisions |-> 0]
  BY DEF Init
<1> DEFINE home == IF legacy THEN "public" ELSE "target"
           table(s, n) == IF s = home /\ Has(n, r) THEN [owner |-> "ours", rev |-> RevAt(n, r)]
                          ELSE IF s = "public" /\ n \in names
                               THEN [owner |-> "theirs", rev |-> 0] ELSE Absent
<1>3. /\ "public" \in Schemas /\ "target" \in Schemas /\ home \in Schemas
      /\ \A s \in Schemas : s = "public" \/ s = "target"
      /\ "alembic_version" \in Names /\ "alembic_version" \notin names
  BY NamesAre DEF Schemas
<1>4. ASSUME NEW s \in Schemas, NEW n \in Names
      PROVE  db[s][n] = table(s, n)
  <2>1. LaidOut("ours", r)[n] =
          IF Has(n, r) THEN [owner |-> "ours", rev |-> RevAt(n, r)] ELSE Absent
    BY LaidOutIs
  <2>2. Nothing[n] = Absent
    BY DEF Nothing
  <2>3. [owner |-> "ours", rev |-> RevAt(n, r)] # Absent
    BY DEF Absent
  <2>4. CASE s = "public"
    <3>1. db[s] = WithTheirs(IF legacy THEN LaidOut("ours", r) ELSE Nothing, names)
      BY <1>1, <2>4
    <3> QED
      BY <2>1, <2>2, <2>3, <2>4, <3>1 DEF WithTheirs
  <2>5. CASE s = "target"
    <3>1. db[s] = IF legacy THEN Nothing ELSE LaidOut("ours", r)
      BY <1>1, <2>5
    <3> QED
      BY <2>1, <2>2, <2>5, <3>1
  <2> QED
    BY <1>3, <2>4, <2>5
<1>5. ASSUME NEW s \in Schemas, NEW n \in Names
      PROVE  table(s, n) \in Tables \cup {Absent}
  BY RevisionsOfTables DEF Tables, Head
<1>6. db \in Databases
  <2>1. db = [s \in Schemas |-> db[s]]
    BY <1>1
  <2>2. ASSUME NEW s \in Schemas
        PROVE  db[s] \in [Names -> Tables \cup {Absent}]
    <3>1. db[s] = [n \in Names |-> db[s][n]]
      <4>1. CASE s = "public"
        <5>1. db[s] = WithTheirs(IF legacy THEN LaidOut("ours", r) ELSE Nothing, names)
          BY <1>1, <4>1
        <5> QED
          BY <5>1 DEF WithTheirs
      <4>2. CASE s = "target"
        <5>1. db[s] = IF legacy THEN Nothing ELSE LaidOut("ours", r)
          BY <1>1, <4>2
        <5> QED
          BY <5>1 DEF LaidOut, Nothing
      <4> QED
        BY <1>3, <4>1, <4>2
    <3>2. \A n \in Names : db[s][n] \in Tables \cup {Absent}
      BY <1>4, <1>5
    <3> QED
      BY <3>1, <3>2
  <2> QED
    BY <2>1, <2>2 DEF Databases
<1>7. ASSUME NEW n \in Names
      PROVE  Theirs(n) <=> n \in names /\ ~(legacy /\ Has(n, r))
  <2>1. initial["public"][n] = table("public", n)
    BY <1>2, <1>3, <1>4
  <2>2. Theirs(n) <=> table("public", n).owner = "theirs"
    BY <2>1 DEF Theirs
  <2> QED
    BY <2>2 DEF Absent
<1>8. Revision(db) = r
  <2>1. /\ db["public"]["alembic_version"] = table("public", "alembic_version")
        /\ db["target"]["alembic_version"] = table("target", "alembic_version")
    BY <1>3, <1>4
  <2>2. /\ Has("alembic_version", r) <=> r # 0
        /\ RevAt("alembic_version", r) = r
    BY <1>3, RevisionsOfTables
  <2> QED
    BY <1>3, <2>1, <2>2 DEF Revision, Holds, Absent
<1>9. WholeIn(db, home, r)
  <2> SUFFICES ASSUME NEW n \in Names, NEW z \in Schemas
               PROVE  IF z = home /\ Has(n, r) THEN Mine(db, z, n) /\ db[z][n].rev = RevAt(n, r)
                      ELSE db[z][n] = IF z = "public" /\ Theirs(n) THEN initial[z][n] ELSE Absent
    BY DEF WholeIn
  <2>1. db[z][n] = table(z, n) /\ initial[z][n] = db[z][n]
    BY <1>2, <1>4
  <2> QED
    BY <1>3, <1>7, <2>1 DEF Mine
<1>10. Undisturbed(db)
  BY <1>2 DEF Undisturbed
<1>11. ~Theirs("alembic_version")
  BY <1>3, <1>7
<1>12. /\ Revision(initial) \in 0 .. Head /\ Revision(db) \in Revision(initial) .. Head
       /\ \A x \in Revisions :
            applied[x] = IF x \in Revision(initial) + 1 .. Revision(db) THEN 1 ELSE 0
  BY <1>2, <1>8 DEF Head
<1> QED
  BY <1>3, <1>6, <1>8, <1>9, <1>10, <1>11, <1>12 DEF CommittedInv

\* The invariant holds at first.
LEMMA MigrationInit == Init => MigrationInv
<1> SUFFICES ASSUME Init PROVE MigrationInv
  OBVIOUS
<1>1. db \in Databases /\ CommittedInv
  BY CommittedInit
<1>2. TypeOK
  BY <1>1, MigrationAssumption DEF TypeOK, Init, InTransaction, Revisions
<1>3. \A m \in Migrators : TxInv(m) /\ pc[m] # "failed"
  BY DEF TxInv, Init
<1> QED
  BY <1>1, <1>2, <1>3 DEF MigrationInv, MigrationsSucceed

-----------------------------------------------------------------------------
(* What a transaction moves *)

\* The tables with some of them moved are tables, with none moved the committed ones.
LEMMA MovingIs ==
  ASSUME db \in Databases, NEW k \in 0 .. 3
  PROVE  Moving(k) \in Databases /\ Moving(0) = db
<1>1. "public" \in Schemas /\ "target" \in Schemas
  BY DEF Schemas
<1>2. ASSUME NEW s \in Schemas, NEW n \in Names
      PROVE  /\ db[s][n] \in Tables \cup {Absent} /\ db["public"][n] \in Tables \cup {Absent}
             /\ Absent \in Tables \cup {Absent}
  BY <1>1, TableIs
<1>3. Moving(k) \in Databases
  BY <1>2 DEF Moving, Databases
<1>4. db = [s \in Schemas |-> [n \in Names |-> db[s][n]]]
  <2>1. db = [s \in Schemas |-> db[s]]
    BY DEF Databases
  <2>2. ASSUME NEW s \in Schemas
        PROVE  db[s] = [n \in Names |-> db[s][n]]
    BY DEF Databases
  <2> QED
    BY <2>1, <2>2
<1>5. \A n \in Names : ~\E i \in 1 .. 3 : i =< 0 /\ Owned[i] = n
  OBVIOUS
<1>6. Moving(0) = [s \in Schemas |-> [n \in Names |-> db[s][n]]]
  BY <1>5 DEF Moving
<1> QED
  BY <1>3, <1>4, <1>6

\* Moving one more name moves it, as relocate_legacy_tables does in the transaction.
LEMMA MoveOne ==
  ASSUME db \in Databases, NEW k \in 1 .. 3, NEW t, t = Moving(k - 1)
  PROVE  Moving(k) = IF NeedsMove(t, Owned[k])
                     THEN [t EXCEPT !["target"][Owned[k]] = t["public"][Owned[k]],
                                    !["public"][Owned[k]] = Absent]
                     ELSE t
<1> DEFINE name == Owned[k]
           d == IF NeedsMove(t, name)
                THEN [t EXCEPT !["target"][name] = t["public"][name],
                               !["public"][name] = Absent]
                ELSE t
<1>1. /\ "public" \in Schemas /\ "target" \in Schemas /\ name \in Names
      /\ \A s \in Schemas : s = "public" \/ s = "target"
  BY DEF Schemas, Names
<1>2. \A i \in 1 .. 3 : Owned[i] = name => i = k
  <2>1. k = 1 \/ k = 2 \/ k = 3
    OBVIOUS
  <2>2. \A i \in 1 .. 3 : i = 1 \/ i = 2 \/ i = 3
    OBVIOUS
  <2> QED
    BY <2>1, <2>2, NamesAre
<1>3. ASSUME NEW n \in Names
      PROVE  (\E i \in 1 .. 3 : i =< k /\ Owned[i] = n)
               <=> n = name \/ (\E i \in 1 .. 3 : i =< k - 1 /\ Owned[i] = n)
  BY <1>2
<1>4. ~\E i \in 1 .. 3 : i =< k - 1 /\ Owned[i] = name
  BY <1>2
<1>5. ASSUME NEW s \in Schemas, NEW n \in Names
      PROVE  t[s][n] = IF NeedsMove(db, n) /\ (\E i \in 1 .. 3 : i =< k - 1 /\ Owned[i] = n)
                       THEN IF s = "target" THEN db["public"][n] ELSE Absent
                       ELSE db[s][n]
  BY DEF Moving
<1>6. \A s \in Schemas : t[s][name] = db[s][name]
  BY <1>1, <1>4, <1>5
<1>7. NeedsMove(t, name) <=> NeedsMove(db, name)
  BY <1>1, <1>6 DEF NeedsMove, Holds
<1>8. t \in [Schemas -> [Names -> Tables \cup {Absent}]]
  <2>1. k - 1 \in 0 .. 3
    OBVIOUS
  <2> QED
    BY <2>1, MovingIs DEF Databases
<1>9. d \in [Schemas -> [Names -> Tables \cup {Absent}]]
  <2>1. t["public"][name] \in Tables \cup {Absent} /\ Absent \in Tables \cup {Absent}
    BY <1>1, <1>8
  <2> QED
    BY <1>1, <1>8, <2>1
<1>10. ASSUME NEW s \in Schemas, NEW n \in Names
       PROVE  d[s][n] = IF NeedsMove(t, name) /\ n = name
                        THEN IF s = "target" THEN t["public"][name] ELSE Absent
                        ELSE t[s][n]
  BY <1>1, <1>8
<1>11. Moving(k) \in [Schemas -> [Names -> Tables \cup {Absent}]]
  <2>1. k \in 0 .. 3
    OBVIOUS
  <2> QED
    BY <2>1, MovingIs DEF Databases
<1>12. ASSUME NEW s \in Schemas, NEW n \in Names
       PROVE  Moving(k)[s][n] = d[s][n]
  <2>1. Moving(k)[s][n] =
          IF NeedsMove(db, n) /\ (\E i \in 1 .. 3 : i =< k /\ Owned[i] = n)
          THEN IF s = "target" THEN db["public"][n] ELSE Absent
          ELSE db[s][n]
    BY DEF Moving
  <2> HIDE DEF d
  <2>2. CASE n = name
    BY <1>1, <1>3, <1>6, <1>7, <1>10, <2>1, <2>2
  <2>3. CASE n # name
    BY <1>3, <1>5, <1>10, <2>1, <2>3
  <2> QED
    BY <2>2, <2>3
<1> HIDE DEF d
<1>13. \A s \in Schemas : Moving(k)[s] = d[s]
  BY <1>9, <1>11, <1>12
<1>14. Moving(k) = d
  BY <1>9, <1>11, <1>13
<1> QED
  BY <1>14 DEF d

\* When all is moved, the tables that the database had are in the target schema, with
\* what they had; a table of another project is there only where the database has none.
LEMMA MovedIs ==
  ASSUME TypeOK, CommittedInv, NEW n \in Names
  PROVE  /\ Has(n, Revision(db)) =>
              /\ Moving(3)["target"][n].owner \in {"ours", "new"}
              /\ Moving(3)["target"][n].rev = RevAt(n, Revision(db))
              /\ Moving(3)["public"][n] = IF Theirs(n) THEN initial["public"][n] ELSE Absent
         /\ ~Has(n, Revision(db)) =>
              /\ Moving(3)["target"][n] = IF Theirs(n) THEN initial["public"][n] ELSE Absent
              /\ Moving(3)["public"][n] = Absent
         /\ (\E s \in Schemas : initial[s][n].owner = "ours") =>
              Has(n, Revision(db)) /\ Moving(3)["target"][n].owner = "ours"
<1> DEFINE r == Revision(db)
<1>1. db \in Databases /\ initial \in Databases
  BY DEF TypeOK
<1>2. /\ "public" \in Schemas /\ "target" \in Schemas
      /\ \A s \in Schemas : s = "public" \/ s = "target"
  BY DEF Schemas
<1>3. PICK home \in Schemas : WholeIn(db, home, r)
  BY DEF CommittedInv
<1> HIDE DEF r
<1>4. \E i \in 1 .. 3 : i =< 3 /\ Owned[i] = n
  BY DEF Names
<1>5. ASSUME NEW s \in Schemas
      PROVE  Moving(3)[s][n] = IF NeedsMove(db, n)
                               THEN IF s = "target" THEN db["public"][n] ELSE Absent
                               ELSE db[s][n]
  BY <1>4 DEF Moving
<1>6. ASSUME NEW s \in Schemas
      PROVE  IF s = home /\ Has(n, r) THEN Mine(db, s, n) /\ db[s][n].rev = RevAt(n, r)
             ELSE db[s][n] = IF s = "public" /\ Theirs(n) THEN initial[s][n] ELSE Absent
  BY <1>3 DEF WholeIn
<1>7. Theirs(n) => initial["public"][n] # Absent /\ initial["public"][n].owner = "theirs"
  BY DEF Theirs, Absent
<1>8. ASSUME NEW s \in Schemas
      PROVE  Mine(db, s, n) <=> s = home /\ Has(n, r)
  BY <1>6, <1>7 DEF Mine, Absent
<1>9. \A s \in Schemas : Mine(db, s, n) => db[s][n] # Absent
  BY DEF Mine, Absent
<1>10. CASE Has(n, r) /\ home = "target"
  <2>1. ~NeedsMove(db, n)
    BY <1>2, <1>6, <1>9, <1>10 DEF NeedsMove, Holds
  <2>2. Moving(3)["target"][n] = db["target"][n] /\ Moving(3)["public"][n] = db["public"][n]
    BY <1>2, <1>5, <2>1
  <2>3. Mine(db, "target", n) /\ db["target"][n].rev = RevAt(n, r)
    BY <1>2, <1>6, <1>10
  <2>4. db["public"][n] = IF Theirs(n) THEN initial["public"][n] ELSE Absent
    BY <1>2, <1>6, <1>10
  <2>5. (\E s \in Schemas : initial[s][n].owner = "ours") => db["target"][n].owner = "ours"
    BY <1>2, <1>8, <1>10 DEF CommittedInv, Undisturbed, Mine
  <2> QED
    BY <1>10, <2>2, <2>3, <2>4, <2>5 DEF Mine, r
<1>11. CASE Has(n, r) /\ home = "public"
  <2>1. /\ Mine(db, "public", n) /\ db["public"][n].rev = RevAt(n, r)
        /\ db["target"][n] = Absent
    BY <1>2, <1>6, <1>11
  <2>2. NeedsMove(db, n)
    BY <1>2, <1>9, <2>1 DEF NeedsMove, Holds
  <2>3. Moving(3)["target"][n] = db["public"][n] /\ Moving(3)["public"][n] = Absent
    BY <1>2, <1>5, <2>2
  <2>4. ~Theirs(n)
    BY <1>7, <2>1 DEF CommittedInv, Undisturbed, Mine
  <2>5. (\E s \in Schemas : initial[s][n].owner = "ours") => db["public"][n].owner = "ours"
    BY <1>2, <1>8, <1>11 DEF CommittedInv, Undisturbed, Mine
  <2> QED
    BY <1>11, <2>1, <2>3, <2>4, <2>5 DEF Mine, r
<1>12. CASE ~Has(n, r)
  <2>1. /\ db["target"][n] = Absent
        /\ db["public"][n] = IF Theirs(n) THEN initial["public"][n] ELSE Absent
    BY <1>2, <1>6, <1>12
  <2>2. /\ Moving(3)["target"][n] = IF Theirs(n) THEN initial["public"][n] ELSE Absent
        /\ Moving(3)["public"][n] = Absent
    BY <1>2, <1>5, <1>7, <2>1 DEF NeedsMove, Holds
  <2>3. ~\E s \in Schemas : initial[s][n].owner = "ours"
    BY <1>2, <1>8, <1>12 DEF CommittedInv, Undisturbed, Mine
  <2> QED
    BY <1>12, <2>2, <2>3 DEF r
<1> QED
  BY <1>2, <1>10, <1>11, <1>12

-----------------------------------------------------------------------------
(* What steps leave alone *)

\* While the committed tables stay, so does what is said of them.
LEMMA CommittedKept ==
  ASSUME CommittedInv, UNCHANGED <<db, initial, applied>>
  PROVE  CommittedInv'
<1>1. Revision(db)' = Revision(db) /\ Revision(initial)' = Revision(initial)
  BY DEF Revision, Holds
<1>2. \A n \in Names : Theirs(n)' <=> Theirs(n)
  BY DEF Theirs
<1>3. \A s \in Schemas : WholeIn(db, s, Revision(db)) => WholeIn(db, s, Revision(db))'
  BY <1>1, <1>2 DEF WholeIn, Mine
<1>4. Undisturbed(db)'
  BY <1>2 DEF CommittedInv, Undisturbed
<1>5. "alembic_version" \in Names
  BY NamesAre
<1> QED
  BY <1>1, <1>2, <1>3, <1>4, <1>5 DEF CommittedInv

\* While the committed tables stay, so does what is moved of them.
LEMMA MovingKept ==
  ASSUME UNCHANGED db, NEW k
  PROVE  Moving(k)' = Moving(k) /\ Revision(db)' = Revision(db)
  BY DEF Moving, NeedsMove, Revision, Holds

\* A migrator that does not step stays where it was while the committed tables stay.
LEMMA TxKept ==
  ASSUME UNCHANGED <<db, step, tx, ran>>, NEW m \in Migrators, TxInv(m),
         pc'[m] = pc[m]
  PROVE  TxInv(m)'
<1>1. Moving(3)' = Moving(3) /\ Moving(step[m] - 1)' = Moving(step[m] - 1)
      /\ Revision(db)' = Revision(db)
  BY MovingKept
<1>2. Version(m)' = Version(m)
  BY DEF Version
<1>3. \A n \in Names, v \in 0 .. Head : Upgraded(m, n, v)' <=> Upgraded(m, n, v)
  BY <1>1 DEF Upgraded
<1> QED
  BY <1>1, <1>2, <1>3 DEF TxInv, Upgraded

\* A migrator without the lock is in no transaction, of which there would be anything
\* to say.
LEMMA OthersOut ==
  ASSUME TypeOK, NEW m \in Migrators, lock \in {m, Nobody},
         \A x \in Migrators \ {m} : pc'[x] = pc[x]
  PROVE  \A x \in Migrators \ {m} : TxInv(x)' /\ ~InTransaction(x)'
<1>1. \A x \in Migrators \ {m} : lock # x
  BY MigrationAssumption
<1>2. \A x \in Migrators \ {m} : pc[x] \notin {"relocate", "read", "upgrade"}
  BY <1>1 DEF TypeOK, InTransaction
<1> QED
  BY <1>2 DEF TxInv, InTransaction

-----------------------------------------------------------------------------
(* The steps *)

\* A migrator begins with the committed tables.
LEMMA BeginNext ==
  ASSUME MigrationInv, NEW m \in Migrators, Begin(m)
  PROVE  MigrationInv'
<1> USE MigrationAssumption DEF MigrationInv
<1>1. /\ lock = Nobody /\ lock' = m /\ pc[m] = "start"
      /\ tx' = [tx EXCEPT ![m] = db] /\ ran' = [ran EXCEPT ![m] = {}]
      /\ step' = [step EXCEPT ![m] = 1] /\ pc' = [pc EXCEPT ![m] = "relocate"]
      /\ UNCHANGED <<db, initial, applied, starts, seen>>
  BY DEF Begin, Acquire
<1>2. \A x \in Migrators \ {m} : TxInv(x)' /\ ~InTransaction(x)'
  BY <1>1, OthersOut DEF TypeOK
<1>3. TypeOK'
  <2>1. \A x \in Migrators : InTransaction(x)' <=> lock' = x
    BY <1>1, <1>2 DEF TypeOK, InTransaction
  <2> QED
    BY <1>1, <2>1 DEF TypeOK
<1>4. TxInv(m)'
  <2>1. /\ tx'[m] = db /\ ran'[m] = {} /\ step'[m] = 1 /\ pc'[m] = "relocate"
    BY <1>1 DEF TypeOK
  <2>2. Moving(0)' = Moving(0) /\ Moving(0) = db
    BY <1>1, MovingKept, MovingIs DEF TypeOK
  <2>3. step'[m] - 1 = 0
    BY <2>1
  <2>4. Moving(step[m] - 1)' = db
    BY <2>2, <2>3
  <2> QED
    BY <2>1, <2>4 DEF TxInv
<1>5. CommittedInv'
  BY <1>1, CommittedKept
<1>6. MigrationsSucceed'
  BY <1>1 DEF MigrationsSucceed, NoForeign, TypeOK
<1> QED
  BY <1>2, <1>3, <1>4, <1>5, <1>6

\* One more table is moved in the transaction.
LEMMA RelocateNext ==
  ASSUME MigrationInv, NEW m \in Migrators, Relocate(m)
  PROVE  MigrationInv'
<1> USE MigrationAssumption DEF MigrationInv
<1> DEFINE k == step[m]
<1>1. /\ k \in 1 .. 3 /\ pc[m] = "relocate" /\ lock = m
      /\ tx[m] = Moving(k - 1) /\ ran[m] = {} /\ db \in Databases
  BY DEF Relocate, TxInv, TypeOK, InTransaction
<1>2. /\ tx' = IF NeedsMove(tx[m], Owned[k])
               THEN [tx EXCEPT ![m]["target"][Owned[k]] = tx[m]["public"][Owned[k]],
                               ![m]["public"][Owned[k]] = Absent]
               ELSE tx
      /\ IF k < 3 THEN step' = [step EXCEPT ![m] = k + 1] /\ pc' = pc
         ELSE pc' = [pc EXCEPT ![m] = "read"] /\ step' = step
      /\ UNCHANGED <<db, initial, lock, ran, applied, starts, seen>>
  BY DEF Relocate
<1>3. tx' = [tx EXCEPT ![m] = Moving(k)]
  <2>1. Moving(k) = IF NeedsMove(tx[m], Owned[k])
                    THEN [tx[m] EXCEPT !["target"][Owned[k]] = tx[m]["public"][Owned[k]],
                                       !["public"][Owned[k]] = Absent]
                    ELSE tx[m]
    BY <1>1, MoveOne
  <2>2. tx \in [Migrators -> Databases]
    BY DEF TypeOK
  <2>3. CASE NeedsMove(tx[m], Owned[k])
    BY <1>2, <2>1, <2>2, <2>3
  <2>4. CASE ~NeedsMove(tx[m], Owned[k])
    BY <1>2, <2>1, <2>2, <2>4
  <2> QED
    BY <2>3, <2>4
<1>4. Moving(k) \in Databases
  BY <1>1, MovingIs
<1>5. \A x \in Migrators \ {m} : pc'[x] = pc[x] /\ step'[x] = step[x]
  BY <1>2 DEF TypeOK
<1>6. \A x \in Migrators \ {m} : TxInv(x)' /\ ~InTransaction(x)'
  BY <1>1, <1>5, OthersOut
<1>7. TxInv(m)' /\ InTransaction(m)'
  <2>1. tx'[m] = Moving(k) /\ ran'[m] = {} /\ \A i : Moving(i)' = Moving(i)
    BY <1>1, <1>2, <1>3, MovingKept DEF TypeOK
  <2>2. CASE k < 3
    <3>1. pc'[m] = "relocate" /\ step'[m] = k + 1 /\ k + 1 - 1 = k
      BY <1>1, <1>2, <2>2 DEF TypeOK
    <3>2. Moving(step[m] - 1)' = Moving(k)
      <4>1. step'[m] - 1 = k /\ db' = db
        BY <1>1, <1>2, <3>1
      <4> HIDE DEF k
      <4> QED
        BY <4>1 DEF Moving, NeedsMove, Holds
    <3> QED
      BY <2>1, <3>1, <3>2 DEF TxInv, InTransaction
  <2>3. CASE ~(k < 3)
    <3>1. pc'[m] = "read" /\ k = 3
      BY <1>1, <1>2, <2>3 DEF TypeOK
    <3> QED
      BY <2>1, <3>1 DEF TxInv, InTransaction
  <2> QED
    BY <2>2, <2>3
<1>8. TypeOK'
  <2>1. tx' \in [Migrators -> Databases]
    BY <1>3, <1>4 DEF TypeOK
  <2>2. \A x \in Migrators : InTransaction(x)' <=> lock' = x
    BY <1>1, <1>2, <1>6, <1>7
  <2>3. step' \in [Migrators -> 1 .. 3]
    BY <1>1, <1>2 DEF TypeOK
  <2>4. pc' \in [Migrators -> {"start", "relocate", "read", "upgrade", "done", "failed", "down"}]
    BY <1>1, <1>2 DEF TypeOK
  <2> QED
    BY <1>2, <2>1, <2>2, <2>3, <2>4 DEF TypeOK
<1>9. CommittedInv'
  BY <1>2, CommittedKept
<1>10. MigrationsSucceed'
  BY <1>2 DEF MigrationsSucceed, NoForeign, TypeOK
<1> QED
  BY <1>6, <1>7, <1>8, <1>9, <1>10

\* The revision that is read is the one of the committed tables.
LEMMA ReadNext ==
  ASSUME MigrationInv, NEW m \in Migrators, ReadVersion(m)
  PROVE  MigrationInv'
<1> USE MigrationAssumption DEF MigrationInv
<1> DEFINE version == tx[m]["target"]["alembic_version"]
           made == [owner |-> "new", rev |-> 0]
           r == Revision(db)
<1>1. /\ pc[m] = "read" /\ lock = m /\ tx[m] = Moving(3) /\ ran[m] = {}
      /\ tx \in [Migrators -> Databases] /\ db \in Databases
  BY DEF ReadVersion, TxInv, TypeOK, InTransaction
<1>2. /\ tx' = IF version # Absent THEN tx
               ELSE [tx EXCEPT ![m]["target"]["alembic_version"] = made]
      /\ pc' = [pc EXCEPT ![m] = "upgrade"]
      /\ UNCHANGED <<db, initial, lock, step, ran, applied, starts, seen>>
  BY DEF ReadVersion, Holds
<1>3. /\ "public" \in Schemas /\ "target" \in Schemas
      /\ "alembic_version" \in Names /\ "trades" \in Names /\ "daily_pnl" \in Names
  BY NamesAre DEF Schemas
<1>4. r \in 0 .. Head /\ ~Theirs("alembic_version")
  BY DEF CommittedInv, Head
<1>5. /\ r # 0 => version # Absent /\ version.rev = r
      /\ r = 0 => version = Absent
  <2>1. /\ Has("alembic_version", r) <=> r # 0
        /\ RevAt("alembic_version", r) = r
    BY <1>3, <1>4, RevisionsOfTables
  <2>2. /\ r # 0 => version.owner \in {"ours", "new"} /\ version.rev = r
        /\ r = 0 => version = Absent
    BY <1>1, <1>3, <1>4, <2>1, MovedIs
  <2> HIDE DEF version
  <2> QED
    BY <2>2 DEF Absent
<1>6. made \in Tables
  BY DEF Tables, Head
<1>7. /\ tx' \in [Migrators -> Databases] /\ tx'[m]["public"] = tx[m]["public"]
      /\ tx'[m]["target"]["alembic_version"] = IF version # Absent THEN version ELSE made
      /\ tx'[m]["target"]["trades"] = tx[m]["target"]["trades"]
      /\ tx'[m]["target"]["daily_pnl"] = tx[m]["target"]["daily_pnl"]
  <2>1. CASE version # Absent
    BY <1>1, <1>2, <2>1
  <2>2. CASE version = Absent
    BY <1>1, <1>2, <1>3, <1>6, <2>2 DEF Databases
  <2> QED
    BY <2>1, <2>2
<1>8. \A x \in Migrators \ {m} : TxInv(x)' /\ ~InTransaction(x)'
  BY <1>1, <1>2, OthersOut DEF TypeOK
<1>9. pc'[m] = "upgrade" /\ InTransaction(m)'
  BY <1>2 DEF InTransaction, TypeOK
<1>10. TypeOK'
  <2>1. \A x \in Migrators : InTransaction(x)' <=> lock' = x
    BY <1>1, <1>2, <1>8, <1>9
  <2> QED
    BY <1>2, <1>7, <2>1 DEF TypeOK
<1>11. TxInv(m)'
  <2>1. /\ Moving(3)' = Moving(3) /\ Revision(db)' = r
        /\ ran'[m] = {}
    BY <1>1, <1>2, MovingKept
  <2>2. Version(m)' = r
    <3>1. Version(m)' = tx'[m]["target"]["alembic_version"].rev
      BY DEF Version
    <3> HIDE DEF version
    <3> QED
      BY <1>5, <1>7, <3>1
  <2>3. tx'[m]["target"]["alembic_version"].owner =
          IF r = 0 THEN "new" ELSE Moving(3)["target"]["alembic_version"].owner
    <3>1. version = Moving(3)["target"]["alembic_version"]
      BY <1>1
    <3> HIDE DEF version
    <3> QED
      BY <1>5, <1>7, <3>1
  <2>4. ASSUME NEW n \in {"trades", "daily_pnl"}
        PROVE  Upgraded(m, n, Version(m))'
    <3>1. n \in Names /\ tx'[m]["target"][n] = Moving(3)["target"][n]
      BY <1>1, <1>3, <1>7
    <3>2. Has(n, r) => Moving(3)["target"][n].rev = RevAt(n, r)
      BY <3>1, MovedIs
    <3>3. Moving(3)["target"][n] = [owner |-> Moving(3)["target"][n].owner,
                                    rev |-> Moving(3)["target"][n].rev]
      BY <1>1, <1>3, <3>1, MovingIs, TableIs
    <3> QED
      BY <2>1, <2>2, <3>1, <3>2, <3>3 DEF Upgraded
  <2>5. r \in r .. Head /\ {} = r + 1 .. r
    BY <1>4 DEF Head
  <2> QED
    BY <1>1, <1>7, <1>9, <2>1, <2>2, <2>3, <2>4, <2>5 DEF TxInv
<1>12. CommittedInv'
  BY <1>2, CommittedKept
<1>13. MigrationsSucceed'
  BY <1>2 DEF MigrationsSucceed, NoForeign, TypeOK
<1> QED
  BY <1>8, <1>10, <1>11, <1>12, <1>13

\* The transactions with one table of the target schema set in that of a migrator.
WithTable(m, n, t, f) == [f EXCEPT ![m]["target"][n] = t]

\* Setting one table of the target schema sets that table.
LEMMA SetTable ==
  ASSUME NEW f \in [Migrators -> Databases], NEW m \in Migrators, NEW n \in Names,
         NEW t \in Tables, NEW g, g = WithTable(m, n, t, f)
  PROVE  /\ g \in [Migrators -> Databases] /\ g[m]["public"] = f[m]["public"]
         /\ g[m]["target"][n] = t
         /\ \A o \in Names \ {n} : g[m]["target"][o] = f[m]["target"][o]
<1>1. /\ "public" \in Schemas /\ "target" \in Schemas
      /\ f \in [Migrators -> [Schemas -> [Names -> Tables \cup {Absent}]]]
  BY DEF Schemas, Databases
<1>2. g[m] = [f[m] EXCEPT !["target"][n] = t]
  BY <1>1 DEF WithTable
<1>3. g[m]["target"] = [f[m]["target"] EXCEPT ![n] = t] /\ g[m]["public"] = f[m]["public"]
  BY <1>1, <1>2
<1>4. g[m]["target"] \in [Names -> Tables \cup {Absent}]
  BY <1>1, <1>3
<1>5. g[m] \in Databases
  BY <1>1, <1>2, <1>4 DEF Databases
<1>6. g \in [Migrators -> Databases]
  BY <1>5 DEF WithTable
<1> QED
  BY <1>1, <1>3, <1>6

\* A revision makes what it makes, on the tables that the transaction has.
LEMMA AppliedIs ==
  ASSUME TypeOK, NEW m \in Migrators, NEW v \in 0 .. 2, v = Version(m),
         tx' = Applied(m, v + 1),
         v = 1 => tx[m]["target"]["trades"].owner # "none",
         tx[m]["target"]["alembic_version"] # Absent
  PROVE  /\ tx' \in [Migrators -> Databases] /\ tx'[m]["public"] = tx[m]["public"]
         /\ tx'[m]["target"]["alembic_version"] =
              [owner |-> tx[m]["target"]["alembic_version"].owner, rev |-> v + 1]
         /\ tx'[m]["target"]["trades"] =
              CASE v = 0 -> [owner |-> "new", rev |-> 1]
                [] v = 1 -> [owner |-> tx[m]["target"]["trades"].owner, rev |-> 2]
                [] v = 2 -> tx[m]["target"]["trades"]
         /\ tx'[m]["target"]["daily_pnl"] =
              IF v = 2 THEN [owner |-> "new", rev |-> 3] ELSE tx[m]["target"]["daily_pnl"]
<1> DEFINE version == tx[m]["target"]["alembic_version"]
           trades == tx[m]["target"]["trades"]
           pnl == tx[m]["target"]["daily_pnl"]
<1>1. /\ "public" \in Schemas /\ "target" \in Schemas
      /\ "alembic_version" \in Names /\ "trades" \in Names /\ "daily_pnl" \in Names
  BY NamesAre DEF Schemas
<1>2. /\ tx \in [Migrators -> [Schemas -> [Names -> Tables \cup {Absent}]]]
      /\ tx[m] \in Databases
  BY DEF TypeOK, Databases
<1>3. /\ version = [owner |-> version.owner, rev |-> version.rev]
      /\ trades = [owner |-> trades.owner, rev |-> trades.rev]
      /\ version.owner \in {"ours", "new", "theirs", "none"}
      /\ trades.owner \in {"ours", "new", "theirs", "none"}
      /\ version.owner # "none"
  BY <1>1, <1>2, TableIs
<1>4. /\ [version EXCEPT !.rev = v + 1] = [owner |-> version.owner, rev |-> v + 1]
      /\ [trades EXCEPT !.rev = 2] = [owner |-> trades.owner, rev |-> 2]
  <2> HIDE DEF version, trades
  <2> QED
    BY <1>3
<1>5. /\ [owner |-> version.owner, rev |-> v + 1] \in Tables
      /\ v = 1 => [owner |-> trades.owner, rev |-> 2] \in Tables
      /\ [owner |-> "new", rev |-> 1] \in Tables /\ [owner |-> "new", rev |-> 3] \in Tables
  <2> HIDE DEF version
  <2> QED
    BY <1>3 DEF Tables, Head
<1>6. ASSUME NEW n \in {"trades", "daily_pnl"}, NEW t \in Tables,
             tx' = [tx EXCEPT ![m]["target"][n] = t,
                              ![m]["target"]["alembic_version"].rev = v + 1]
      PROVE  /\ tx' \in [Migrators -> Databases] /\ tx'[m]["public"] = tx[m]["public"]
             /\ tx'[m]["target"]["alembic_version"] = [owner |-> version.owner, rev |-> v + 1]
             /\ tx'[m]["target"][n] = t
             /\ \A o \in {"trades", "daily_pnl"} \ {n} :
                   tx'[m]["target"][o] = tx[m]["target"][o]
  <2> DEFINE w == [owner |-> version.owner, rev |-> v + 1]
  <2>1. n \in Names /\ n # "alembic_version" /\ w \in Tables
    BY <1>1, <1>5
  <2>0. PICK g : g = WithTable(m, n, t, tx)
    OBVIOUS
  <2>2. /\ g \in [Migrators -> Databases] /\ g[m]["public"] = tx[m]["public"]
        /\ g[m]["target"][n] = t
        /\ \A o \in Names \ {n} : g[m]["target"][o] = tx[m]["target"][o]
    <3>1. /\ tx \in [Migrators -> Databases] /\ n \in Names
          /\ t \in Tables /\ m \in Migrators
      BY <2>1 DEF TypeOK
    <3> HIDE DEF w, version, trades, pnl
    <3> QED
      BY <2>0, <3>1, SetTable
  <2>3. tx' = [g EXCEPT ![m]["target"]["alembic_version"].rev = v + 1]
    BY <1>6, <2>0 DEF WithTable
  <2>4. tx' = [g EXCEPT ![m]["target"]["alembic_version"] =
                          [g[m]["target"]["alembic_version"] EXCEPT !.rev = v + 1]]
    BY <2>3
  <2>5. g[m]["target"]["alembic_version"] = version
    BY <1>1, <2>1, <2>2
  <2>6. tx' = WithTable(m, "alembic_version", w, g)
    BY <1>4, <2>4, <2>5 DEF WithTable
  <2> HIDE DEF w
  <2>7. /\ tx' \in [Migrators -> Databases] /\ tx'[m]["public"] = g[m]["public"]
        /\ tx'[m]["target"]["alembic_version"] = w
        /\ \A o \in Names \ {"alembic_version"} : tx'[m]["target"][o] = g[m]["target"][o]
    BY <1>1, <2>1, <2>2, <2>6, SetTable
  <2> QED
    BY <1>1, <2>1, <2>2, <2>7 DEF w
<1>7. CASE v = 0
  <2>1. tx' = [tx EXCEPT ![m]["target"]["trades"] = [owner |-> "new", rev |-> 1],
                         ![m]["target"]["alembic_version"].rev = v + 1]
    BY <1>7 DEF Applied
  <2> QED
    BY <1>5, <1>6, <1>7, <2>1
<1>8. CASE v = 1
  <2> DEFINE t == [owner |-> trades.owner, rev |-> 2]
  <2>1. tx' = [tx EXCEPT ![m]["target"]["trades"].rev = 2,
                         ![m]["target"]["alembic_version"].rev = v + 1]
    BY <1>8 DEF Applied
  <2>2. tx' = [tx EXCEPT ![m]["target"]["trades"] = [trades EXCEPT !.rev = 2],
                         ![m]["target"]["alembic_version"].rev = v + 1]
    BY <2>1
  <2>3. tx' = [tx EXCEPT ![m]["target"]["trades"] = t,
                         ![m]["target"]["alembic_version"].rev = v + 1]
    BY <1>4, <2>2
  <2>4. t \in Tables /\ "trades" \in {"trades", "daily_pnl"}
    BY <1>5, <1>8
  <2>5. /\ tx' \in [Migrators -> Databases] /\ tx'[m]["public"] = tx[m]["public"]
        /\ tx'[m]["target"]["alembic_version"] = [owner |-> version.owner, rev |-> v + 1]
        /\ tx'[m]["target"]["trades"] = t
        /\ \A o \in {"trades", "daily_pnl"} \ {"trades"} :
              tx'[m]["target"][o] = tx[m]["target"][o]
    <3> HIDE DEF t
    <3> QED
      BY <1>6, <2>3, <2>4
  <2>6. tx'[m]["target"]["daily_pnl"] = tx[m]["target"]["daily_pnl"]
    BY <2>5
  <2> QED
    BY <1>8, <2>5, <2>6
<1>9. CASE v = 2
  <2>1. tx' = [tx EXCEPT ![m]["target"]["daily_pnl"] = [owner |-> "new", rev |-> 3],
                         ![m]["target"]["alembic_version"].rev = v + 1]
    BY <1>9 DEF Applied
  <2> QED
    BY <1>5, <1>6, <1>9, <2>1
<1> QED
  BY <1>7, <1>8, <1>9

\* What an upgrade works on: the tables of the transaction at the version it has come
\* to, and the database that it began with.
LEMMA UpgradeIs ==
  ASSUME MigrationInv, NEW m \in Migrators, pc[m] = "upgrade"
  PROVE  /\ lock = m /\ tx[m] \in Databases
         /\ Revision(db) \in 0 .. Head /\ Version(m) \in Revision(db) .. Head
         /\ tx[m]["target"]["alembic_version"] =
              [owner |-> tx[m]["target"]["alembic_version"].owner, rev |-> Version(m)]
         /\ tx[m]["target"]["alembic_version"].owner \in {"ours", "new"}
         /\ Revision(db) # 0 =>
              tx[m]["target"]["alembic_version"].owner =
                Moving(3)["target"]["alembic_version"].owner
         /\ \A n \in {"trades", "daily_pnl"} :
              /\ ~Has(n, Version(m)) =>
                   tx[m]["target"][n] = IF Theirs(n) THEN initial["public"][n] ELSE Absent
              /\ Has(n, Version(m)) =>
                   /\ tx[m]["target"][n].owner \in {"ours", "new"}
                   /\ tx[m]["target"][n].rev = RevAt(n, Version(m))
                   /\ ~Has(n, Revision(db)) => ~Theirs(n)
                   /\ Has(n, Revision(db)) =>
                        tx[m]["target"][n].owner = Moving(3)["target"][n].owner
<1> USE DEF MigrationInv
<1> DEFINE version == tx[m]["target"]["alembic_version"]
           moved == Moving(3)["target"]
           r == Revision(db)
           v == Version(m)
<1>1. lock = m /\ tx[m] \in Databases
  BY DEF TypeOK, InTransaction
<1>2. /\ "target" \in Schemas /\ "alembic_version" \in Names
      /\ "trades" \in Names /\ "daily_pnl" \in Names
  BY NamesAre DEF Schemas
<1>3. r \in 0 .. Head /\ v \in r .. Head /\ v \in 0 .. Head
  BY DEF CommittedInv, TxInv, Head
<1>4. version.owner = IF r = 0 THEN "new" ELSE moved["alembic_version"].owner
  BY DEF TxInv
<1>5. r # 0 => moved["alembic_version"].owner \in {"ours", "new"}
  BY <1>2, <1>3, MovedIs, RevisionsOfTables
<1>6. version = [owner |-> version.owner, rev |-> v]
  BY <1>1, <1>2, TableIs DEF Version
<1>7. ASSUME NEW n \in {"trades", "daily_pnl"}
      PROVE  /\ ~Has(n, v) => tx[m]["target"][n] = IF Theirs(n) THEN initial["public"][n]
                                                   ELSE Absent
             /\ Has(n, v) =>
                  /\ tx[m]["target"][n].owner \in {"ours", "new"}
                  /\ tx[m]["target"][n].rev = RevAt(n, v)
                  /\ ~Has(n, r) => ~Theirs(n)
                  /\ Has(n, r) => tx[m]["target"][n].owner = moved[n].owner
  <2>1. /\ n \in Names
        /\ Upgraded(m, n, v)
    BY <1>2 DEF TxInv
  <2>2. Has(n, r) => Has(n, v)
    BY <1>3 DEF Has, Head
  <2>3. /\ Has(n, r) => moved[n].owner \in {"ours", "new"}
        /\ ~Has(n, r) => moved[n] = IF Theirs(n) THEN initial["public"][n] ELSE Absent
    BY <2>1, MovedIs
  <2>4. Theirs(n) => initial["public"][n] # Absent
    BY DEF Theirs, Absent
  <2>5. CASE Has(n, r)
    <3>1. tx[m]["target"][n] = [owner |-> moved[n].owner, rev |-> RevAt(n, v)]
      BY <2>1, <2>5 DEF Upgraded
    <3> HIDE DEF moved, r, v
    <3> QED
      BY <2>2, <2>3, <2>5, <3>1
  <2>6. CASE ~Has(n, r) /\ Has(n, v)
    <3>1. /\ moved[n] = Absent
          /\ tx[m]["target"][n] = [owner |-> "new", rev |-> RevAt(n, v)]
      BY <2>1, <2>6 DEF Upgraded
    <3> HIDE DEF moved, r, v
    <3> QED
      BY <2>3, <2>4, <2>6, <3>1
  <2>7. CASE ~Has(n, r) /\ ~Has(n, v)
    <3>1. tx[m]["target"][n] = moved[n]
      BY <2>1, <2>7 DEF Upgraded
    <3> HIDE DEF moved, r, v
    <3> QED
      BY <2>3, <2>7, <3>1
  <2> QED
    BY <2>5, <2>6, <2>7
<1> HIDE DEF version, moved, r, v
<1>8. version.owner \in {"ours", "new"} /\ (r # 0 => version.owner = moved["alembic_version"].owner)
  BY <1>4, <1>5
<1> QED
  BY <1>1, <1>3, <1>6, <1>7, <1>8 DEF version, moved, r, v

\* A revision takes the transaction from one version to the next.
LEMMA UpgradeNext ==
  ASSUME MigrationInv, NEW m \in Migrators, Upgrade(m)
  PROVE  MigrationInv'
<1> DEFINE r == Revision(db)
           v == Version(m)
           version == tx[m]["target"]["alembic_version"]
           trades == tx[m]["target"]["trades"]
           pnl == tx[m]["target"]["daily_pnl"]
<1>1. /\ pc[m] = "upgrade" /\ v < Head /\ Applicable(m, v + 1)
      /\ tx' = Applied(m, v + 1) /\ ran' = [ran EXCEPT ![m] = @ \cup {v + 1}]
      /\ UNCHANGED <<db, initial, lock, pc, step, applied, starts, seen>>
  BY DEF Upgrade
<1>2. /\ lock = m /\ r \in 0 .. Head /\ v \in r .. Head /\ v \in 0 .. 2
      /\ version = [owner |-> version.owner, rev |-> v] /\ version.owner \in {"ours", "new"}
      /\ r # 0 => version.owner = Moving(3)["target"]["alembic_version"].owner
  BY <1>1, UpgradeIs DEF Head
<1>3. TypeOK /\ TxInv(m) /\ CommittedInv
  BY DEF MigrationInv
<1>4. v = 1 => trades.owner # "none"
  <2>1. "trades" \in {"trades", "daily_pnl"}
    OBVIOUS
  <2>2. Has("trades", v) => trades.owner \in {"ours", "new"}
    BY <1>1, <2>1, UpgradeIs
  <2> QED
    BY <2>2 DEF Has
<1>5. version # Absent /\ version.owner # "none"
  <2> HIDE DEF version
  <2> QED
    BY <1>2 DEF Absent
<1>6. /\ tx' \in [Migrators -> Databases] /\ tx'[m]["public"] = tx[m]["public"]
      /\ tx'[m]["target"]["alembic_version"] = [owner |-> version.owner, rev |-> v + 1]
      /\ tx'[m]["target"]["trades"] =
           CASE v = 0 -> [owner |-> "new", rev |-> 1]
             [] v = 1 -> [owner |-> trades.owner, rev |-> 2]
             [] v = 2 -> trades
      /\ tx'[m]["target"]["daily_pnl"] = IF v = 2 THEN [owner |-> "new", rev |-> 3] ELSE pnl
  BY <1>1, <1>2, <1>3, <1>4, <1>5, AppliedIs
<1>7. \A x \in Migrators \ {m} : TxInv(x)' /\ ~InTransaction(x)'
  BY <1>1, <1>2, <1>3, OthersOut
<1>8. TypeOK'
  <2>1. \A x \in Migrators : InTransaction(x)' <=> InTransaction(x)
    BY <1>1 DEF InTransaction
  <2>2. v + 1 \in Revisions
    BY <1>2 DEF Revisions, Head
  <2>3. ran' \in [Migrators -> SUBSET Revisions]
    BY <1>1, <1>3, <2>2 DEF TypeOK
  <2> QED
    BY <1>1, <1>3, <1>6, <2>1, <2>3 DEF TypeOK
<1>9. TxInv(m)'
  <2>1. /\ Moving(3)' = Moving(3) /\ Revision(db)' = r
    BY <1>1, MovingKept
  <2>2. Version(m)' = v + 1
    <3>1. Version(m)' = tx'[m]["target"]["alembic_version"].rev
      BY DEF Version
    <3> QED
      BY <1>6, <3>1
  <2>3. /\ Version(m)' \in r .. Head
        /\ ran'[m] = r + 1 .. v + 1
    <3>1. ran[m] = r + 1 .. v
      BY <1>1, <1>3 DEF TxInv
    <3>2. ran'[m] = ran[m] \cup {v + 1}
      BY <1>1, <1>3 DEF TypeOK
    <3> HIDE DEF v, r
    <3> QED
      BY <1>2, <2>2, <3>1, <3>2 DEF Head
  <2>4. /\ tx'[m]["public"] = Moving(3)["public"]
        /\ tx'[m]["target"]["alembic_version"].owner =
             IF r = 0 THEN "new" ELSE Moving(3)["target"]["alembic_version"].owner
    BY <1>1, <1>3, <1>6 DEF TxInv
  <2>5. Upgraded(m, "trades", v) /\ Upgraded(m, "daily_pnl", v)
    BY <1>1, <1>3 DEF TxInv
  <2>6. Upgraded(m, "trades", Version(m))'
    <3> DEFINE moved == Moving(3)["target"]["trades"]
    <3>1. Upgraded(m, "trades", Version(m))' <=>
            IF Has("trades", r)
            THEN tx'[m]["target"]["trades"] = [owner |-> moved.owner, rev |-> RevAt("trades", v + 1)]
            ELSE IF Has("trades", v + 1)
            THEN moved = Absent /\
                 tx'[m]["target"]["trades"] = [owner |-> "new", rev |-> RevAt("trades", v + 1)]
            ELSE tx'[m]["target"]["trades"] = moved
      BY <2>1, <2>2 DEF Upgraded
    <3>2. IF Has("trades", r)
          THEN trades = [owner |-> moved.owner, rev |-> RevAt("trades", v)]
          ELSE IF Has("trades", v)
          THEN moved = Absent /\ trades = [owner |-> "new", rev |-> RevAt("trades", v)]
          ELSE trades = moved
      BY <2>5 DEF Upgraded
    <3>3. v = 0 => trades = Absent
      BY <1>1 DEF Applicable, Holds
    <3> HIDE DEF moved, trades, r, v
    <3>4. CASE v = 0
      BY <1>2, <1>6, <3>1, <3>2, <3>3, <3>4 DEF Has, RevAt
    <3>5. CASE v = 1
      BY <1>2, <1>6, <3>1, <3>2, <3>5 DEF Has, RevAt
    <3>6. CASE v = 2
      BY <1>2, <1>6, <3>1, <3>2, <3>6 DEF Has, RevAt
    <3> QED
      BY <1>2, <3>4, <3>5, <3>6
  <2>7. Upgraded(m, "daily_pnl", Version(m))'
    <3> DEFINE moved == Moving(3)["target"]["daily_pnl"]
    <3>1. Upgraded(m, "daily_pnl", Version(m))' <=>
            IF Has("daily_pnl", r)
            THEN tx'[m]["target"]["daily_pnl"] =
                   [owner |-> moved.owner, rev |-> RevAt("daily_pnl", v + 1)]
            ELSE IF Has("daily_pnl", v + 1)
            THEN moved = Absent /\ tx'[m]["target"]["daily_pnl"] =
                   [owner |-> "new", rev |-> RevAt("daily_pnl", v + 1)]
            ELSE tx'[m]["target"]["daily_pnl"] = moved
      BY <2>1, <2>2 DEF Upgraded
    <3>2. ~Has("daily_pnl", r) /\ ~Has("daily_pnl", v) => pnl = moved
      BY <2>5 DEF Upgraded
    <3>3. v = 2 => pnl = Absent
      BY <1>1 DEF Applicable, Holds
    <3> HIDE DEF moved, pnl, r, v
    <3> QED
      BY <1>2, <1>6, <3>1, <3>2, <3>3 DEF Has, RevAt
  <2>8. \A n \in {"trades", "daily_pnl"} : Upgraded(m, n, Version(m))'
    BY <2>6, <2>7
  <2> HIDE DEF r, v
  <2> QED
    BY <1>1, <2>1, <2>2, <2>3, <2>4, <2>8 DEF TxInv
<1>10. CommittedInv'
  BY <1>1, <1>3, CommittedKept
<1>11. MigrationsSucceed'
  BY <1>1 DEF MigrationInv, MigrationsSucceed, NoForeign
<1> QED
  BY <1>7, <1>8, <1>9, <1>10, <1>11 DEF MigrationInv

\* A statement fails only if a name is taken by a table of another project.
LEMMA UpgradeFailsNext ==
  ASSUME MigrationInv, NEW m \in Migrators, UpgradeFails(m)
  PROVE  MigrationInv'
<1> DEFINE r == Revision(db)
           v == Version(m)
<1>1. /\ pc[m] = "upgrade" /\ v < Head /\ ~Applicable(m, v + 1)
      /\ pc' = [pc EXCEPT ![m] = "failed"]
      /\ lock' = IF lock = m THEN Nobody ELSE lock
      /\ UNCHANGED <<db, initial, step, tx, ran, applied, starts, seen>>
  BY DEF UpgradeFails, Release
<1>2. TypeOK /\ CommittedInv /\ lock = m
  BY <1>1 DEF MigrationInv, TypeOK, InTransaction
<1>3. \A x \in Migrators \ {m} : TxInv(x)' /\ ~InTransaction(x)'
  BY <1>1, <1>2, OthersOut DEF TypeOK
<1>4. pc'[m] = "failed" /\ ~InTransaction(m)'
  BY <1>1, <1>2 DEF TypeOK, InTransaction
<1>5. TypeOK'
  <2>1. \A x \in Migrators : ~(InTransaction(x)') /\ lock' # x
    BY <1>1, <1>2, <1>3, <1>4, MigrationAssumption
  <2> QED
    BY <1>1, <1>2, <2>1 DEF TypeOK
<1>6. TxInv(m)'
  BY <1>4 DEF TxInv
<1>7. ~NoForeign
  <2>1. SUFFICES ASSUME NoForeign PROVE FALSE
    OBVIOUS
  <2>2. ~Theirs("trades") /\ ~Theirs("daily_pnl")
    BY <2>1, NamesAre DEF NoForeign, Theirs
  <2>3. v \in 0 .. 2
    <3>1. r \in 0 .. Head /\ v \in r .. Head
      BY <1>1, UpgradeIs
    <3> HIDE DEF r, v
    <3> QED
      BY <1>1, <3>1 DEF Head
  <2>4. /\ v = 0 => tx[m]["target"]["trades"] = Absent
        /\ v = 1 => tx[m]["target"]["trades"].rev = 1
        /\ v = 2 => tx[m]["target"]["daily_pnl"] = Absent
    <3>1. "trades" \in {"trades", "daily_pnl"} /\ "daily_pnl" \in {"trades", "daily_pnl"}
      OBVIOUS
    <3>2. /\ ~Has("trades", v) => tx[m]["target"]["trades"] = Absent
          /\ Has("trades", v) => tx[m]["target"]["trades"].rev = RevAt("trades", v)
          /\ ~Has("daily_pnl", v) => tx[m]["target"]["daily_pnl"] = Absent
      BY <1>1, <2>2, <3>1, UpgradeIs
    <3> HIDE DEF v
    <3> QED
      BY <3>2 DEF Has, RevAt
  <2>5. Applicable(m, v + 1)
    <3> HIDE DEF v
    <3>1. CASE v = 0
      BY <2>4, <3>1 DEF Applicable, Holds
    <3>2. CASE v = 1
      BY <2>4, <3>2 DEF Applicable, Holds
    <3>3. CASE v = 2
      BY <2>4, <3>3 DEF Applicable, Holds
    <3> QED
      BY <2>3, <3>1, <3>2, <3>3
  <2> QED
    BY <1>1, <2>5
<1>8. CommittedInv'
  BY <1>1, <1>2, CommittedKept
<1>9. MigrationsSucceed'
  BY <1>1, <1>7 DEF MigrationsSucceed, NoForeign
<1> QED
  BY <1>3, <1>5, <1>6, <1>8, <1>9 DEF MigrationInv

\* A commit makes the tables of the transaction the committed ones: they are whole, at
\* the last revision, and the revisions that it counts had not been committed before.
LEMMA CommitNext ==
  ASSUME MigrationInv, NEW m \in Migrators, Commit(m)
  PROVE  MigrationInv'
<1> DEFINE r == Revision(db)
           t == tx[m]
<1>1. /\ pc[m] = "upgrade" /\ Version(m) = Head /\ db' = t
      /\ applied' = [x \in Revisions |-> applied[x] + (IF x \in ran[m] THEN 1 ELSE 0)]
      /\ pc' = [pc EXCEPT ![m] = "done"]
      /\ lock' = IF lock = m THEN Nobody ELSE lock
      /\ UNCHANGED <<initial, step, tx, ran, starts, seen>>
  BY DEF Commit, Release
<1>2. TypeOK /\ TxInv(m) /\ CommittedInv /\ MigrationsSucceed
  BY DEF MigrationInv
<1>3. /\ lock = m /\ t \in Databases /\ r \in 0 .. Head
      /\ t["target"]["alembic_version"].rev = Head
      /\ t["target"]["alembic_version"].owner \in {"ours", "new"}
      /\ r # 0 => t["target"]["alembic_version"].owner =
                    Moving(3)["target"]["alembic_version"].owner
  <2>1. Version(m) = t["target"]["alembic_version"].rev
    BY DEF Version
  <2> HIDE DEF t
  <2> QED
    BY <1>1, <2>1, UpgradeIs DEF t
<1>4. ASSUME NEW n \in Names
      PROVE  /\ t["target"][n].owner \in {"ours", "new"}
             /\ t["target"][n].rev = RevAt(n, Head)
             /\ ~Has(n, r) => ~Theirs(n)
             /\ Has(n, r) => t["target"][n].owner = Moving(3)["target"][n].owner
  <2>1. CASE n = "alembic_version"
    <3>1. RevAt(n, Head) = Head /\ (Has(n, r) <=> r # 0) /\ ~Theirs(n)
      BY <1>2, <1>3, <2>1, RevisionsOfTables DEF CommittedInv, Head
    <3> QED
      BY <1>3, <2>1, <3>1
  <2>2. CASE n # "alembic_version"
    <3>1. n \in {"trades", "daily_pnl"} /\ Has(n, Head)
      BY <1>3, <2>2, NamesAre, RevisionsOfTables
    <3> QED
      BY <1>1, <3>1, UpgradeIs
  <2> QED
    BY <2>1, <2>2
<1>5. ASSUME NEW n \in Names
      PROVE  t["public"][n] = IF Theirs(n) THEN initial["public"][n] ELSE Absent
  <2>1. t["public"] = Moving(3)["public"]
    BY <1>1, <1>2 DEF TxInv
  <2>2. Moving(3)["public"][n] = IF Has(n, r) /\ Theirs(n) THEN initial["public"][n] ELSE Absent
    BY <1>2, MovedIs
  <2> QED
    BY <1>4, <2>1, <2>2
<1> HIDE DEF t, r
<1>6. /\ "public" \in Schemas /\ "target" \in Schemas /\ "public" # "target"
      /\ \A s \in Schemas : s = "public" \/ s = "target"
      /\ "alembic_version" \in Names
  BY NamesAre DEF Schemas
<1>7. \A n \in Names : Theirs(n)' <=> Theirs(n)
  BY <1>1 DEF Theirs
<1>8. Revision(db)' = Head
  <2>1. t["public"]["alembic_version"] = Absent
    BY <1>2, <1>5, <1>6 DEF CommittedInv
  <2>2. Revision(db)' = t["target"]["alembic_version"].rev
    BY <1>1, <2>1 DEF Revision, Holds
  <2> QED
    BY <1>3, <2>2
<1>9. WholeIn(db, "target", Revision(db))'
  <2> SUFFICES ASSUME NEW n \in Names, NEW z \in Schemas
               PROVE  IF z = "target" /\ Has(n, Head)
                      THEN Mine(t, z, n) /\ t[z][n].rev = RevAt(n, Head)
                      ELSE t[z][n] = IF z = "public" /\ Theirs(n) THEN initial[z][n]
                                     ELSE Absent
    BY <1>1, <1>7, <1>8 DEF WholeIn, Mine
  <2>1. Has(n, Head)
    BY <1>3, RevisionsOfTables
  <2>2. CASE z = "target"
    BY <1>4, <2>1, <2>2 DEF Mine
  <2>3. CASE z = "public"
    BY <1>5, <1>6, <2>3
  <2> QED
    BY <1>6, <2>2, <2>3
<1>10. Undisturbed(db)'
  <2> SUFFICES ASSUME NEW n \in Names
               PROVE  /\ Theirs(n) => t["public"][n] = initial["public"][n]
                      /\ (\E s \in Schemas : initial[s][n].owner = "ours") =>
                           \E s \in Schemas : t[s][n].owner = "ours"
    BY <1>1, <1>7 DEF Undisturbed
  <2>1. (\E s \in Schemas : initial[s][n].owner = "ours") =>
          Has(n, r) /\ Moving(3)["target"][n].owner = "ours"
    BY <1>2, MovedIs DEF r
  <2> QED
    BY <1>4, <1>5, <1>6, <2>1
<1>11. ASSUME NEW x \in Revisions
       PROVE  applied'[x] = IF x \in Revision(initial) + 1 .. Head THEN 1 ELSE 0
  <2>1. /\ Revision(initial) \in 0 .. Head /\ r \in Revision(initial) .. Head
        /\ applied[x] = IF x \in Revision(initial) + 1 .. r THEN 1 ELSE 0
    BY <1>2 DEF CommittedInv, r
  <2>2. ran[m] = r + 1 .. Head
    BY <1>1, <1>2 DEF TxInv, r
  <2>3. applied'[x] = applied[x] + (IF x \in r + 1 .. Head THEN 1 ELSE 0)
    BY <1>1, <2>2
  <2> QED
    BY <2>1, <2>3 DEF Revisions, Head
<1>12. CommittedInv'
  <2>1. Revision(initial)' = Revision(initial)
    BY <1>1 DEF Revision, Holds
  <2>2. /\ Revision(initial) \in 0 .. Head /\ Head \in Revision(initial) .. Head
        /\ ~Theirs("alembic_version")'
    BY <1>2, <1>6, <1>7 DEF CommittedInv, Head
  <2> QED
    BY <1>6, <1>8, <1>9, <1>10, <1>11, <2>1, <2>2 DEF CommittedInv
<1>13. \A x \in Migrators \ {m} : TxInv(x)' /\ ~InTransaction(x)'
  BY <1>1, <1>2, <1>3, OthersOut DEF TypeOK
<1>14. pc'[m] = "done" /\ ~InTransaction(m)'
  BY <1>1, <1>2 DEF TypeOK, InTransaction
<1>15. TypeOK'
  <2>1. \A x \in Migrators : ~(InTransaction(x)') /\ lock' # x
    BY <1>1, <1>3, <1>13, <1>14, MigrationAssumption
  <2>2. applied' \in [Revisions -> Nat]
    BY <1>1, <1>2 DEF TypeOK
  <2> QED
    BY <1>1, <1>2, <1>3, <2>1, <2>2 DEF TypeOK
<1>16. TxInv(m)'
  BY <1>14 DEF TxInv
<1>17. MigrationsSucceed'
  BY <1>1, <1>2 DEF MigrationsSucceed, NoForeign, TypeOK
<1> QED
  BY <1>12, <1>13, <1>15, <1>16, <1>17 DEF MigrationInv

\* A migrator that dies, or is started again, loses the lock and its transaction; an
\* executor only looks.
LEMMA OtherNext ==
  ASSUME MigrationInv,
         \/ \E m \in Migrators : Crash(m) \/ Redeploy(m)
         \/ \E e \in Executors : WaitForTable(e)
         \/ UNCHANGED vars
  PROVE  MigrationInv'
<1>1. TypeOK /\ CommittedInv /\ (\A m \in Migrators : TxInv(m)) /\ MigrationsSucceed
  BY DEF MigrationInv
<1>2. CASE \E m \in Migrators : Crash(m)
  <2>1. PICK m \in Migrators : Crash(m)
    BY <1>2
  <2>2. /\ UNCHANGED <<db, initial, step, tx, ran, applied, starts, seen>>
        /\ pc' = [pc EXCEPT ![m] = "down"]
        /\ lock' = IF lock = m THEN Nobody ELSE lock
    BY <2>1 DEF Crash, Release
  <2>3. \A x \in Migrators : pc'[x] = IF x = m THEN "down" ELSE pc[x]
    BY <1>1, <2>2 DEF TypeOK
  <2>4. TypeOK'
    <3>1. \A x \in Migrators : InTransaction(x)' <=> lock' = x
      BY <1>1, <2>2, <2>3, MigrationAssumption DEF TypeOK, InTransaction
    <3> QED
      BY <1>1, <2>2, <3>1 DEF TypeOK
  <2>5. ASSUME NEW x \in Migrators PROVE TxInv(x)'
    <3>1. CASE x = m
      BY <2>3, <3>1 DEF TxInv
    <3>2. CASE x # m
      BY <1>1, <2>2, <2>3, <3>2, TxKept
    <3> QED
      BY <3>1, <3>2
  <2>6. CommittedInv' /\ MigrationsSucceed'
    BY <1>1, <2>2, <2>3, CommittedKept DEF MigrationsSucceed, NoForeign
  <2> QED
    BY <2>4, <2>5, <2>6 DEF MigrationInv
<1>3. CASE \E m \in Migrators : Redeploy(m)
  <2>1. PICK m \in Migrators : Redeploy(m)
    BY <1>3
  <2>2. /\ UNCHANGED <<db, initial, lock, step, tx, ran, applied, seen>>
        /\ pc[m] \in {"done", "failed", "down"} /\ pc' = [pc EXCEPT ![m] = "start"]
        /\ starts < MaxStarts /\ starts' = starts + 1
    BY <2>1 DEF Redeploy
  <2>3. \A x \in Migrators : pc'[x] = IF x = m THEN "start" ELSE pc[x]
    BY <1>1, <2>2 DEF TypeOK
  <2>4. TypeOK'
    <3>1. \A x \in Migrators : InTransaction(x)' <=> lock' = x
      BY <1>1, <2>2, <2>3 DEF TypeOK, InTransaction
    <3>2. starts' \in 0 .. MaxStarts
      BY <1>1, <2>2, MigrationAssumption DEF TypeOK
    <3> QED
      BY <1>1, <2>2, <3>1, <3>2 DEF TypeOK
  <2>5. ASSUME NEW x \in Migrators PROVE TxInv(x)'
    <3>1. CASE x = m
      BY <2>3, <3>1 DEF TxInv
    <3>2. CASE x # m
      BY <1>1, <2>2, <2>3, <3>2, TxKept
    <3> QED
      BY <3>1, <3>2
  <2>6. CommittedInv' /\ MigrationsSucceed'
    BY <1>1, <2>2, <2>3, CommittedKept DEF MigrationsSucceed, NoForeign
  <2> QED
    BY <2>4, <2>5, <2>6 DEF MigrationInv
<1>4. CASE (\E e \in Executors : WaitForTable(e)) \/ UNCHANGED vars
  <2>1. UNCHANGED <<db, initial, migrator, applied>> /\ seen' \in [Executors -> {"waiting", "table", "timeout"}]
    BY <1>1, <1>4 DEF WaitForTable, vars, TypeOK
  <2>2. UNCHANGED <<db, initial, lock, pc, step, tx, ran, starts, applied>>
    BY <2>1 DEF migrator
  <2>3. TypeOK'
    <3>1. \A x \in Migrators : InTransaction(x)' <=> lock' = x
      BY <1>1, <2>2 DEF TypeOK, InTransaction
    <3> QED
      BY <1>1, <2>1, <2>2, <3>1 DEF TypeOK
  <2>4. \A x \in Migrators : TxInv(x)'
    BY <1>1, <2>2, TxKept
  <2>5. CommittedInv' /\ MigrationsSucceed'
    BY <1>1, <2>2, CommittedKept DEF MigrationsSucceed, NoForeign
  <2> QED
    BY <2>3, <2>4, <2>5 DEF MigrationInv
<1> QED
  BY <1>2, <1>3, <1>4

\* The invariant of the migrations: the committed tables are whole and those of a
\* transaction follow from them.
THEOREM MigrationInductive == Spec => []MigrationInv
<1>1. MigrationInv /\ [Next]_vars => MigrationInv'
  BY BeginNext, RelocateNext, ReadNext, UpgradeNext, UpgradeFailsNext, CommitNext, OtherNext
     DEF Next, Migrate
<1> QED
  BY <1>1, MigrationInit, PTL DEF Spec

\* The types, and mutual exclusion: whoever works on the tables holds the advisory lock.
THEOREM TypeCorrect == Spec => []TypeOK
<1>1. MigrationInv => TypeOK
  BY DEF MigrationInv
<1> QED
  BY <1>1, MigrationInductive, PTL

\* relocate_legacy_tables orphans nothing: a table that had rows has them, in one schema.
THEOREM TablesKept == Spec => []NothingOrphaned
<1>1. MigrationInv => NothingOrphaned
  BY CommittedIsWhole DEF MigrationInv
<1> QED
  BY <1>1, MigrationInductive, PTL

\* Others never see half a migration, and the tables of other projects stay.
THEOREM WholeCommits == Spec => []CommittedWhole
<1>1. MigrationInv => CommittedWhole
  BY CommittedIsWhole DEF MigrationInv
<1> QED
  BY <1>1, MigrationInductive, PTL

\* Of all the migrators together each revision is committed at most once, and not at
\* all if the database had it.
THEOREM EachRevisionOnce == Spec => []RevisionsOnce
<1>1. MigrationInv => RevisionsOnce
  BY CommittedIsWhole DEF MigrationInv
<1> QED
  BY <1>1, MigrationInductive, PTL

\* No migration fails where no other project has a table of one of the names.
THEOREM NoneFails == Spec => []MigrationsSucceed
<1>1. MigrationInv => MigrationsSucceed
  BY DEF MigrationInv
<1> QED
  BY <1>1, MigrationInductive, PTL
================================================================================
