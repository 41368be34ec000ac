-------------------------- MODULE MigrationProofs --------------------------
(***************************************************************************)
(* The properties of Migrations, for any number of users and rows.  The    *)
(* invariant says of every position of a script what the schema is there,  *)
(* and what is known of the owners of the rows.                            *)
(***************************************************************************)
EXTENDS Migrations, FiniteSetTheorems, WellFoundedInduction, TLAPS

Index(t) == IF t = "drivers" THEN 1 ELSE IF t = "vehicles" THEN 2 ELSE 3

\* The scripts that change columns: the last upgrade and the first downgrade.
Raising(x) == x.up /\ x.db.revision = 2
Lowering(x) == ~x.up /\ x.db.revision = 3

Length(x) ==
    IF x.db.revision = x.goal THEN 1
    ELSE IF Raising(x) THEN 19
    ELSE IF Lowering(x) THEN 6
    ELSE IF ~x.up /\ x.db.revision = 1 THEN 2 ELSE 1

\* A run moves from the committed revision d to its goal.
Progress(d, x) ==
    /\ x.step <= Length(x)
    /\ x.up => d.revision <= x.db.revision /\ x.db.revision <= x.goal
    /\ x.up => d.revision < x.goal
    /\ ~x.up => x.goal <= x.db.revision /\ x.db.revision <= d.revision
    /\ ~x.up => x.goal < d.revision

RaisedColumn(step, t) ==
    IF step <= Index(t) THEN "none"
    ELSE IF step <= 13 + Index(t) THEN "nullable"
    ELSE IF step <= 16 + Index(t) THEN "required" ELSE "references_users"

LoweredColumn(step, t) ==
    IF step <= 7 - 2 * Index(t) THEN "references_users"
    ELSE IF step = 8 - 2 * Index(t) THEN "required" ELSE "none"

ColumnAt(x, t) ==
    IF Raising(x) THEN RaisedColumn(x.step, t)
    ELSE IF Lowering(x) THEN LoweredColumn(x.step, t)
    ELSE IF x.db.revision = 3 THEN "references_users" ELSE "none"

SchemaAt(x) ==
    /\ x.db.core <=> x.db.revision >= 1
                       /\ (x.up \/ x.db.revision # 1 \/ x.step = 1)
    /\ x.db.types <=> x.db.revision >= 1
    /\ x.db.users # NULL <=> x.db.revision >= 2
    /\ \A t \in Table : x.db.column[t] = ColumnAt(x, t)

\* What the state of its column says of the owner of a row.
OwnerOK(column, x, users) ==
    /\ column = "none" => x \in {NULL, ABSENT}
    /\ column = "nullable" => users # NULL /\ x \in users \cup {NULL, ABSENT}
    /\ column \in {"required", "references_users"} =>
           users # NULL /\ x \in users \cup {ABSENT}

OwnersOK(d) ==
    \A t \in Table, r \in Row : OwnerOK(d.column[t], d.owner[t][r], d.users)

SameUsers(d, x) == d.users # NULL /\ x.db.users # NULL => d.users = x.db.users

\* Who had an account when an upgrade began still has it, and nobody of them
\* precedes the first user.
FirstOK(x) ==
    /\ x.up /\ x.before # {} => x.db.users # NULL /\ x.before \subseteq x.db.users
    /\ x.first # NULL => /\ x.up /\ x.db.users # NULL
                         /\ x.first \in x.db.users
                         /\ \A v \in x.before : x.first <= v

\* The rows that were counted are the rows that are given an owner.
CountedOK(x) ==
    Raising(x) => \A t \in Table, r \in Row :
        /\ x.step > 4 + Index(t) /\ x.db.owner[t][r] # ABSENT => x.existing > 0
        /\ x.step > 7 + Index(t) => x.db.owner[t][r] # NULL

\* A row that changed hands.
Given(old, new, x) ==
    /\ old = NULL /\ new = x.first /\ x.first # NULL
    /\ x.db.revision = 3 \/ (x.db.revision = 2 /\ x.step > 8)

KeptOK(d, x) ==
    x.up => \A t \in Table, r \in Row :
        \/ x.db.owner[t][r] = d.owner[t][r]
        \/ Given(d.owner[t][r], x.db.owner[t][r], x)

TxOK(d, x) ==
    /\ Progress(d, x) /\ SchemaAt(x) /\ OwnersOK(x.db)
    /\ SameUsers(d, x) /\ FirstOK(x) /\ CountedOK(x) /\ KeptOK(d, x)

DbOK(d) == OwnersOK(d)

MigrationInv ==
    /\ MigrationTypeOK /\ SchemaMatchesRevision /\ DbOK(db)
    /\ Running => TxOK(db, tx)
    /\ OnlyMissingUserFails
-----------------------------------------------------------------------------
(* The scripts                                                              *)

LEMMA AddOwnerIdPlaces ==
    ASSUME NEW k \in 1 .. 19, NEW op, NEW t, AddOwnerId[k] = <<op, t>>
    PROVE  /\ op \in {"add_column", "first_user", "count", "backfill", "verify",
                      "set_not_null", "add_constraint"}
           /\ op # "first_user" => t \in Table
           /\ op = "add_column" => k = Index(t)
           /\ op = "first_user" => k = 4
           /\ op = "count" => k = 4 + Index(t)
           /\ op = "backfill" => k = 7 + Index(t)
           /\ op = "verify" => k = 10 + Index(t)
           /\ op = "set_not_null" => k = 13 + Index(t)
           /\ op = "add_constraint" => k = 16 + Index(t)
<1>1. k = 1 \/ k = 2 \/ k = 3 \/ k = 4 \/ k = 5 \/ k = 6 \/ k = 7 \/ k = 8 \/ k = 9
      \/ k = 10 \/ k = 11 \/ k = 12 \/ k = 13 \/ k = 14 \/ k = 15 \/ k = 16
      \/ k = 17 \/ k = 18 \/ k = 19
  OBVIOUS
<1> QED BY <1>1 DEF AddOwnerId, Index, Table

LEMMA Lengths ==
    /\ Len(Create) = 1 /\ Len(CreateUsersTable) = 1 /\ Len(AddOwnerId) = 19
    /\ Len(DropAll) = 2 /\ Len(DropUsersTable) = 1 /\ Len(DropOwnerId) = 6
  BY DEF Create, CreateUsersTable, AddOwnerId, DropAll, DropUsersTable, DropOwnerId

LEMMA DropOwnerIdPlaces ==
    ASSUME NEW k \in 1 .. 6, NEW op, NEW t, DropOwnerId[k] = <<op, t>>
    PROVE  /\ op \in {"drop_constraint", "drop_column"} /\ t \in Table
           /\ op = "drop_constraint" => k = 7 - 2 * Index(t)
           /\ op = "drop_column" => k = 8 - 2 * Index(t)
<1>1. k = 1 \/ k = 2 \/ k = 3 \/ k = 4 \/ k = 5 \/ k = 6
  OBVIOUS
<1> QED BY <1>1 DEF DropOwnerId, Index, Table

LEMMA AddOwnerIdPairs ==
    ASSUME NEW k \in 1 .. 19
    PROVE  AddOwnerId[k] = <<AddOwnerId[k][1], AddOwnerId[k][2]>>
<1>1. k = 1 \/ k = 2 \/ k = 3 \/ k = 4 \/ k = 5 \/ k = 6 \/ k = 7 \/ k = 8 \/ k = 9
      \/ k = 10 \/ k = 11 \/ k = 12 \/ k = 13 \/ k = 14 \/ k = 15 \/ k = 16
      \/ k = 17 \/ k = 18 \/ k = 19
  OBVIOUS
<1> QED BY <1>1 DEF AddOwnerId

LEMMA DropOwnerIdPairs ==
    ASSUME NEW k \in 1 .. 6
    PROVE  DropOwnerId[k] = <<DropOwnerId[k][1], DropOwnerId[k][2]>>
<1>1. k = 1 \/ k = 2 \/ k = 3 \/ k = 4 \/ k = 5 \/ k = 6
  OBVIOUS
<1> QED BY <1>1 DEF DropOwnerId

\* Where a statement stands tells which script runs, and how far it is.
Place(op, t, x) ==
    /\ op = "create_core" => x.up /\ x.db.revision = 0 /\ x.step = 1
    /\ op = "create_users" => x.up /\ x.db.revision = 1 /\ x.step = 1
    /\ op = "add_column" => Raising(x) /\ t \in Table /\ x.step = Index(t)
    /\ op = "first_user" => Raising(x) /\ x.step = 4
    /\ op = "count" => Raising(x) /\ t \in Table /\ x.step = 4 + Index(t)
    /\ op = "backfill" => Raising(x) /\ t \in Table /\ x.step = 7 + Index(t)
    /\ op = "verify" => Raising(x) /\ t \in Table /\ x.step = 10 + Index(t)
    /\ op = "set_not_null" => Raising(x) /\ t \in Table /\ x.step = 13 + Index(t)
    /\ op = "add_constraint" => Raising(x) /\ t \in Table /\ x.step = 16 + Index(t)
    /\ op = "drop_constraint" => Lowering(x) /\ t \in Table /\ x.step = 7 - 2 * Index(t)
    /\ op = "drop_column" => Lowering(x) /\ t \in Table /\ x.step = 8 - 2 * Index(t)
    /\ op = "drop_users" => ~x.up /\ x.db.revision = 2 /\ x.step = 1
    /\ op = "drop_core" => ~x.up /\ x.db.revision = 1 /\ x.step = 1
    /\ op = "drop_types" => ~x.up /\ x.db.revision = 1 /\ x.step = 2

LEMMA Placed ==
    ASSUME db \in Database, tx \in Transaction, Progress(db, tx),
           tx.db.revision # tx.goal
    PROVE  /\ Place(Script[tx.step][1], Target, tx)
           /\ LastOfScript <=> tx.step = Length(tx)
<1> DEFINE op == Script[tx.step][1]
<1>1. /\ tx.db.revision \in 0 .. 3 /\ tx.goal \in 0 .. 3 /\ tx.up \in BOOLEAN
      /\ tx.step \in 1 .. 19 /\ db.revision \in 0 .. 3 /\ tx.step <= Length(tx)
  BY DEF Transaction, Database, Progress
<1>2. CASE tx.up
  <2>1. tx.db.revision \in {0, 1, 2}
    BY <1>1, <1>2 DEF Progress
  <2>2. CASE tx.db.revision = 0
    <3>1. Script = Create /\ Length(tx) = 1 /\ tx.step = 1
      BY <1>1, <1>2, <2>2 DEF Script, UpgradeScript, Length, Raising, Lowering
    <3> QED BY <1>2, <2>2, <3>1, Lengths DEF Create, Place, Target, LastOfScript
  <2>3. CASE tx.db.revision = 1
    <3>1. Script = CreateUsersTable /\ Length(tx) = 1 /\ tx.step = 1
      BY <1>1, <1>2, <2>3 DEF Script, UpgradeScript, Length, Raising, Lowering
    <3> QED BY <1>2, <2>3, <3>1, Lengths
            DEF CreateUsersTable, Place, Target, LastOfScript
  <2>4. CASE tx.db.revision = 2
    <3>1. Script = AddOwnerId /\ Length(tx) = 19 /\ Raising(tx)
      BY <1>1, <1>2, <2>4 DEF Script, UpgradeScript, Length, Raising, Lowering
    <3>2. /\ op \in {"add_column", "first_user", "count", "backfill", "verify",
                      "set_not_null", "add_constraint"}
          /\ op # "first_user" => Target \in Table
          /\ op = "add_column" => tx.step = Index(Target)
          /\ op = "first_user" => tx.step = 4
          /\ op = "count" => tx.step = 4 + Index(Target)
          /\ op = "backfill" => tx.step = 7 + Index(Target)
          /\ op = "verify" => tx.step = 10 + Index(Target)
          /\ op = "set_not_null" => tx.step = 13 + Index(Target)
          /\ op = "add_constraint" => tx.step = 16 + Index(Target)
      BY <1>1, <3>1, AddOwnerIdPairs, AddOwnerIdPlaces DEF Target
    <3>3. LastOfScript <=> tx.step = Length(tx)
      BY <3>1, Lengths DEF LastOfScript
    <3> HIDE DEF op
    <3>4. Place(op, Target, tx)
      BY <3>1, <3>2 DEF Place
    <3> QED BY <3>3, <3>4 DEF op
  <2> QED BY <2>1, <2>2, <2>3, <2>4
<1>3. CASE ~tx.up
  <2>1. tx.db.revision \in {1, 2, 3}
    BY <1>1, <1>3 DEF Progress
  <2>2. CASE tx.db.revision = 1
    <3>1. Script = DropAll /\ Length(tx) = 2 /\ (tx.step = 1 \/ tx.step = 2)
      BY <1>1, <1>3, <2>2 DEF Script, DowngradeScript, Length, Raising, Lowering
    <3> QED BY <1>3, <2>2, <3>1, Lengths DEF DropAll, Place, Target, LastOfScript
  <2>3. CASE tx.db.revision = 2
    <3>1. Script = DropUsersTable /\ Length(tx) = 1 /\ tx.step = 1
      BY <1>1, <1>3, <2>3 DEF Script, DowngradeScript, Length, Raising, Lowering
    <3> QED BY <1>3, <2>3, <3>1, Lengths
            DEF DropUsersTable, Place, Target, LastOfScript
  <2>4. CASE tx.db.revision = 3
    <3>1. Script = DropOwnerId /\ Length(tx) = 6 /\ Lowering(tx)
      BY <1>1, <1>3, <2>4 DEF Script, DowngradeScript, Length, Raising, Lowering
    <3>2. tx.step \in 1 .. 6
      BY <1>1, <3>1
    <3>3. /\ op \in {"drop_constraint", "drop_column"} /\ Target \in Table
          /\ op = "drop_constraint" => tx.step = 7 - 2 * Index(Target)
          /\ op = "drop_column" => tx.step = 8 - 2 * Index(Target)
      BY <3>1, <3>2, DropOwnerIdPairs, DropOwnerIdPlaces DEF Target
    <3>4. LastOfScript <=> tx.step = Length(tx)
      BY <3>1, Lengths DEF LastOfScript
    <3> HIDE DEF op
    <3>5. Place(op, Target, tx)
      BY <3>1, <3>3 DEF Place
    <3> QED BY <3>4, <3>5 DEF op
  <2> QED BY <2>1, <2>2, <2>3, <2>4
<1> QED BY <1>1, <1>2, <1>3
-----------------------------------------------------------------------------
(* One statement                                                            *)

Moves(x, y) ==
    /\ y.goal = x.goal /\ y.up = x.up /\ y.before = x.before
    /\ x.step # Length(x) =>
           y.step = x.step + 1 /\ y.db.revision = x.db.revision
    /\ x.step = Length(x) =>
           /\ y.step = 1
           /\ y.db.revision = IF x.up THEN x.db.revision + 1
                                      ELSE x.db.revision - 1

LEMMA FieldTypes ==
    ASSUME NEW x \in Transaction
    PROVE  /\ x.db \in Database /\ x.goal \in 0 .. 3 /\ x.up \in BOOLEAN
           /\ x.step \in 1 .. 19 /\ x.first \in User \cup {NULL}
           /\ x.existing \in Nat /\ x.before \in SUBSET User /\ x.db.revision \in 0 .. 3
           /\ x.db.core \in BOOLEAN /\ x.db.types \in BOOLEAN
           /\ x.db.users \in (SUBSET User) \cup {NULL}
           /\ x.db.column \in [Table -> Column]
           /\ x.db.owner \in [Table -> [Row -> User \cup {NULL, ABSENT}]]
  BY DEF Transaction, Database

LEMMA Continued ==
    ASSUME db \in Database, tx \in Transaction, Progress(db, tx),
           tx.db.revision # tx.goal,
           NEW e \in Database, e.revision = tx.db.revision, Continue(e)
    PROVE  /\ tx' \in Transaction /\ Moves(tx, tx')
           /\ tx'.first = tx.first /\ tx'.existing = tx.existing
           /\ tx'.db.core = e.core /\ tx'.db.types = e.types
           /\ tx'.db.users = e.users /\ tx'.db.column = e.column
           /\ tx'.db.owner = e.owner
           /\ UNCHANGED <<db, outcome>>
<1>1. LastOfScript <=> tx.step = Length(tx)
  BY Placed
<1>2. /\ tx.db.revision \in 0 .. 3 /\ tx.goal \in 0 .. 3 /\ tx.up \in BOOLEAN
      /\ tx.step \in 1 .. 19 /\ tx.step <= Length(tx) /\ Length(tx) \in 1 .. 19
      /\ db.revision \in 0 .. 3
  BY DEF Transaction, Database, Progress, Length
<1>3. PICK f : f = Stamped(e)
  OBVIOUS
<1>4. f.revision = IF tx.step = Length(tx) THEN IF tx.up THEN tx.db.revision + 1
                                                ELSE tx.db.revision - 1
                   ELSE tx.db.revision
  BY <1>1, <1>3 DEF Stamped, Database
<1>5. f.revision \in 0 .. 3
  BY <1>2, <1>4 DEF Progress
<1>6. f \in Database /\ f.core = e.core /\ f.types = e.types /\ f.users = e.users
      /\ f.column = e.column /\ f.owner = e.owner
  BY <1>1, <1>3, <1>4, <1>5 DEF Stamped, Database
<1>7. PICK n : n = NextStep
  OBVIOUS
<1>8. n = (IF tx.step = Length(tx) THEN 1 ELSE tx.step + 1) /\ n \in 1 .. 19
  BY <1>1, <1>2, <1>7 DEF NextStep
<1>9. tx' = [tx EXCEPT !.db = f, !.step = n] /\ UNCHANGED <<db, outcome>>
  BY <1>3, <1>7 DEF Continue
<1>10. /\ tx' \in Transaction /\ tx'.db = f /\ tx'.step = n /\ tx'.goal = tx.goal
       /\ tx'.up = tx.up /\ tx'.first = tx.first /\ tx'.existing = tx.existing
       /\ tx'.before = tx.before
  BY <1>6, <1>8, <1>9 DEF Transaction
<1> QED BY <1>4, <1>6, <1>8, <1>9, <1>10 DEF Moves

LEMMA MovesProgress ==
    ASSUME NEW d \in Database, NEW x \in Transaction, NEW y \in Transaction,
           Progress(d, x), x.db.revision # x.goal, Moves(x, y)
    PROVE  Progress(d, y)
<1>1. /\ x.db.revision \in 0 .. 3 /\ x.goal \in 0 .. 3 /\ x.up \in BOOLEAN
      /\ x.step \in 1 .. 19 /\ d.revision \in 0 .. 3
  BY DEF Transaction, Database
<1> QED BY <1>1 DEF Progress, Moves, Length, Raising, Lowering

LEMMA RaisedAt ==
    ASSUME NEW d \in Database, NEW x \in Transaction, NEW y \in Transaction,
           Progress(d, x), x.db.revision # x.goal, Moves(x, y), Raising(x)
    PROVE  /\ \A t \in Table : /\ ColumnAt(x, t) = RaisedColumn(x.step, t)
                               /\ ColumnAt(y, t) = RaisedColumn(x.step + 1, t)
           /\ y.db.revision \in {2, 3} /\ y.up /\ x.goal = 3 /\ d.revision < 3
           /\ y.db.revision = 2 => y.step = x.step + 1
           /\ y.db.revision = 3 => y.step = 1 /\ x.step = 19
<1>1. /\ x.db.revision \in 0 .. 3 /\ x.goal \in 0 .. 3 /\ x.up \in BOOLEAN
      /\ x.step \in 1 .. 19 /\ d.revision \in 0 .. 3
  BY DEF Transaction, Database
<1>2. /\ x.up /\ x.db.revision = 2 /\ x.goal = 3 /\ y.up /\ d.revision < 3
      /\ Length(x) = 19
      /\ x.step # 19 => y.step = x.step + 1 /\ y.db.revision = 2
      /\ x.step = 19 => y.step = 1 /\ y.db.revision = 3
  BY <1>1 DEF Progress, Moves, Length, Raising
<1> QED BY <1>1, <1>2 DEF ColumnAt, RaisedColumn, Raising, Lowering, Index

LEMMA LoweredAt ==
    ASSUME NEW d \in Database, NEW x \in Transaction, NEW y \in Transaction,
           Progress(d, x), x.db.revision # x.goal, Moves(x, y), Lowering(x)
    PROVE  /\ \A t \in Table : /\ ColumnAt(x, t) = LoweredColumn(x.step, t)
                               /\ ColumnAt(y, t) = LoweredColumn(x.step + 1, t)
           /\ y.db.revision \in {2, 3} /\ ~y.up
<1>1. /\ x.db.revision \in 0 .. 3 /\ x.goal \in 0 .. 3 /\ x.up \in BOOLEAN
      /\ x.step \in 1 .. 19 /\ d.revision \in 0 .. 3
  BY DEF Transaction, Database
<1>2. /\ ~x.up /\ x.db.revision = 3 /\ ~y.up /\ Length(x) = 6 /\ x.step <= 6
      /\ x.step # 6 => y.step = x.step + 1 /\ y.db.revision = 3
      /\ x.step = 6 => y.step = 1 /\ y.db.revision = 2
  BY <1>1 DEF Progress, Moves, Length, Raising, Lowering
<1> QED BY <1>1, <1>2 DEF ColumnAt, LoweredColumn, Raising, Lowering, Index
LEMMA ColumnSet ==
    ASSUME NEW d \in Database, NEW t \in Table, NEW c \in Column,
           NEW e, e = [d EXCEPT !.column[t] = c]
    PROVE  /\ e \in Database /\ e.revision = d.revision /\ e.core = d.core
           /\ e.types = d.types /\ e.users = d.users /\ e.owner = d.owner
           /\ e.column[t] = c
           /\ \A s \in Table : s # t => e.column[s] = d.column[s]
  BY DEF Database

\* The part of TxOK that is the same for every statement of the last upgrade.
LEMMA RaisedStep ==
    ASSUME NEW d \in Database, NEW x \in Transaction, NEW y \in Transaction,
           TxOK(d, x), x.db.revision # x.goal, Moves(x, y), Raising(x),
           y.db.core = x.db.core, y.db.types = x.db.types,
           y.db.users = x.db.users,
           \A t \in Table : y.db.column[t] = RaisedColumn(x.step + 1, t),
           OwnersOK(y.db), FirstOK(y), CountedOK(y), KeptOK(d, y)
    PROVE  TxOK(d, y)
<1>1. Progress(d, x) /\ SchemaAt(x) /\ SameUsers(d, x)
  BY DEF TxOK
<1>2. Progress(d, y)
  BY <1>1, MovesProgress
<1>3. /\ \A t \in Table : ColumnAt(y, t) = RaisedColumn(x.step + 1, t)
      /\ y.db.revision \in {2, 3} /\ y.up
  BY <1>1, RaisedAt
<1>4. SchemaAt(y)
  BY <1>1, <1>3 DEF SchemaAt, Raising
<1>5. SameUsers(d, y)
  BY <1>1 DEF SameUsers
<1> QED BY <1>2, <1>4, <1>5 DEF TxOK

\* A statement that gives no row another owner.
LEMMA RaisedKept ==
    ASSUME NEW d \in Database, NEW x \in Transaction, NEW y \in Transaction,
           Progress(d, x), KeptOK(d, x), x.db.revision # x.goal, Moves(x, y),
           Raising(x), y.db.owner = x.db.owner,
           y.first = x.first \/ x.step <= 8
    PROVE  KeptOK(d, y)
<1>1. /\ y.db.revision \in {2, 3} /\ x.step \in 1 .. 19
      /\ y.db.revision = 2 => y.step = x.step + 1
      /\ y.db.revision = 3 => x.step = 19
  BY RaisedAt DEF Transaction
<1>2. SUFFICES ASSUME NEW t \in Table, NEW r \in Row
               PROVE  \/ y.db.owner[t][r] = d.owner[t][r]
                      \/ Given(d.owner[t][r], y.db.owner[t][r], y)
  BY DEF KeptOK
<1>3. \/ x.db.owner[t][r] = d.owner[t][r]
      \/ Given(d.owner[t][r], x.db.owner[t][r], x)
  BY DEF KeptOK, Raising
<1> QED BY <1>1, <1>3 DEF Given, Raising

LEMMA RaisedFirst ==
    ASSUME NEW x \in Transaction, NEW y \in Transaction, Moves(x, y), FirstOK(x),
           y.first = x.first, y.db.users = x.db.users
    PROVE  FirstOK(y)
  BY DEF FirstOK, Moves

\* The owners stay, and the columns but one.
LEMMA RaisedOwners ==
    ASSUME NEW x \in Transaction, NEW y \in Transaction, NEW t \in Table,
           OwnersOK(x.db), y.db.owner = x.db.owner, y.db.users = x.db.users,
           \A s \in Table : s # t => y.db.column[s] = x.db.column[s],
           \A r \in Row : OwnerOK(y.db.column[t], x.db.owner[t][r], x.db.users)
    PROVE  OwnersOK(y.db)
  BY DEF OwnersOK

\* The owners and the count stay.
LEMMA RaisedCounted ==
    ASSUME NEW d \in Database, NEW x \in Transaction, NEW y \in Transaction,
           Progress(d, x), CountedOK(x), x.db.revision # x.goal, Moves(x, y),
           Raising(x), y.db.owner = x.db.owner, y.existing = x.existing,
           x.step \notin 5 .. 10
    PROVE  CountedOK(y)
<1>1. /\ y.db.revision \in {2, 3} /\ x.step \in 1 .. 19
      /\ y.db.revision = 2 => y.step = x.step + 1
  BY RaisedAt DEF Transaction
<1> QED BY <1>1 DEF CountedOK, Raising, Index

LEMMA ColumnsRaised ==
    ASSUME NEW x \in Transaction, SchemaAt(x), Raising(x)
    PROVE  \A t \in Table : x.db.column[t] = RaisedColumn(x.step, t)
  BY DEF SchemaAt, ColumnAt

\* What the statements below may assume.
Within ==
    /\ db \in Database /\ tx \in Transaction /\ SchemaMatchesRevision /\ DbOK(db)
    /\ Running /\ TxOK(db, tx)

\* What a statement does to the rows on the way down: it drops the table, or the
\* owners of a table with their column, or nothing.
Lowers(x, y) ==
    \A t \in Table, r \in Row :
        \/ ~y.db.core /\ y.db.owner[t][r] = ABSENT
        \/ ~y.db.core /\ ~x.db.core /\ y.db.owner[t][r] = x.db.owner[t][r]
        \/ /\ y.db.core /\ x.db.core
           /\ x.db.column[t] = "none" => y.db.column[t] = "none"
           /\ \/ y.db.owner[t][r] = x.db.owner[t][r]
              \/ /\ y.db.column[t] = "none" /\ x.db.owner[t][r] # ABSENT
                 /\ y.db.owner[t][r] = NULL

\* What it does to the users: only to create or to drop their table.
Runs(x, y) ==
    /\ y.up = x.up /\ y.db.users \in {x.db.users, {}, NULL}
    /\ ~x.up => Lowers(x, y)

\* What they have to keep.
Kept ==
    /\ tx' \in Transaction /\ TxOK(db, tx') /\ Runs(tx, tx')
    /\ UNCHANGED <<db, outcome>>

LEMMA AddColumnKeeps ==
    ASSUME Within, AddColumn
    PROVE  Kept
<1>0. PICK e : e = [tx.db EXCEPT !.column[Target] = "nullable"] /\ Continue(e)
  BY DEF AddColumn
<1>1. /\ db \in Database /\ tx \in Transaction /\ tx.db \in Database
      /\ Progress(db, tx) /\ SchemaAt(tx) /\ OwnersOK(tx.db) /\ FirstOK(tx)
      /\ CountedOK(tx) /\ KeptOK(db, tx) /\ tx.db.revision # tx.goal
      /\ TxOK(db, tx)
  BY DEF Within, TxOK, AddColumn, At, Transaction
<1>2. Raising(tx) /\ Target \in Table /\ tx.step = Index(Target)
  BY <1>1, Placed DEF Place, AddColumn, At
<1>3. /\ e \in Database /\ e.revision = tx.db.revision /\ e.core = tx.db.core
      /\ e.types = tx.db.types /\ e.users = tx.db.users
      /\ e.owner = tx.db.owner /\ e.column[Target] = "nullable"
      /\ \A s \in Table : s # Target => e.column[s] = tx.db.column[s]
  BY <1>0, <1>1, <1>2, ColumnSet DEF Column
<1>5. /\ tx' \in Transaction /\ Moves(tx, tx')
      /\ tx'.first = tx.first /\ tx'.existing = tx.existing
      /\ tx'.db.core = tx.db.core /\ tx'.db.types = tx.db.types
      /\ tx'.db.users = tx.db.users /\ tx'.db.column = e.column
      /\ tx'.db.owner = tx.db.owner
      /\ UNCHANGED <<db, outcome>>
  BY <1>0, <1>1, <1>3, Continued
<1>6. \A s \in Table : tx.db.column[s] = RaisedColumn(tx.step, s)
  BY <1>1, <1>2, ColumnsRaised
<1>7. \A s \in Table : tx'.db.column[s] = RaisedColumn(tx.step + 1, s)
  BY <1>2, <1>3, <1>5, <1>6 DEF RaisedColumn, Index, Table
<1>8. tx.db.users # NULL /\ tx.db.column[Target] = "none"
  BY <1>1, <1>2, <1>6 DEF SchemaAt, Raising, RaisedColumn, Index
<1>9. \A r \in Row : OwnerOK("nullable", tx.db.owner[Target][r], tx.db.users)
  BY <1>1, <1>2, <1>8 DEF OwnersOK, OwnerOK
<1>10. OwnersOK(tx'.db)
  BY <1>1, <1>2, <1>3, <1>5, <1>9, RaisedOwners
<1>11. FirstOK(tx')
  BY <1>1, <1>5, RaisedFirst
<1>12. tx.step <= 3 /\ tx.step \in Nat
  BY <1>2 DEF Index
<1>13. CountedOK(tx')
  BY <1>1, <1>2, <1>5, <1>12, RaisedCounted
<1>14. KeptOK(db, tx')
  BY <1>1, <1>2, <1>5, RaisedKept
<1>15. TxOK(db, tx')
  BY <1>1, <1>2, <1>5, <1>7, <1>10, <1>11, <1>13, <1>14, RaisedStep
<1> QED BY <1>2, <1>5, <1>15 DEF Kept, Runs, Raising, Moves
LEMMA EarliestFirst ==
    ASSUME NEW users \in SUBSET User, users # {}
    PROVE  /\ Earliest(users) \in users
           /\ \A v \in users : Earliest(users) <= v
<1> DEFINE Below(u) == {v \in users : v < u}
           all == {Below(u) : u \in users}
<1>1. users \subseteq Nat /\ IsFiniteSet(users)
  BY UserAssumption, FS_Subset
<1>2. IsWellFoundedOn(StrictSubsetOrdering(users), SUBSET users)
  BY <1>1, FS_StrictSubsetOrderingWellFounded, FS_FiniteSubsetsOfFinite
<1>3. all \subseteq SUBSET users /\ all # {}
  OBVIOUS
<1>4. \E x \in all : \A y \in all : <<y, x>> \notin StrictSubsetOrdering(users)
  <2> HIDE DEF all
  <2> QED BY <1>2, <1>3, WFMin
<1>5. PICK u \in users :
          \A v \in users : <<Below(v), Below(u)>> \notin StrictSubsetOrdering(users)
  BY <1>4
<1>6. \A v \in users : u <= v
  <2> SUFFICES ASSUME NEW v \in users, v < u
               PROVE  FALSE
    BY <1>1
  <2>1. v \in Nat /\ u \in Nat /\ v \in Below(u)
    BY <1>1
  <2>2. v \notin Below(v)
    BY <2>1
  <2>3. Below(v) \subseteq Below(u)
    <3> SUFFICES ASSUME NEW w \in users, w < v
                 PROVE  w < u
      OBVIOUS
    <3> QED BY <1>1, <2>1
  <2> QED BY <1>5, <2>1, <2>2, <2>3 DEF StrictSubsetOrdering
<1> HIDE DEF Below
<1> QED BY <1>5, <1>6 DEF Earliest

LEMMA Stepped ==
    ASSUME Within, tx.db.revision # tx.goal, Raising(tx), tx.step < 19,
           tx'.db = tx.db, tx'.step = NextStep, tx'.goal = tx.goal,
           tx'.up = tx.up, tx'.before = tx.before
    PROVE  Moves(tx, tx') /\ tx'.step = tx.step + 1
<1>1. /\ db \in Database /\ tx \in Transaction /\ Progress(db, tx)
  BY DEF Within, TxOK
<1>2. LastOfScript <=> tx.step = Length(tx)
  BY <1>1, Placed
<1>3. Length(tx) = 19 /\ tx.step \in Nat
  BY <1>1 DEF Length, Transaction
<1> QED BY <1>2, <1>3 DEF NextStep, Moves

LEMMA FirstUserKeeps ==
    ASSUME Within, FirstUser
    PROVE  Kept
<1>1. /\ db \in Database /\ tx \in Transaction /\ tx.db \in Database
      /\ Progress(db, tx) /\ SchemaAt(tx) /\ OwnersOK(tx.db) /\ FirstOK(tx)
      /\ CountedOK(tx) /\ KeptOK(db, tx) /\ tx.db.revision # tx.goal
      /\ TxOK(db, tx)
  BY DEF Within, TxOK, FirstUser, At, Transaction
<1>2. Raising(tx) /\ tx.step = 4
  BY <1>1, Placed DEF Place, FirstUser, At
<1>3. tx.db.users # NULL /\ tx.db.users \in SUBSET User
  BY <1>1, <1>2 DEF SchemaAt, Raising, Database
<1>4. PICK f : /\ f = IF tx.db.users = {} THEN NULL ELSE Earliest(tx.db.users)
               /\ tx' = [tx EXCEPT !.step = NextStep, !.first = f]
  BY DEF FirstUser
<1>5. /\ f \in User \cup {NULL}
      /\ f # NULL => f \in tx.db.users /\ \A v \in tx.db.users : f <= v
  BY <1>3, <1>4, EarliestFirst
<1>6. PICK n : n = NextStep
  OBVIOUS
<1>7. /\ tx'.db = tx.db /\ tx'.step = n /\ tx'.goal = tx.goal /\ tx'.up = tx.up
      /\ tx'.first = f /\ tx'.existing = tx.existing /\ tx'.before = tx.before
  BY <1>1, <1>4, <1>6 DEF Transaction
<1>8. Moves(tx, tx') /\ tx'.step = 5
  BY <1>1, <1>2, <1>6, <1>7, Stepped
<1>9. tx' = [tx EXCEPT !.step = 5, !.first = f]
  BY <1>4, <1>6, <1>7, <1>8
<1>10. tx' \in Transaction
  <2>1. tx \in Transaction /\ f \in User \cup {NULL}
    BY <1>1, <1>5
  <2>2. PICK k \in 1 .. 19 : tx' = [tx EXCEPT !.step = k, !.first = f]
    BY <1>9
  <2> QED BY <2>1, <2>2 DEF Transaction
<1>11. \A s \in Table : tx.db.column[s] = RaisedColumn(tx.step, s)
  BY <1>1, <1>2, ColumnsRaised
<1>12. \A s \in Table : tx'.db.column[s] = RaisedColumn(tx.step + 1, s)
  BY <1>2, <1>7, <1>11 DEF RaisedColumn, Index, Table
<1>13. FirstOK(tx')
  BY <1>1, <1>2, <1>3, <1>5, <1>7 DEF FirstOK, Raising
<1>14. CountedOK(tx')
  BY <1>1, <1>2, <1>7, <1>8, <1>10, RaisedCounted
<1>15. KeptOK(db, tx')
  BY <1>1, <1>2, <1>7, <1>8, <1>10, RaisedKept
<1>16. TxOK(db, tx')
  BY <1>1, <1>2, <1>7, <1>8, <1>10, <1>12, <1>13, <1>14, <1>15, RaisedStep
<1> QED BY <1>2, <1>7, <1>10, <1>16 DEF Kept, FirstUser, Runs, Raising

LEMMA CountRowsKeeps ==
    ASSUME Within, CountRows
    PROVE  Kept
<1>1. /\ db \in Database /\ tx \in Transaction /\ tx.db \in Database
      /\ Progress(db, tx) /\ SchemaAt(tx) /\ OwnersOK(tx.db) /\ FirstOK(tx)
      /\ CountedOK(tx) /\ KeptOK(db, tx) /\ tx.db.revision # tx.goal
      /\ TxOK(db, tx) /\ tx.existing \in Nat /\ tx.step \in 1 .. 19
  BY DEF Within, TxOK, CountRows, At, Transaction
<1>2. Raising(tx) /\ Target \in Table /\ tx.step = 4 + Index(Target)
  BY <1>1, Placed DEF Place, CountRows, At
<1>3. tx.step \in {5, 6, 7}
  BY <1>2 DEF Index
<1>4. PICK c : /\ c = Cardinality(Present(tx.db, Target))
               /\ tx' = [tx EXCEPT !.step = NextStep, !.existing = @ + c]
  BY DEF CountRows
<1>5. /\ c \in Nat
      /\ \A r \in Row : tx.db.owner[Target][r] # ABSENT => c > 0
  <2>1. Present(tx.db, Target) \subseteq Row
    BY DEF Present
  <2>2. IsFiniteSet(Present(tx.db, Target))
    BY <2>1, RowAssumption, FS_Subset
  <2>3. /\ c \in Nat
        /\ c = 0 <=> Present(tx.db, Target) = {}
    BY <1>4, <2>2, FS_CardinalityType, FS_EmptySet
  <2> QED BY <2>3 DEF Present
<1>6. PICK n : n = NextStep
  OBVIOUS
<1>7. /\ tx'.db = tx.db /\ tx'.step = n /\ tx'.goal = tx.goal /\ tx'.up = tx.up
      /\ tx'.first = tx.first /\ tx'.existing = tx.existing + c
      /\ tx'.before = tx.before
  BY <1>1, <1>4, <1>6 DEF Transaction
<1>8. Moves(tx, tx') /\ tx'.step = tx.step + 1
  BY <1>1, <1>2, <1>3, <1>6, <1>7, Stepped
<1>9. /\ tx' = [tx EXCEPT !.step = tx.step + 1, !.existing = tx.existing + c]
      /\ tx.step + 1 \in 1 .. 19 /\ tx.existing + c \in Nat
  BY <1>1, <1>3, <1>4, <1>5, <1>6, <1>7, <1>8
<1>10. tx' \in Transaction
  BY <1>1, <1>9 DEF Transaction
<1>11. \A s \in Table : tx.db.column[s] = RaisedColumn(tx.step, s)
  BY <1>1, <1>2, ColumnsRaised
<1>12. \A s \in Table : tx'.db.column[s] = RaisedColumn(tx.step + 1, s)
  BY <1>3, <1>7, <1>11 DEF RaisedColumn, Index, Table
<1>13. FirstOK(tx')
  BY <1>1, <1>7, <1>8, <1>10, RaisedFirst
<1>14. CountedOK(tx')
  <2> SUFFICES ASSUME NEW t \in Table, NEW r \in Row
               PROVE  /\ /\ tx'.step > 4 + Index(t)
                         /\ tx'.db.owner[t][r] # ABSENT
                         => tx'.existing > 0
                      /\ tx'.step > 7 + Index(t) => tx'.db.owner[t][r] # NULL
    BY DEF CountedOK
  <2>1. /\ tx.step > 4 + Index(t) /\ tx.db.owner[t][r] # ABSENT => tx.existing > 0
        /\ tx.step > 7 + Index(t) => tx.db.owner[t][r] # NULL
    BY <1>1, <1>2 DEF CountedOK
  <2>2. t # Target => Index(t) # Index(Target)
    BY <1>2 DEF Index, Table
  <2>3. Index(t) \in {1, 2, 3}
    BY DEF Index
  <2>4. tx'.step > 7 + Index(t) => tx.step > 7 + Index(t)
    BY <1>3, <1>8, <2>3
  <2>5. tx'.step > 4 + Index(t) => tx.step > 4 + Index(t) \/ t = Target
    <3>1. PICK i \in {1, 2, 3} : i = Index(t)
      BY <2>3
    <3>2. PICK j \in {1, 2, 3} : j = Index(Target)
      BY DEF Index
    <3>3. tx.step = 4 + j /\ tx'.step = 5 + j
      BY <1>2, <1>8, <3>2
    <3> QED BY <2>2, <3>1, <3>2, <3>3
  <2>6. tx.existing > 0 \/ c > 0 => tx'.existing > 0
    BY <1>1, <1>5, <1>7
  <2> QED BY <1>5, <1>7, <2>1, <2>4, <2>5, <2>6
<1>15. KeptOK(db, tx')
  BY <1>1, <1>2, <1>3, <1>7, <1>8, <1>10, RaisedKept
<1>16. TxOK(db, tx')
  BY <1>1, <1>2, <1>7, <1>8, <1>10, <1>12, <1>13, <1>14, <1>15, RaisedStep
<1> QED BY <1>2, <1>7, <1>10, <1>16 DEF Kept, CountRows, Runs, Raising
\* Of the statements that may refuse, only the backfill ever does.
Refused == /\ tx' = NULL /\ db' = db
           /\ outcome' \in {"no_user", "crashed"}

\* A statement that changes neither the rows nor the columns.
LEMMA UnchangedKeeps ==
    ASSUME Within, tx.db.revision # tx.goal, Raising(tx), Continue(tx.db),
           tx.step \in 8 .. 13, CountedOK(tx')
    PROVE  Kept
<1>1. /\ db \in Database /\ tx \in Transaction /\ tx.db \in Database
      /\ Progress(db, tx) /\ SchemaAt(tx) /\ OwnersOK(tx.db) /\ FirstOK(tx)
      /\ CountedOK(tx) /\ KeptOK(db, tx) /\ TxOK(db, tx)
  BY DEF Within, TxOK, Transaction
<1>2. /\ tx' \in Transaction /\ Moves(tx, tx')
      /\ tx'.first = tx.first /\ tx'.existing = tx.existing
      /\ tx'.db.core = tx.db.core /\ tx'.db.types = tx.db.types
      /\ tx'.db.users = tx.db.users /\ tx'.db.column = tx.db.column
      /\ tx'.db.owner = tx.db.owner
      /\ UNCHANGED <<db, outcome>>
  BY <1>1, Continued
<1>3. \A s \in Table : tx.db.column[s] = RaisedColumn(tx.step, s)
  BY <1>1, ColumnsRaised
<1>4. \A s \in Table : tx'.db.column[s] = RaisedColumn(tx.step + 1, s)
  BY <1>2, <1>3 DEF RaisedColumn, Index, Table
<1>5. OwnersOK(tx'.db)
  BY <1>1, <1>2 DEF OwnersOK
<1>6. FirstOK(tx')
  BY <1>1, <1>2, RaisedFirst
<1>7. KeptOK(db, tx')
  BY <1>1, <1>2, RaisedKept
<1>8. TxOK(db, tx')
  BY <1>1, <1>2, <1>4, <1>5, <1>6, <1>7, RaisedStep
<1> QED BY <1>2, <1>8 DEF Kept, Runs, Raising, Moves

\* After the backfill of a table no row of it is without an owner.
LEMMA BackfillCounted ==
    ASSUME NEW d \in Database, NEW x \in Transaction, NEW y \in Transaction,
           NEW t \in Table, Progress(d, x), CountedOK(x),
           x.db.revision # x.goal, Moves(x, y), Raising(x),
           x.step = 7 + Index(t), y.existing = x.existing,
           \A s \in Table, r \in Row : y.db.owner[s][r] = ABSENT \/ x.existing > 0
                                        \/ x.db.owner[s][r] # ABSENT,
           \A s \in Table, r \in Row :
               x.db.owner[s][r] # NULL => y.db.owner[s][r] # NULL,
           \A r \in Row : y.db.owner[t][r] # NULL
    PROVE  CountedOK(y)
<1>1. /\ y.db.revision \in {2, 3} /\ x.step \in 8 .. 10
      /\ y.db.revision = 2 => y.step = x.step + 1
      /\ y.db.revision = 3 => x.step = 19
  BY RaisedAt DEF Transaction, Index
<1>2. SUFFICES ASSUME Raising(y), NEW s \in Table, NEW r \in Row
               PROVE  /\ y.step > 4 + Index(s) /\ y.db.owner[s][r] # ABSENT
                         => y.existing > 0
                      /\ y.step > 7 + Index(s) => y.db.owner[s][r] # NULL
  BY DEF CountedOK
<1>3. /\ x.step > 4 + Index(s) /\ x.db.owner[s][r] # ABSENT => x.existing > 0
      /\ x.step > 7 + Index(s) => x.db.owner[s][r] # NULL
  BY DEF CountedOK
<1>4. y.step = x.step + 1
  BY <1>1
<1>5. PICK i \in {1, 2, 3} : i = Index(s)
  BY DEF Index
<1>6. PICK j \in {1, 2, 3} : j = Index(t)
  BY DEF Index
<1>7. s # t => i # j
  BY <1>5, <1>6 DEF Index, Table
<1>8. x.step > 4 + Index(s)
  BY <1>5, <1>6
<1>9. y.step > 7 + Index(s) => x.step > 7 + Index(s) \/ s = t
  BY <1>4, <1>5, <1>6, <1>7
<1> QED BY <1>3, <1>8, <1>9

LEMMA BackfillKeeps ==
    ASSUME Within, Backfill
    PROVE  Kept \/ Refused
<1>1. /\ db \in Database /\ tx \in Transaction /\ tx.db \in Database
      /\ Progress(db, tx) /\ SchemaAt(tx) /\ OwnersOK(tx.db) /\ FirstOK(tx)
      /\ CountedOK(tx) /\ KeptOK(db, tx) /\ tx.db.revision # tx.goal
      /\ TxOK(db, tx) /\ tx.existing \in Nat
  BY DEF Within, TxOK, Backfill, At, Transaction
<1>2. Raising(tx) /\ Target \in Table /\ tx.step = 7 + Index(Target)
  BY <1>1, Placed DEF Place, Backfill, At
<1>3. tx.step \in 8 .. 10
  BY <1>2 DEF Index
<1>4. CASE tx.existing = 0 /\ Continue(tx.db)
  <2>1. /\ tx' \in Transaction /\ Moves(tx, tx') /\ tx'.existing = tx.existing
        /\ tx'.db.owner = tx.db.owner
    BY <1>1, <1>4, Continued
  <2>2. tx.step > 4 + Index(Target)
    BY <1>2, <1>3 DEF Index
  <2>3. \A r \in Row : tx.db.owner[Target][r] = ABSENT
    BY <1>1, <1>2, <1>4, <2>2 DEF CountedOK
  <2>4. CountedOK(tx')
    BY <1>1, <1>2, <2>1, <2>3, BackfillCounted, MarkerAssumption
  <2> QED BY <1>1, <1>2, <1>3, <1>4, <2>4, UnchangedKeeps
<1>5. CASE tx.existing > 0 /\ tx.first = NULL /\ Rollback("no_user")
  BY <1>5 DEF Rollback, Refused
<1>6. ASSUME tx.existing > 0, tx.first # NULL,
             Continue([tx.db EXCEPT !.owner[Target] =
                          [r \in Row |-> BackfilledOwner(@[r])]])
      PROVE  Kept
  <2>1. PICK rows : rows = [r \in Row |-> BackfilledOwner(tx.db.owner[Target][r])]
    OBVIOUS
  <2>2. PICK e : e = [tx.db EXCEPT !.owner[Target] = rows] /\ Continue(e)
    BY <1>6, <2>1
  <2>3. /\ tx.db.users # NULL /\ tx.db.users \in SUBSET User
        /\ tx.first \in tx.db.users
    BY <1>1, <1>6 DEF FirstOK, Database
  <2>4. rows \in [Row -> User \cup {NULL, ABSENT}]
    BY <1>1, <1>2, <2>1, <2>3 DEF BackfilledOwner, Database
  <2>5. /\ e \in Database /\ e.revision = tx.db.revision /\ e.core = tx.db.core
        /\ e.types = tx.db.types /\ e.users = tx.db.users
        /\ e.column = tx.db.column /\ e.owner[Target] = rows
        /\ \A s \in Table : s # Target => e.owner[s] = tx.db.owner[s]
    BY <1>1, <1>2, <2>2, <2>4 DEF Database
  <2>6. /\ tx' \in Transaction /\ Moves(tx, tx')
        /\ tx'.first = tx.first /\ tx'.existing = tx.existing
        /\ tx'.db.core = tx.db.core /\ tx'.db.types = tx.db.types
        /\ tx'.db.users = tx.db.users /\ tx'.db.column = tx.db.column
        /\ tx'.db.owner = e.owner
        /\ UNCHANGED <<db, outcome>>
    BY <1>1, <2>2, <2>5, Continued
  <2>7. \A s \in Table : tx.db.column[s] = RaisedColumn(tx.step, s)
    BY <1>1, <1>2, ColumnsRaised
  <2>8. \A s \in Table : tx'.db.column[s] = RaisedColumn(tx.step + 1, s)
    BY <1>3, <2>6, <2>7 DEF RaisedColumn, Index, Table
  <2>9. ASSUME NEW s \in Table, NEW r \in Row
        PROVE  \/ e.owner[s][r] = tx.db.owner[s][r] /\ (s = Target => e.owner[s][r] # NULL)
               \/ /\ s = Target /\ tx.db.owner[s][r] = NULL
                  /\ e.owner[s][r] = tx.first
    BY <2>1, <2>5 DEF BackfilledOwner
  <2>10. tx.db.column[Target] = "nullable"
    BY <1>2, <1>3, <2>7 DEF RaisedColumn, Index
  <2>11. OwnersOK(tx'.db)
    BY <1>1, <2>3, <2>6, <2>9, <2>10 DEF OwnersOK, OwnerOK
  <2>12. FirstOK(tx')
    BY <1>1, <2>6, RaisedFirst
  <2>13. CountedOK(tx')
    <3>1. \A r \in Row : tx'.db.owner[Target][r] # NULL
      BY <1>2, <1>6, <2>6, <2>9
    <3>2. \A s \in Table, r \in Row :
              tx.db.owner[s][r] # NULL => tx'.db.owner[s][r] # NULL
      BY <2>6, <2>9
    <3> QED BY <1>1, <1>2, <1>6, <2>6, <3>1, <3>2, BackfillCounted
  <2>14. KeptOK(db, tx')
    <3> SUFFICES ASSUME NEW s \in Table, NEW r \in Row
                 PROVE  \/ tx'.db.owner[s][r] = db.owner[s][r]
                        \/ Given(db.owner[s][r], tx'.db.owner[s][r], tx')
      BY DEF KeptOK
    <3>1. \/ tx.db.owner[s][r] = db.owner[s][r]
          \/ Given(db.owner[s][r], tx.db.owner[s][r], tx)
      BY <1>1, <1>2 DEF KeptOK, Raising
    <3>2. tx'.db.revision \in {2, 3} /\ (tx'.db.revision = 2 => tx'.step > 8)
      BY <1>1, <1>2, <1>3, <2>6, RaisedAt
    <3>3. CASE tx'.db.owner[s][r] = tx.db.owner[s][r]
      BY <2>6, <3>1, <3>2, <3>3 DEF Given
    <3>4. CASE tx.db.owner[s][r] = NULL /\ tx'.db.owner[s][r] = tx.first
      <4>1. db.owner[s][r] = NULL
        BY <3>1, <3>4 DEF Given
      <4> QED BY <1>6, <2>6, <3>2, <3>4, <4>1 DEF Given
    <3> QED BY <2>6, <2>9, <3>3, <3>4
  <2>15. TxOK(db, tx')
    BY <1>1, <1>2, <2>6, <2>8, <2>11, <2>12, <2>13, <2>14, RaisedStep
  <2> QED BY <1>2, <2>6, <2>15 DEF Kept, Runs, Raising, Moves
<1> QED BY <1>4, <1>5, <1>6 DEF Backfill
\* Past its backfill a table has no row without an owner.
LEMMA Backfilled ==
    ASSUME Within, Raising(tx), NEW i \in {10, 13}, Target \in Table,
           tx.step = i + Index(Target)
    PROVE  ~Ownerless
<1>1. tx.step > 7 + Index(Target)
  BY DEF Index
<1> QED BY <1>1 DEF Within, TxOK, CountedOK, Ownerless

LEMMA VerifyKeeps ==
    ASSUME Within, Verify
    PROVE  Kept
<1>1. /\ db \in Database /\ tx \in Transaction /\ tx.db \in Database
      /\ Progress(db, tx) /\ CountedOK(tx) /\ tx.db.revision # tx.goal
  BY DEF Within, TxOK, Verify, At, Transaction
<1>2. Raising(tx) /\ Target \in Table /\ tx.step = 10 + Index(Target)
  BY <1>1, Placed DEF Place, Verify, At
<1>3. tx.step \in 11 .. 13
  BY <1>2 DEF Index
<1>4. ~Ownerless
  BY <1>2, Backfilled
<1>5. Continue(tx.db)
  BY <1>4 DEF Verify
<1>6. /\ tx' \in Transaction /\ Moves(tx, tx') /\ tx'.existing = tx.existing
      /\ tx'.db.owner = tx.db.owner
  BY <1>1, <1>5, Continued
<1>7. CountedOK(tx')
  BY <1>1, <1>2, <1>3, <1>6, RaisedCounted
<1> QED BY <1>1, <1>2, <1>3, <1>5, <1>7, UnchangedKeeps

\* The two statements that constrain a column of the last upgrade.
LEMMA ConstrainKeeps ==
    ASSUME Within, tx.db.revision # tx.goal, Raising(tx), Target \in Table,
           NEW c \in Column, Continue([tx.db EXCEPT !.column[Target] = c]),
           \/ c = "required" /\ tx.step = 13 + Index(Target)
           \/ c = "references_users" /\ tx.step = 16 + Index(Target),
           ~Ownerless
    PROVE  Kept
<1>1. /\ db \in Database /\ tx \in Transaction /\ tx.db \in Database
      /\ Progress(db, tx) /\ SchemaAt(tx) /\ OwnersOK(tx.db) /\ FirstOK(tx)
      /\ CountedOK(tx) /\ KeptOK(db, tx) /\ TxOK(db, tx)
  BY DEF Within, TxOK, Transaction
<1>2. PICK e : e = [tx.db EXCEPT !.column[Target] = c] /\ Continue(e)
  OBVIOUS
<1>3. /\ e \in Database /\ e.revision = tx.db.revision /\ e.core = tx.db.core
      /\ e.types = tx.db.types /\ e.users = tx.db.users
      /\ e.owner = tx.db.owner /\ e.column[Target] = c
      /\ \A s \in Table : s # Target => e.column[s] = tx.db.column[s]
  <2>1. PICK t \in Table : t = Target
    OBVIOUS
  <2>2. tx.db \in Database /\ e = [tx.db EXCEPT !.column[t] = c]
    BY <1>1, <1>2, <2>1
  <2>3. /\ e \in Database /\ e.revision = tx.db.revision /\ e.core = tx.db.core
        /\ e.types = tx.db.types /\ e.users = tx.db.users
        /\ e.owner = tx.db.owner /\ e.column[t] = c
        /\ \A s \in Table : s # t => e.column[s] = tx.db.column[s]
    BY <2>2 DEF Database
  <2> QED BY <2>1, <2>3
<1>4. /\ tx' \in Transaction /\ Moves(tx, tx')
      /\ tx'.first = tx.first /\ tx'.existing = tx.existing
      /\ tx'.db.core = tx.db.core /\ tx'.db.types = tx.db.types
      /\ tx'.db.users = tx.db.users /\ tx'.db.column = e.column
      /\ tx'.db.owner = tx.db.owner
      /\ UNCHANGED <<db, outcome>>
  BY <1>1, <1>2, <1>3, Continued
<1>5. \A s \in Table : tx.db.column[s] = RaisedColumn(tx.step, s)
  BY <1>1, ColumnsRaised
<1>6. \A s \in Table : tx'.db.column[s] = RaisedColumn(tx.step + 1, s)
  BY <1>3, <1>4, <1>5 DEF RaisedColumn, Index, Table
<1>7. tx.step \in 14 .. 19
  BY DEF Index
<1>8. tx.db.users # NULL /\ tx.db.column[Target] \in {"nullable", "required"}
  BY <1>1, <1>5 DEF SchemaAt, Raising, RaisedColumn, Index
<1>9. \A r \in Row : OwnerOK(c, tx.db.owner[Target][r], tx.db.users)
  BY <1>1, <1>8 DEF OwnersOK, OwnerOK, Ownerless
<1>10. OwnersOK(tx'.db)
  BY <1>1, <1>3, <1>4, <1>9, RaisedOwners
<1>11. FirstOK(tx')
  BY <1>1, <1>4, RaisedFirst
<1>12. CountedOK(tx')
  BY <1>1, <1>4, <1>7, RaisedCounted
<1>13. KeptOK(db, tx')
  BY <1>1, <1>4, RaisedKept
<1>14. TxOK(db, tx')
  BY <1>1, <1>4, <1>6, <1>10, <1>11, <1>12, <1>13, RaisedStep
<1> QED BY <1>4, <1>14 DEF Kept, Runs, Raising, Moves

LEMMA SetNotNullKeeps ==
    ASSUME Within, SetNotNull
    PROVE  Kept
<1>1. /\ db \in Database /\ tx \in Transaction /\ Progress(db, tx)
      /\ tx.db.revision # tx.goal
  BY DEF Within, TxOK, SetNotNull, At
<1>2. Raising(tx) /\ Target \in Table /\ tx.step = 13 + Index(Target)
  BY <1>1, Placed DEF Place, SetNotNull, At
<1>3. ~Ownerless
  BY <1>2, Backfilled
<1>4. Continue([tx.db EXCEPT !.column[Target] = "required"])
  BY <1>3 DEF SetNotNull
<1> QED BY <1>1, <1>2, <1>3, <1>4, ConstrainKeeps DEF Column

LEMMA AddConstraintKeeps ==
    ASSUME Within, AddConstraint
    PROVE  Kept
<1>1. /\ db \in Database /\ tx \in Transaction /\ tx.db \in Database
      /\ Progress(db, tx) /\ SchemaAt(tx) /\ OwnersOK(tx.db)
      /\ tx.db.revision # tx.goal
  BY DEF Within, TxOK, AddConstraint, At, Transaction
<1>2. Raising(tx) /\ Target \in Table /\ tx.step = 16 + Index(Target)
  BY <1>1, Placed DEF Place, AddConstraint, At
<1>3. tx.db.column[Target] = RaisedColumn(tx.step, Target)
  BY <1>1, <1>2, ColumnsRaised
<1>4. tx.db.column[Target] = "required"
  BY <1>2, <1>3 DEF RaisedColumn, Index
<1>5. /\ tx.db.users # NULL /\ tx.db.users \in SUBSET User
      /\ \A r \in Row : tx.db.owner[Target][r] \in tx.db.users \cup {ABSENT}
  BY <1>1, <1>2, <1>4 DEF OwnersOK, OwnerOK, SchemaAt, Raising, Database
<1>6. ~Dangling /\ ~Ownerless
  BY <1>5, MarkerAssumption DEF Dangling, Ownerless
<1>7. Continue([tx.db EXCEPT !.column[Target] = "references_users"])
  BY <1>6 DEF AddConstraint
<1> QED BY <1>1, <1>2, <1>6, <1>7, ConstrainKeeps DEF Column
LEMMA CreateCoreKeeps ==
    ASSUME Within, CreateCore
    PROVE  Kept
<1>1. /\ db \in Database /\ tx \in Transaction /\ tx.db \in Database
      /\ Progress(db, tx) /\ SchemaAt(tx) /\ OwnersOK(tx.db) /\ FirstOK(tx)
      /\ SameUsers(db, tx)
      /\ KeptOK(db, tx) /\ tx.db.revision # tx.goal /\ TxOK(db, tx)
  BY DEF Within, TxOK, CreateCore, At, Transaction
<1>2. tx.up /\ tx.db.revision = 0 /\ tx.step = 1
  BY <1>1, Placed DEF Place, CreateCore, At
<1>3. ~tx.db.types
  BY <1>1, <1>2 DEF SchemaAt
<1>4. PICK e : e = [tx.db EXCEPT !.core = TRUE, !.types = TRUE] /\ Continue(e)
  BY <1>3 DEF CreateCore
<1>5. /\ e \in Database /\ e.revision = tx.db.revision /\ e.core /\ e.types
      /\ e.users = tx.db.users /\ e.column = tx.db.column
      /\ e.owner = tx.db.owner
  BY <1>1, <1>4 DEF Database
<1>6. /\ tx' \in Transaction /\ Moves(tx, tx')
      /\ tx'.first = tx.first /\ tx'.existing = tx.existing
      /\ tx'.db.core /\ tx'.db.types
      /\ tx'.db.users = tx.db.users /\ tx'.db.column = tx.db.column
      /\ tx'.db.owner = tx.db.owner
      /\ UNCHANGED <<db, outcome>>
  BY <1>1, <1>4, <1>5, Continued
<1>7. Progress(db, tx')
  BY <1>1, <1>6, MovesProgress
<1>8. tx'.up /\ tx'.db.revision = 1 /\ tx'.step = 1
  BY <1>1, <1>2, <1>6 DEF Moves, Length, Raising, Lowering
<1>9. SchemaAt(tx')
  BY <1>1, <1>2, <1>6, <1>8 DEF SchemaAt, ColumnAt, Raising, Lowering
<1>10. OwnersOK(tx'.db) /\ SameUsers(db, tx')
  BY <1>1, <1>6 DEF OwnersOK, SameUsers
<1>11. FirstOK(tx')
  BY <1>1, <1>6, RaisedFirst
<1>12. CountedOK(tx')
  BY <1>8 DEF CountedOK, Raising
<1>13. KeptOK(db, tx')
  BY <1>1, <1>2, <1>6 DEF KeptOK, Given
<1>14. TxOK(db, tx')
  BY <1>6, <1>7, <1>9, <1>10, <1>11, <1>12, <1>13 DEF TxOK
<1> QED BY <1>2, <1>6, <1>14 DEF Kept, Runs, Moves

LEMMA CreateUsersKeeps ==
    ASSUME Within, CreateUsers
    PROVE  Kept
<1>1. /\ db \in Database /\ tx \in Transaction /\ tx.db \in Database
      /\ Progress(db, tx) /\ SchemaAt(tx) /\ OwnersOK(tx.db) /\ FirstOK(tx)
      /\ SameUsers(db, tx) /\ SchemaMatchesRevision
      /\ KeptOK(db, tx) /\ tx.db.revision # tx.goal /\ TxOK(db, tx)
  BY DEF Within, TxOK, CreateUsers, At, Transaction
<1>2. tx.up /\ tx.db.revision = 1 /\ tx.step = 1
  BY <1>1, Placed DEF Place, CreateUsers, At
<1>3. tx.db.users = NULL /\ tx.first = NULL
  BY <1>1, <1>2 DEF SchemaAt, FirstOK
<1>4. PICK e : e = [tx.db EXCEPT !.users = {}] /\ Continue(e)
  BY <1>3 DEF CreateUsers
<1>5. /\ e \in Database /\ e.revision = tx.db.revision /\ e.core = tx.db.core
      /\ e.types = tx.db.types /\ e.users = {} /\ e.column = tx.db.column
      /\ e.owner = tx.db.owner
  BY <1>1, <1>4 DEF Database
<1>6. /\ tx' \in Transaction /\ Moves(tx, tx')
      /\ tx'.first = tx.first /\ tx'.existing = tx.existing
      /\ tx'.db.core = tx.db.core /\ tx'.db.types = tx.db.types
      /\ tx'.db.users = {} /\ tx'.db.column = tx.db.column
      /\ tx'.db.owner = tx.db.owner
      /\ UNCHANGED <<db, outcome>>
  BY <1>1, <1>4, <1>5, Continued
<1>7. Progress(db, tx')
  BY <1>1, <1>6, MovesProgress
<1>8. tx'.up /\ tx'.db.revision = 2 /\ tx'.step = 1
  BY <1>1, <1>2, <1>6 DEF Moves, Length, Raising, Lowering
<1>9. NULL # {}
  BY MarkerAssumption
<1>10. \A t \in Table : tx.db.column[t] = "none"
  BY <1>1, <1>2 DEF SchemaAt, ColumnAt, Raising, Lowering
<1>11. SchemaAt(tx')
  BY <1>1, <1>2, <1>6, <1>8, <1>9, <1>10
     DEF SchemaAt, ColumnAt, Raising, Lowering, RaisedColumn, Index
<1>12. OwnersOK(tx'.db)
  BY <1>1, <1>6, <1>10 DEF OwnersOK, OwnerOK
<1>13. db.users = NULL
  BY <1>1, <1>2 DEF Progress, SchemaMatchesRevision, Database
<1>14. SameUsers(db, tx')
  BY <1>13 DEF SameUsers
<1>15. FirstOK(tx')
  BY <1>1, <1>2, <1>3, <1>6 DEF FirstOK, Moves
<1>16. CountedOK(tx')
  BY <1>8 DEF CountedOK, Raising, Index
<1>17. KeptOK(db, tx')
  BY <1>1, <1>2, <1>6 DEF KeptOK, Given
<1>18. TxOK(db, tx')
  BY <1>6, <1>7, <1>11, <1>12, <1>14, <1>15, <1>16, <1>17 DEF TxOK
<1> QED BY <1>2, <1>6, <1>18 DEF Kept, Runs, Moves

\* The part of TxOK that is the same for every statement of a downgrade.
LEMMA LoweredStep ==
    ASSUME NEW d \in Database, NEW x \in Transaction, NEW y \in Transaction,
           TxOK(d, x), x.db.revision # x.goal, Moves(x, y), ~x.up,
           y.db.users = x.db.users \/ y.db.users = NULL,
           y.first = x.first, SchemaAt(y), OwnersOK(y.db)
    PROVE  TxOK(d, y)
<1>1. Progress(d, x) /\ SameUsers(d, x) /\ FirstOK(x)
  BY DEF TxOK
<1>2. Progress(d, y)
  BY <1>1, MovesProgress
<1>3. ~y.up /\ y.first = NULL
  BY <1>1 DEF Moves, FirstOK
<1>4. SameUsers(d, y)
  BY <1>1 DEF SameUsers
<1>5. FirstOK(y) /\ CountedOK(y) /\ KeptOK(d, y)
  BY <1>3 DEF FirstOK, CountedOK, KeptOK, Raising
<1> QED BY <1>2, <1>4, <1>5 DEF TxOK

LEMMA CoreLowering ==
    ASSUME Lowering(tx), SchemaAt(tx), tx \in Transaction
    PROVE  tx.db.core
  BY DEF Lowering, SchemaAt, Transaction, Database

LEMMA DropConstraintKeeps ==
    ASSUME Within, DropConstraint
    PROVE  Kept
<1>1. /\ db \in Database /\ tx \in Transaction /\ tx.db \in Database
      /\ Progress(db, tx) /\ SchemaAt(tx) /\ OwnersOK(tx.db)
      /\ tx.db.revision # tx.goal /\ TxOK(db, tx)
  BY DEF Within, TxOK, DropConstraint, At, Transaction
<1>2. Lowering(tx) /\ Target \in Table /\ tx.step = 7 - 2 * Index(Target)
  BY <1>1, Placed DEF Place, DropConstraint, At
<1>3. \A s \in Table : tx.db.column[s] = LoweredColumn(tx.step, s)
  BY <1>1, <1>2 DEF SchemaAt, ColumnAt, Raising, Lowering
<1>4. tx.db.column[Target] = "references_users"
  BY <1>2, <1>3 DEF LoweredColumn, Index
<1>5. PICK e : e = [tx.db EXCEPT !.column[Target] = "required"] /\ Continue(e)
  BY <1>4 DEF DropConstraint
<1>6. /\ e \in Database /\ e.revision = tx.db.revision /\ e.core = tx.db.core
      /\ e.types = tx.db.types /\ e.users = tx.db.users
      /\ e.owner = tx.db.owner /\ e.column[Target] = "required"
      /\ \A s \in Table : s # Target => e.column[s] = tx.db.column[s]
  BY <1>1, <1>2, <1>5, ColumnSet DEF Column
<1>7. /\ tx' \in Transaction /\ Moves(tx, tx')
      /\ tx'.first = tx.first /\ tx'.existing = tx.existing
      /\ tx'.db.core = tx.db.core /\ tx'.db.types = tx.db.types
      /\ tx'.db.users = tx.db.users /\ tx'.db.column = e.column
      /\ tx'.db.owner = tx.db.owner
      /\ UNCHANGED <<db, outcome>>
  BY <1>1, <1>5, <1>6, Continued
<1>8. /\ \A s \in Table : ColumnAt(tx', s) = LoweredColumn(tx.step + 1, s)
      /\ tx'.db.revision \in {2, 3} /\ ~tx'.up
  BY <1>1, <1>2, <1>7, LoweredAt
<1>9. \A s \in Table : tx'.db.column[s] = LoweredColumn(tx.step + 1, s)
  BY <1>2, <1>3, <1>6, <1>7 DEF LoweredColumn, Index, Table
<1>10. SchemaAt(tx')
  BY <1>1, <1>2, <1>7, <1>8, <1>9 DEF SchemaAt, Lowering
<1>11. OwnersOK(tx'.db)
  BY <1>1, <1>2, <1>4, <1>6, <1>7 DEF OwnersOK, OwnerOK
<1>12. TxOK(db, tx')
  BY <1>1, <1>2, <1>7, <1>10, <1>11, LoweredStep DEF Lowering
<1>13. Lowers(tx, tx')
  BY <1>1, <1>2, <1>4, <1>6, <1>7, CoreLowering DEF Lowers
<1> QED BY <1>7, <1>12, <1>13 DEF Kept, Runs, Moves

LEMMA DropColumnKeeps ==
    ASSUME Within, DropColumn
    PROVE  Kept
<1>1. /\ db \in Database /\ tx \in Transaction /\ tx.db \in Database
      /\ Progress(db, tx) /\ SchemaAt(tx) /\ OwnersOK(tx.db)
      /\ tx.db.revision # tx.goal /\ TxOK(db, tx)
  BY DEF Within, TxOK, DropColumn, At, Transaction
<1>2. Lowering(tx) /\ Target \in Table /\ tx.step = 8 - 2 * Index(Target)
  BY <1>1, Placed DEF Place, DropColumn, At
<1>3. \A s \in Table : tx.db.column[s] = LoweredColumn(tx.step, s)
  BY <1>1, <1>2 DEF SchemaAt, ColumnAt, Raising, Lowering
<1>4. PICK rows : rows = [r \in Row |-> IF tx.db.owner[Target][r] = ABSENT
                                        THEN ABSENT ELSE NULL]
  OBVIOUS
<1>5. PICK e : /\ e = [tx.db EXCEPT !.column[Target] = "none",
                                    !.owner[Target] = rows]
               /\ Continue(e)
  BY <1>4 DEF DropColumn
<1>6. rows \in [Row -> User \cup {NULL, ABSENT}]
  BY <1>4
<1>7. /\ e \in Database /\ e.revision = tx.db.revision /\ e.core = tx.db.core
      /\ e.types = tx.db.types /\ e.users = tx.db.users
      /\ e.column[Target] = "none" /\ e.owner[Target] = rows
      /\ \A s \in Table : s # Target => /\ e.column[s] = tx.db.column[s]
                                        /\ e.owner[s] = tx.db.owner[s]
  BY <1>1, <1>2, <1>5, <1>6 DEF Database, Column
<1>8. /\ tx' \in Transaction /\ Moves(tx, tx')
      /\ tx'.first = tx.first /\ tx'.existing = tx.existing
      /\ tx'.db.core = tx.db.core /\ tx'.db.types = tx.db.types
      /\ tx'.db.users = tx.db.users /\ tx'.db.column = e.column
      /\ tx'.db.owner = e.owner
      /\ UNCHANGED <<db, outcome>>
  BY <1>1, <1>5, <1>7, Continued
<1>9. /\ \A s \in Table : ColumnAt(tx', s) = LoweredColumn(tx.step + 1, s)
      /\ tx'.db.revision \in {2, 3} /\ ~tx'.up
  BY <1>1, <1>2, <1>8, LoweredAt
<1>10. \A s \in Table : tx'.db.column[s] = LoweredColumn(tx.step + 1, s)
  BY <1>2, <1>3, <1>7, <1>8 DEF LoweredColumn, Index, Table
<1>11. SchemaAt(tx')
  BY <1>1, <1>2, <1>8, <1>9, <1>10 DEF SchemaAt, Lowering
<1>12. OwnersOK(tx'.db)
  BY <1>1, <1>2, <1>4, <1>7, <1>8 DEF OwnersOK, OwnerOK
<1>13. TxOK(db, tx')
  BY <1>1, <1>2, <1>8, <1>11, <1>12, LoweredStep DEF Lowering
<1>14. Lowers(tx, tx')
  BY <1>1, <1>2, <1>4, <1>7, <1>8, CoreLowering DEF Lowers
<1> QED BY <1>8, <1>13, <1>14 DEF Kept, Runs, Moves
LEMMA DropUsersKeeps ==
    ASSUME Within, DropUsers
    PROVE  Kept
<1>1. /\ db \in Database /\ tx \in Transaction /\ tx.db \in Database
      /\ Progress(db, tx) /\ SchemaAt(tx) /\ OwnersOK(tx.db)
      /\ tx.db.revision # tx.goal /\ TxOK(db, tx)
  BY DEF Within, TxOK, DropUsers, At, Transaction
<1>2. ~tx.up /\ tx.db.revision = 2 /\ tx.step = 1
  BY <1>1, Placed DEF Place, DropUsers, At
<1>3. \A t \in Table : tx.db.column[t] = "none"
  BY <1>1, <1>2 DEF SchemaAt, ColumnAt, Raising, Lowering
<1>4. PICK e : e = [tx.db EXCEPT !.users = NULL] /\ Continue(e)
  BY <1>3 DEF DropUsers
<1>5. /\ e \in Database /\ e.revision = tx.db.revision /\ e.core = tx.db.core
      /\ e.types = tx.db.types /\ e.users = NULL /\ e.column = tx.db.column
      /\ e.owner = tx.db.owner
  BY <1>1, <1>4 DEF Database
<1>6. /\ tx' \in Transaction /\ Moves(tx, tx')
      /\ tx'.first = tx.first /\ tx'.existing = tx.existing
      /\ tx'.db.core = tx.db.core /\ tx'.db.types = tx.db.types
      /\ tx'.db.users = NULL /\ tx'.db.column = tx.db.column
      /\ tx'.db.owner = tx.db.owner
      /\ UNCHANGED <<db, outcome>>
  BY <1>1, <1>4, <1>5, Continued
<1>7. ~tx'.up /\ tx'.db.revision = 1 /\ tx'.step = 1
  BY <1>1, <1>2, <1>6 DEF Moves, Length, Raising, Lowering
<1>8. SchemaAt(tx')
  BY <1>1, <1>2, <1>3, <1>6, <1>7 DEF SchemaAt, ColumnAt, Raising, Lowering
<1>9. OwnersOK(tx'.db)
  BY <1>1, <1>3, <1>6 DEF OwnersOK, OwnerOK
<1>10. TxOK(db, tx')
  BY <1>1, <1>2, <1>6, <1>8, <1>9, LoweredStep
<1>11. Lowers(tx, tx')
  BY <1>3, <1>6 DEF Lowers
<1> QED BY <1>6, <1>10, <1>11 DEF Kept, Runs, Moves

LEMMA DropCoreKeeps ==
    ASSUME Within, DropCore
    PROVE  Kept
<1>1. /\ db \in Database /\ tx \in Transaction /\ tx.db \in Database
      /\ Progress(db, tx) /\ SchemaAt(tx) /\ OwnersOK(tx.db)
      /\ tx.db.revision # tx.goal /\ TxOK(db, tx)
  BY DEF Within, TxOK, DropCore, At, Transaction
<1>2. ~tx.up /\ tx.db.revision = 1 /\ tx.step = 1
  BY <1>1, Placed DEF Place, DropCore, At
<1>3. \A t \in Table : tx.db.column[t] = "none"
  BY <1>1, <1>2 DEF SchemaAt, ColumnAt, Raising, Lowering
<1>4. PICK e : /\ e = [tx.db EXCEPT !.core = FALSE, !.owner = NoRows]
               /\ Continue(e)
  BY DEF DropCore
<1>5. NoRows \in [Table -> [Row -> User \cup {NULL, ABSENT}]]
  BY DEF NoRows
<1>6. /\ e \in Database /\ e.revision = tx.db.revision /\ e.core = FALSE
      /\ e.types = tx.db.types /\ e.users = tx.db.users
      /\ e.column = tx.db.column /\ e.owner = NoRows
  BY <1>1, <1>4, <1>5 DEF Database
<1>7. /\ tx' \in Transaction /\ Moves(tx, tx')
      /\ tx'.first = tx.first /\ tx'.existing = tx.existing
      /\ ~tx'.db.core /\ tx'.db.types = tx.db.types
      /\ tx'.db.users = tx.db.users /\ tx'.db.column = tx.db.column
      /\ tx'.db.owner = NoRows
      /\ UNCHANGED <<db, outcome>>
  BY <1>1, <1>4, <1>6, Continued
<1>8. ~tx'.up /\ tx'.db.revision = 1 /\ tx'.step = 2
  BY <1>1, <1>2, <1>7 DEF Moves, Length, Raising, Lowering
<1>9. SchemaAt(tx')
  BY <1>1, <1>2, <1>3, <1>7, <1>8 DEF SchemaAt, ColumnAt, Raising, Lowering
<1>10. \A t \in Table, r \in Row : NoRows[t][r] = ABSENT
  BY DEF NoRows
<1>11. OwnersOK(tx'.db)
  BY <1>3, <1>7, <1>10 DEF OwnersOK, OwnerOK
<1>12. TxOK(db, tx')
  BY <1>1, <1>2, <1>7, <1>9, <1>11, LoweredStep
<1>13. Lowers(tx, tx')
  BY <1>7, <1>10 DEF Lowers
<1> QED BY <1>7, <1>12, <1>13 DEF Kept, Runs, Moves

LEMMA DropTypesKeeps ==
    ASSUME Within, DropTypes
    PROVE  Kept
<1>1. /\ db \in Database /\ tx \in Transaction /\ tx.db \in Database
      /\ Progress(db, tx) /\ SchemaAt(tx) /\ OwnersOK(tx.db)
      /\ tx.db.revision # tx.goal /\ TxOK(db, tx)
  BY DEF Within, TxOK, DropTypes, At, Transaction
<1>2. ~tx.up /\ tx.db.revision = 1 /\ tx.step = 2
  BY <1>1, Placed DEF Place, DropTypes, At
<1>3. ~tx.db.core /\ \A t \in Table : tx.db.column[t] = "none"
  BY <1>1, <1>2 DEF SchemaAt, ColumnAt, Raising, Lowering
<1>4. PICK e : e = [tx.db EXCEPT !.types = FALSE] /\ Continue(e)
  BY DEF DropTypes
<1>5. /\ e \in Database /\ e.revision = tx.db.revision /\ e.core = tx.db.core
      /\ e.types = FALSE /\ e.users = tx.db.users /\ e.column = tx.db.column
      /\ e.owner = tx.db.owner
  BY <1>1, <1>4 DEF Database
<1>6. /\ tx' \in Transaction /\ Moves(tx, tx')
      /\ tx'.first = tx.first /\ tx'.existing = tx.existing
      /\ tx'.db.core = tx.db.core /\ ~tx'.db.types
      /\ tx'.db.users = tx.db.users /\ tx'.db.column = tx.db.column
      /\ tx'.db.owner = tx.db.owner
      /\ UNCHANGED <<db, outcome>>
  BY <1>1, <1>4, <1>5, Continued
<1>7. ~tx'.up /\ tx'.db.revision = 0 /\ tx'.step = 1
  BY <1>1, <1>2, <1>6 DEF Moves, Length, Raising, Lowering
<1>8. SchemaAt(tx')
  BY <1>1, <1>2, <1>3, <1>6, <1>7 DEF SchemaAt, ColumnAt, Raising, Lowering
<1>9. OwnersOK(tx'.db)
  BY <1>1, <1>6 DEF OwnersOK
<1>10. TxOK(db, tx')
  BY <1>1, <1>2, <1>6, <1>8, <1>9, LoweredStep
<1>11. Lowers(tx, tx')
  BY <1>3, <1>6 DEF Lowers
<1> QED BY <1>6, <1>10, <1>11 DEF Kept, Runs, Moves

\* Every statement keeps the invariant of the transaction, or is refused.
LEMMA StatementKeeps ==
    ASSUME Within, Statement
    PROVE  Kept \/ Refused
  BY CreateCoreKeeps, CreateUsersKeeps, AddColumnKeeps, FirstUserKeeps,
     CountRowsKeeps, BackfillKeeps, VerifyKeeps, SetNotNullKeeps,
     AddConstraintKeeps, DropConstraintKeeps, DropColumnKeeps, DropUsersKeeps,
     DropCoreKeeps, DropTypesKeeps DEF Statement
-----------------------------------------------------------------------------
(* The beginning and the end of a run                                       *)

LEMMA StartKeeps ==
    ASSUME MigrationInv, NEW goal \in 0 .. 3, Start(goal)
    PROVE  MigrationInv'
<1>1. /\ db \in Database /\ db.revision \in 0 .. 3 /\ goal # db.revision
      /\ db.core \in BOOLEAN /\ db.types \in BOOLEAN
  BY DEF MigrationInv, MigrationTypeOK, Database, Start
<1>2. /\ db' = db /\ outcome' = outcome /\ tx'.db = db /\ tx'.goal = goal
      /\ tx'.up = (goal > db.revision) /\ tx'.step = 1 /\ tx'.first = NULL
      /\ tx'.existing = 0
      /\ tx'.before = IF db.users = NULL THEN {} ELSE db.users
  BY DEF Start
<1>3. tx' \in Transaction
  BY <1>1 DEF Start, Transaction, Database
<1>4. Progress(db, tx')
  <2>1. tx'.step <= Length(tx')
    BY <1>2 DEF Length
  <2>2. tx'.up <=> goal > db.revision
    BY <1>2
  <2>3. tx'.db.revision = db.revision /\ tx'.goal = goal
    BY <1>2
  <2> QED BY <1>1, <2>1, <2>2, <2>3 DEF Progress
<1>5. /\ db.core = (db.revision >= 1) /\ db.types = db.core
      /\ (db.users # NULL) = (db.revision >= 2)
      /\ \A t \in Table : db.column[t] =
             IF db.revision = 3 THEN "references_users" ELSE "none"
      /\ OwnersOK(db)
  BY DEF MigrationInv, SchemaMatchesRevision, DbOK
<1>6. \A t \in Table : db.column[t] = ColumnAt(tx', t)
  BY <1>1, <1>2, <1>5 DEF ColumnAt, Raising, Lowering, RaisedColumn,
                          LoweredColumn, Index
<1>7. SchemaAt(tx')
  BY <1>1, <1>2, <1>5, <1>6 DEF SchemaAt
<1>8. SameUsers(db, tx') /\ FirstOK(tx') /\ CountedOK(tx') /\ KeptOK(db, tx')
  BY <1>2 DEF SameUsers, FirstOK, CountedOK, KeptOK, Raising, Index
<1>9. TxOK(db, tx')
  BY <1>2, <1>4, <1>5, <1>7, <1>8 DEF TxOK
<1> QED BY <1>2, <1>3, <1>9
        DEF MigrationInv, MigrationTypeOK, SchemaMatchesRevision,
            OnlyMissingUserFails, Running

LEMMA CommitKeeps ==
    ASSUME MigrationInv, Commit
    PROVE  MigrationInv'
<1>1. /\ tx \in Transaction /\ TxOK(db, tx) /\ tx.db \in Database
      /\ tx.db.revision = tx.goal /\ db' = tx.db /\ tx' = NULL
      /\ outcome' = "done"
  BY DEF MigrationInv, MigrationTypeOK, Commit, Running, Transaction
<1>2. /\ tx.db.revision \in 0 .. 3 /\ tx.step \in 1 .. 19
      /\ tx.db.core \in BOOLEAN /\ tx.db.types \in BOOLEAN /\ tx.up \in BOOLEAN
  BY <1>1, FieldTypes
<1>3. tx.step = 1
  BY <1>1, <1>2 DEF TxOK, Progress, Length
<1>4. \A t \in Table : tx.db.column[t] =
          IF tx.db.revision = 3 THEN "references_users" ELSE "none"
  BY <1>1, <1>2, <1>3 DEF TxOK, SchemaAt, ColumnAt, Raising, Lowering,
                          RaisedColumn, LoweredColumn, Index
<1>5. /\ tx.db.core <=> tx.db.revision >= 1
      /\ tx.db.types <=> tx.db.revision >= 1
      /\ tx.db.users # NULL <=> tx.db.revision >= 2
  BY <1>1, <1>3 DEF TxOK, SchemaAt
<1>6. SchemaMatchesRevision'
  BY <1>1, <1>2, <1>4, <1>5 DEF SchemaMatchesRevision
<1>7. DbOK(db)'
  BY <1>1 DEF TxOK, DbOK
<1>8. MigrationTypeOK'
  BY <1>1 DEF MigrationTypeOK
<1> QED BY <1>1, <1>6, <1>7, <1>8 DEF MigrationInv, OnlyMissingUserFails, Running

LEMMA RefusedKeeps ==
    ASSUME MigrationInv, Refused
    PROVE  MigrationInv'
  BY DEF MigrationInv, MigrationTypeOK, SchemaMatchesRevision, DbOK,
         OnlyMissingUserFails, Running, Refused, Failure

LEMMA KeptKeeps ==
    ASSUME MigrationInv, Kept
    PROVE  MigrationInv'
  BY DEF MigrationInv, MigrationTypeOK, SchemaMatchesRevision, DbOK,
         OnlyMissingUserFails, Running, Kept
-----------------------------------------------------------------------------
(* The application, meanwhile                                               *)

LEMMA UserAdded ==
    ASSUME NEW d \in Database, d.users # NULL, NEW u \in User,
           NEW e, e = WithUser(d, u)
    PROVE  /\ e \in Database /\ e.revision = d.revision /\ e.core = d.core
           /\ e.types = d.types /\ e.column = d.column /\ e.owner = d.owner
           /\ e.users = d.users \cup {u} /\ e.users # NULL
<1>1. d.users \in SUBSET User /\ d.users \cup {u} \in SUBSET User
  BY DEF Database
<1>2. /\ e \in Database /\ e.revision = d.revision /\ e.core = d.core
      /\ e.types = d.types /\ e.column = d.column /\ e.owner = d.owner
      /\ e.users = d.users \cup {u}
  BY <1>1 DEF Database, WithUser
<1> QED BY <1>1, <1>2, MarkerAssumption

LEMMA OwnersAfterUser ==
    ASSUME NEW d \in Database, NEW e \in Database, NEW u \in User,
           d.users # NULL, OwnersOK(d),
           e.column = d.column, e.owner = d.owner,
           e.users = d.users \cup {u}, e.users # NULL
    PROVE  OwnersOK(e)
  BY DEF OwnersOK, OwnerOK

LEMMA OwnerSet ==
    ASSUME NEW d \in Database, NEW t \in Table, NEW r \in Row,
           NEW x \in User \cup {NULL, ABSENT}, NEW e, e = WithOwner(d, t, r, x)
    PROVE  /\ e \in Database /\ e.revision = d.revision /\ e.core = d.core
           /\ e.types = d.types /\ e.column = d.column /\ e.users = d.users
           /\ e.owner[t][r] = x
           /\ \A s \in Table, q \in Row :
                  s # t \/ q # r => e.owner[s][q] = d.owner[s][q]
<1>1. PICK rows : rows = [d.owner[t] EXCEPT ![r] = x]
  OBVIOUS
<1>2. PICK owner : owner = [d.owner EXCEPT ![t] = rows]
  OBVIOUS
<1>3. d.owner \in [Table -> [Row -> User \cup {NULL, ABSENT}]]
  BY DEF Database
<1>4. /\ rows \in [Row -> User \cup {NULL, ABSENT}] /\ rows[r] = x
      /\ \A q \in Row : q # r => rows[q] = d.owner[t][q]
  BY <1>1, <1>3
<1>5. /\ owner \in [Table -> [Row -> User \cup {NULL, ABSENT}]]
      /\ owner[t] = rows /\ \A s \in Table : s # t => owner[s] = d.owner[s]
  BY <1>2, <1>3, <1>4
<1>6. e = [d EXCEPT !.owner = owner]
  BY <1>1, <1>2 DEF WithOwner
<1>7. /\ e \in Database /\ e.revision = d.revision /\ e.core = d.core
      /\ e.types = d.types /\ e.column = d.column /\ e.users = d.users
      /\ e.owner = owner
  BY <1>5, <1>6 DEF Database
<1> QED BY <1>4, <1>5, <1>7

LEMMA RegisterKeeps ==
    ASSUME MigrationInv, NEW u \in User, Register(u)
    PROVE  MigrationInv'
<1>1. /\ db \in Database /\ db.users # NULL /\ OwnersOK(db)
      /\ SchemaMatchesRevision /\ outcome' = outcome
  BY DEF MigrationInv, MigrationTypeOK, DbOK, Register
<1>2. db' = WithUser(db, u)
  BY DEF Register
<1>3. /\ db' \in Database /\ db'.revision = db.revision /\ db'.core = db.core
      /\ db'.types = db.types /\ db'.column = db.column /\ db'.owner = db.owner
      /\ db'.users = db.users \cup {u} /\ db'.users # NULL
  BY <1>1, <1>2, UserAdded
<1>4. OwnersOK(db')
  BY <1>1, <1>3, OwnersAfterUser
<1>5. SchemaMatchesRevision'
  BY <1>1, <1>3 DEF SchemaMatchesRevision
<1>6. CASE ~Running
  <2>1. tx' = NULL
    BY <1>6 DEF Register
  <2> QED BY <1>1, <1>3, <1>4, <1>5, <2>1
          DEF MigrationInv, MigrationTypeOK, DbOK, OnlyMissingUserFails, Running
<1>7. CASE Running
  <2>1. /\ tx \in Transaction /\ tx.db \in Database /\ TxOK(db, tx)
        /\ ~UsersLocked
    BY <1>7 DEF MigrationInv, MigrationTypeOK, Running, Register, Transaction
  <2>2. tx.db.users # NULL
    BY <1>1, <1>7, <2>1 DEF UsersLocked
  <2>3. tx.db.users = db.users
    BY <1>1, <2>1, <2>2 DEF TxOK, SameUsers
  <2>4. PICK e : e = WithUser(tx.db, u) /\ tx' = [tx EXCEPT !.db = e]
    BY <1>7 DEF Register
  <2>5. /\ e \in Database /\ e.revision = tx.db.revision /\ e.core = tx.db.core
        /\ e.types = tx.db.types /\ e.column = tx.db.column
        /\ e.owner = tx.db.owner
        /\ e.users = tx.db.users \cup {u} /\ e.users # NULL
    BY <2>1, <2>2, <2>4, UserAdded
  <2>6. /\ tx' \in Transaction /\ tx'.db = e /\ tx'.goal = tx.goal
        /\ tx'.up = tx.up /\ tx'.step = tx.step /\ tx'.first = tx.first
        /\ tx'.existing = tx.existing /\ tx'.before = tx.before
    BY <2>1, <2>4, <2>5 DEF Transaction
  <2>7. OwnersOK(e)
    <3>1. OwnersOK(tx.db)
      BY <2>1 DEF TxOK
    <3> QED BY <2>1, <2>2, <2>5, <3>1, OwnersAfterUser
  <2>8. Progress(db', tx')
    BY <1>3, <2>1, <2>5, <2>6 DEF TxOK, Progress, Length, Raising, Lowering
  <2>9. SchemaAt(tx')
    BY <2>1, <2>2, <2>5, <2>6 DEF TxOK, SchemaAt, ColumnAt, Raising, Lowering
  <2>10. SameUsers(db', tx')
    BY <1>3, <2>3, <2>5, <2>6 DEF SameUsers
  <2>11. FirstOK(tx')
    BY <2>1, <2>5, <2>6 DEF TxOK, FirstOK
  <2>12. CountedOK(tx') /\ KeptOK(db', tx')
    BY <1>3, <2>1, <2>5, <2>6 DEF TxOK, CountedOK, KeptOK, Given, Raising
  <2>13. TxOK(db', tx')
    BY <2>6, <2>7, <2>8, <2>9, <2>10, <2>11, <2>12 DEF TxOK
  <2> QED BY <1>1, <1>3, <1>4, <1>5, <2>6, <2>13
          DEF MigrationInv, MigrationTypeOK, DbOK, OnlyMissingUserFails
<1> QED BY <1>6, <1>7

\* What may be written into a row, by its column in both databases.
Writable(t, x) ==
    /\ OwnerOK(db.column[t], x, db.users)
    /\ Running => OwnerOK(tx.db.column[t], x, tx.db.users)

LEMMA WriteKeeps ==
    ASSUME MigrationInv, NEW t \in Table, NEW r \in Row,
           NEW x \in User \cup {NULL, ABSENT}, Write(t, r, x), Writable(t, x)
    PROVE  MigrationInv'
<1>1. /\ db \in Database /\ OwnersOK(db)
      /\ SchemaMatchesRevision /\ db' = WithOwner(db, t, r, x)
      /\ outcome' = outcome
  BY DEF MigrationInv, MigrationTypeOK, DbOK, Write
<1>2. /\ db' \in Database /\ db'.revision = db.revision /\ db'.core = db.core
      /\ db'.types = db.types /\ db'.column = db.column
      /\ db'.users = db.users /\ db'.owner[t][r] = x
      /\ \A s \in Table, q \in Row :
             s # t \/ q # r => db'.owner[s][q] = db.owner[s][q]
  BY <1>1, OwnerSet
<1>3. OwnersOK(db')
  <2> SUFFICES ASSUME NEW s \in Table, NEW q \in Row
               PROVE  OwnerOK(db.column[s], db'.owner[s][q], db.users)
    BY <1>2 DEF OwnersOK
  <2>1. CASE s = t /\ q = r
    BY <1>2, <2>1 DEF Writable
  <2>2. CASE s # t \/ q # r
    BY <1>1, <1>2, <2>2 DEF OwnersOK
  <2> QED BY <2>1, <2>2
<1>4. SchemaMatchesRevision'
  BY <1>1, <1>2 DEF SchemaMatchesRevision
<1>5. CASE ~Running
  <2>1. tx' = NULL
    BY <1>5 DEF Write
  <2> QED BY <1>1, <1>2, <1>3, <1>4, <2>1
          DEF MigrationInv, MigrationTypeOK, DbOK, OnlyMissingUserFails, Running
<1>6. CASE Running
  <2>1. /\ tx \in Transaction /\ tx.db \in Database /\ TxOK(db, tx)
        /\ tx.db.column[t] = db.column[t]
    BY <1>6 DEF MigrationInv, MigrationTypeOK, Running, Write, Locked, Transaction
  <2>2. PICK e : e = WithOwner(tx.db, t, r, x) /\ tx' = [tx EXCEPT !.db = e]
    BY <1>6 DEF Write
  <2>3. /\ e \in Database /\ e.revision = tx.db.revision /\ e.core = tx.db.core
        /\ e.types = tx.db.types /\ e.column = tx.db.column
        /\ e.users = tx.db.users /\ e.owner[t][r] = x
        /\ \A s \in Table, q \in Row :
               s # t \/ q # r => e.owner[s][q] = tx.db.owner[s][q]
    BY <2>1, <2>2, OwnerSet
  <2>4. /\ tx' \in Transaction /\ tx'.db = e /\ tx'.goal = tx.goal
        /\ tx'.up = tx.up /\ tx'.step = tx.step /\ tx'.first = tx.first
        /\ tx'.existing = tx.existing /\ tx'.before = tx.before
    BY <2>1, <2>2, <2>3 DEF Transaction
  <2>5. OwnersOK(e)
    <3> SUFFICES ASSUME NEW s \in Table, NEW q \in Row
                 PROVE  OwnerOK(tx.db.column[s], e.owner[s][q], tx.db.users)
      BY <2>3 DEF OwnersOK
    <3>1. CASE s = t /\ q = r
      BY <1>6, <2>3, <3>1 DEF Writable
    <3>2. CASE s # t \/ q # r
      BY <2>1, <2>3, <3>2 DEF OwnersOK, TxOK
    <3> QED BY <3>1, <3>2
  <2>6. Progress(db', tx')
    BY <1>2, <2>1, <2>3, <2>4 DEF TxOK, Progress, Length, Raising, Lowering
  <2>7. SchemaAt(tx')
    BY <2>1, <2>3, <2>4 DEF TxOK, SchemaAt, ColumnAt, Raising, Lowering
  <2>8. SameUsers(db', tx') /\ FirstOK(tx')
    BY <1>2, <2>1, <2>3, <2>4 DEF TxOK, SameUsers, FirstOK
  <2>9. CountedOK(tx')
    <3> SUFFICES ASSUME Raising(tx), NEW s \in Table, NEW q \in Row
                 PROVE  /\ tx.step > 4 + Index(s) /\ e.owner[s][q] # ABSENT
                           => tx.existing > 0
                        /\ tx.step > 7 + Index(s) => e.owner[s][q] # NULL
      BY <2>3, <2>4 DEF CountedOK, Raising
    <3>1. CASE s = t
      <4>1. tx.db.column[t] = RaisedColumn(tx.step, t)
        BY <2>1, ColumnsRaised DEF TxOK
      <4>2. db.column[t] = "none"
        <5>1. db.revision <= 2 /\ db.revision \in 0 .. 3
          BY <2>1, <1>1 DEF TxOK, Progress, Raising, Database
        <5> QED BY <1>1, <5>1 DEF SchemaMatchesRevision
      <4>3. tx.step <= Index(t) /\ tx.step \in 1 .. 19 /\ Index(t) \in {1, 2, 3}
        BY <2>1, <4>1, <4>2 DEF RaisedColumn, Index, Transaction
      <4> QED BY <3>1, <4>3
    <3>2. CASE s # t
      BY <2>1, <2>3, <3>2 DEF TxOK, CountedOK
    <3> QED BY <3>1, <3>2
  <2>10. KeptOK(db', tx')
    <3> SUFFICES ASSUME tx.up, NEW s \in Table, NEW q \in Row
                 PROVE  \/ e.owner[s][q] = db'.owner[s][q]
                        \/ Given(db'.owner[s][q], e.owner[s][q], tx')
      BY <2>3, <2>4 DEF KeptOK
    <3>1. CASE s = t /\ q = r
      BY <1>2, <2>3, <3>1
    <3>2. CASE s # t \/ q # r
      BY <1>2, <2>1, <2>3, <2>4, <3>2 DEF TxOK, KeptOK, Given
    <3> QED BY <3>1, <3>2
  <2>11. TxOK(db', tx')
    BY <2>4, <2>5, <2>6, <2>7, <2>8, <2>9, <2>10 DEF TxOK
  <2> QED BY <1>1, <1>2, <1>3, <1>4, <2>4, <2>11
          DEF MigrationInv, MigrationTypeOK, DbOK, OnlyMissingUserFails
<1> QED BY <1>5, <1>6

LEMMA InsertWritable ==
    ASSUME MigrationInv, NEW t \in Table, NEW r \in Row,
           NEW u \in User \cup {NULL}, Insert(t, r, u)
    PROVE  Writable(t, u)
<1>1. db.column[t] \in {"none", "references_users"}
  BY DEF MigrationInv, SchemaMatchesRevision
<1>2. Running => /\ tx.db.column[t] = db.column[t]
                 /\ SameUsers(db, tx)
  BY DEF MigrationInv, TxOK, Insert, Write, Locked
<1>3. CASE db.column[t] = "none" /\ u = NULL
  BY <1>2, <1>3 DEF Writable, OwnerOK
<1>4. CASE /\ db.column[t] # "none" /\ db.users # NULL /\ ~UsersLocked
           /\ u \in db.users
  <2>1. Running => tx.db.users # NULL
    BY <1>4 DEF UsersLocked
  <2>2. Running => tx.db.users = db.users
    BY <1>2, <1>4, <2>1 DEF SameUsers
  <2> QED BY <1>1, <1>2, <1>4, <2>1, <2>2 DEF Writable, OwnerOK
<1> QED BY <1>3, <1>4 DEF Insert

LEMMA InsertKeeps ==
    ASSUME MigrationInv, NEW t \in Table, NEW r \in Row,
           NEW u \in User \cup {NULL}, Insert(t, r, u)
    PROVE  MigrationInv'
  BY InsertWritable, WriteKeeps DEF Insert

LEMMA DeleteWritable ==
    ASSUME MigrationInv, NEW t \in Table, NEW r \in Row
    PROVE  Writable(t, ABSENT)
<1>1. OwnerOK(db.column[t], db.owner[t][r], db.users)
  BY DEF MigrationInv, DbOK, OwnersOK
<1>2. Running => OwnerOK(tx.db.column[t], tx.db.owner[t][r], tx.db.users)
  BY DEF MigrationInv, TxOK, OwnersOK
<1> QED BY <1>1, <1>2 DEF Writable, OwnerOK

LEMMA DeleteKeeps ==
    ASSUME MigrationInv, NEW t \in Table, NEW r \in Row, Delete(t, r)
    PROVE  MigrationInv'
  BY DeleteWritable, WriteKeeps DEF Delete
-----------------------------------------------------------------------------
(* The invariant                                                            *)

LEMMA MigrationInitially == MigrationInit => MigrationInv
<1> SUFFICES ASSUME MigrationInit
             PROVE  MigrationInv
  OBVIOUS
<1>1. db = Empty /\ tx = NULL /\ outcome = "none"
  BY DEF MigrationInit
<1>2. /\ Empty.revision = 0 /\ Empty.core = FALSE /\ Empty.types = FALSE
      /\ Empty.users = NULL /\ Empty.owner = NoRows
      /\ \A t \in Table : Empty.column[t] = "none"
  BY DEF Empty
<1>3. PICK column : column = [t \in Table |-> "none"]
  OBVIOUS
<1>4. column \in [Table -> Column]
  BY <1>3 DEF Column
<1>5. NoRows \in [Table -> [Row -> User \cup {NULL, ABSENT}]]
  BY DEF NoRows
<1>6. Empty \in Database
  BY <1>3, <1>4, <1>5 DEF Empty, Database
<1>7. \A t \in Table, r \in Row : NoRows[t][r] = ABSENT
  BY DEF NoRows
<1>8. OwnersOK(Empty)
  BY <1>2, <1>7 DEF OwnersOK, OwnerOK
<1>9. SchemaMatchesRevision
  <2>1. /\ (db.revision >= 1) = FALSE /\ (db.revision >= 2) = FALSE
        /\ db.revision # 3
    BY <1>1, <1>2
  <2>2. (db.users # NULL) = FALSE
    BY <1>1, <1>2
  <2> QED BY <1>1, <1>2, <2>1, <2>2 DEF SchemaMatchesRevision
<1> QED BY <1>1, <1>6, <1>8, <1>9
        DEF MigrationInv, MigrationTypeOK, DbOK, Running, OnlyMissingUserFails

LEMMA StatementWithin ==
    ASSUME MigrationInv, Statement
    PROVE  Within
  BY DEF Within, MigrationInv, MigrationTypeOK, Running, Statement, At,
         CreateCore, CreateUsers, AddColumn, FirstUser, CountRows, Backfill,
         Verify, SetNotNull, AddConstraint, DropConstraint, DropColumn,
         DropUsers, DropCore, DropTypes

LEMMA MigrationStep ==
    ASSUME MigrationInv, MigrationNext
    PROVE  MigrationInv'
<1>1. ASSUME NEW goal \in 0 .. 3, Start(goal)
      PROVE  MigrationInv'
  BY <1>1, StartKeeps
<1>2. CASE Commit
  BY <1>2, CommitKeeps
<1>3. CASE Statement
  <2>1. Within
    BY <1>3, StatementWithin
  <2> QED BY <1>3, <2>1, StatementKeeps, KeptKeeps, RefusedKeeps
<1>4. CASE Crash
  BY <1>4, RefusedKeeps DEF Crash, Rollback, Refused
<1>5. ASSUME NEW u \in User, Register(u)
      PROVE  MigrationInv'
  BY <1>5, RegisterKeeps
<1>6. ASSUME NEW t \in Table, NEW r \in Row, Delete(t, r)
      PROVE  MigrationInv'
  BY <1>6, DeleteKeeps
<1>7. ASSUME NEW t \in Table, NEW r \in Row, NEW u \in User \cup {NULL},
             Insert(t, r, u)
      PROVE  MigrationInv'
  BY <1>7, InsertKeeps
<1> QED BY <1>1, <1>2, <1>3, <1>4, <1>5, <1>6, <1>7
        DEF MigrationNext, Migrate, Statement, Serve

LEMMA MigrationInvariant == MigrationSpec => []MigrationInv
<1>1. MigrationInv /\ UNCHANGED migrationVars => MigrationInv'
  BY DEF MigrationInv, MigrationTypeOK, SchemaMatchesRevision, DbOK,
         OnlyMissingUserFails, Running, migrationVars
<1>2. MigrationInv /\ [MigrationNext]_migrationVars => MigrationInv'
  BY <1>1, MigrationStep
<1> QED BY <1>2, MigrationInitially, PTL DEF MigrationSpec

\* The database and the running transaction keep the shape of the schema.
THEOREM MigrationTypeCorrect == MigrationSpec => []MigrationTypeOK
<1>1. MigrationInv => MigrationTypeOK
  BY DEF MigrationInv
<1> QED BY <1>1, MigrationInvariant, PTL

\* However upgrades, downgrades, crashes and requests interleave, what is
\* committed is the schema of one revision (alembic's single transaction).
THEOREM SchemaCorrect == MigrationSpec => []SchemaMatchesRevision
<1>1. MigrationInv => SchemaMatchesRevision
  BY DEF MigrationInv
<1> QED BY <1>1, MigrationInvariant, PTL

\* While owner_id is required, every row has an owner who exists (the backfill
\* of 4f3ac6a69f21 against rows and users written meanwhile).
THEOREM OwnersCorrect == MigrationSpec => []RowsOwned
<1>1. MigrationInv => RowsOwned
  BY DEF MigrationInv, DbOK, OwnersOK, OwnerOK, RowsOwned, Present
<1> QED BY <1>1, MigrationInvariant, PTL

\* No statement of a script is ever refused but the backfill that finds rows
\* and no user: no constraint fails, and a downgrade leaves nothing behind.
THEOREM FailuresCorrect == MigrationSpec => []OnlyMissingUserFails
<1>1. MigrationInv => OnlyMissingUserFails
  BY DEF MigrationInv
<1> QED BY <1>1, MigrationInvariant, PTL

LEMMA SameRows == UNCHANGED db => UpgradeStep
  BY DEF UpgradeStep

LEMMA CommittedColumns ==
    ASSUME MigrationInv, Commit, NEW t \in Table
    PROVE  tx.db.column[t] \in {"none", "references_users"}
<1>1. SchemaMatchesRevision' /\ db' = tx.db
  BY CommitKeeps DEF MigrationInv, Commit
<1> QED BY <1>1 DEF SchemaMatchesRevision

LEMMA CommittedRows ==
    ASSUME MigrationInv, Commit
    PROVE  UpgradeStep
<1>1. /\ tx \in Transaction /\ TxOK(db, tx) /\ tx.db \in Database
      /\ tx.db.revision = tx.goal /\ db' = tx.db /\ db \in Database /\ Running
  BY DEF MigrationInv, MigrationTypeOK, Commit, Running, Transaction
<1>2. /\ tx.db.revision \in 0 .. 3 /\ db.revision \in 0 .. 3
      /\ tx.up \in BOOLEAN /\ tx.step \in 1 .. 19
      /\ db.owner \in [Table -> [Row -> User \cup {NULL, ABSENT}]]
      /\ tx.db.owner \in [Table -> [Row -> User \cup {NULL, ABSENT}]]
  BY <1>1 DEF Transaction, Database
<1>3. SUFFICES ASSUME tx.db.revision >= db.revision, tx.db.owner # db.owner
               PROVE  \E u \in User : Heir(u) /\ HandedTo(u)
  BY <1>1, <1>2 DEF UpgradeStep
<1>4. tx.up
  BY <1>1, <1>2, <1>3 DEF TxOK, Progress
<1>5. tx.step = 1 /\ db.revision < tx.db.revision
  BY <1>1, <1>2, <1>4 DEF TxOK, Progress, Length
<1>6. ASSUME NEW t \in Table, NEW r \in Row,
             tx.db.owner[t][r] # db.owner[t][r]
      PROVE  /\ db.owner[t][r] = NULL /\ tx.db.owner[t][r] = tx.first
             /\ tx.first # NULL /\ tx.db.revision = 3
  BY <1>1, <1>2, <1>4, <1>5, <1>6 DEF TxOK, KeptOK, Given
<1>7. PICK t \in Table, r \in Row : tx.db.owner[t][r] # db.owner[t][r]
  BY <1>2, <1>3
<1>8. tx.first # NULL /\ tx.db.revision = 3
  BY <1>6, <1>7
<1>9. /\ tx.db.users \in SUBSET User /\ tx.first \in tx.db.users
      /\ \A v \in tx.before : tx.first <= v
  BY <1>1, <1>8 DEF TxOK, FirstOK, Database
<1>10. Heir(tx.first)
  BY <1>1, <1>5, <1>8, <1>9 DEF Heir
<1>11. HandedTo(tx.first)
  BY <1>1, <1>6 DEF HandedTo
<1> QED BY <1>9, <1>10, <1>11

LEMMA ServedRows ==
    ASSUME MigrationInv, Serve
    PROVE  UpgradeStep
<1>1. db \in Database
  BY DEF MigrationInv, MigrationTypeOK
<1>2. ASSUME NEW u \in User, Register(u)
      PROVE  UpgradeStep
  <2>1. db.users # NULL /\ db' = WithUser(db, u)
    BY <1>2 DEF Register
  <2>2. db'.owner = db.owner
    BY <1>1, <2>1, UserAdded
  <2> QED BY <2>2 DEF UpgradeStep
<1>3. ASSUME NEW t \in Table, NEW r \in Row, Delete(t, r)
      PROVE  UpgradeStep
  <2>1. db' = WithOwner(db, t, r, ABSENT)
    BY <1>3 DEF Delete, Write
  <2> QED BY <2>1 DEF UpgradeStep
<1>4. ASSUME NEW t \in Table, NEW r \in Row, NEW u \in User \cup {NULL},
             Insert(t, r, u)
      PROVE  UpgradeStep
  <2>1. db.owner[t][r] = ABSENT /\ db' = WithOwner(db, t, r, u)
    BY <1>4 DEF Insert, Write
  <2> QED BY <2>1 DEF UpgradeStep
<1> QED BY <1>2, <1>3, <1>4 DEF Serve

\* No upgrade takes a row from its owner: the rows without one all go to one
\* user, whom nobody precedes who was there when the run began, and outside a
\* committed upgrade nobody's row changes hands (4f3ac6a69f21's backfill).
THEOREM UpgradeCorrect == MigrationSpec => UpgradeKeepsRows
<1>1. MigrationInv /\ [MigrationNext]_migrationVars => [UpgradeStep]_migrationVars
  <2> SUFFICES ASSUME MigrationInv, MigrationNext
               PROVE  UpgradeStep
    OBVIOUS
  <2>1. CASE \E goal \in 0 .. 3 : Start(goal)
    BY <2>1, SameRows DEF Start
  <2>2. CASE Commit
    BY <2>2, CommittedRows
  <2>3. CASE Statement
    <3>1. Within
      BY <2>3, StatementWithin
    <3> QED BY <2>3, <3>1, StatementKeeps, SameRows DEF Kept, Refused
  <2>4. CASE Crash
    BY <2>4, SameRows DEF Crash, Rollback
  <2>5. CASE Serve
    BY <2>5, ServedRows
  <2> QED BY <2>1, <2>2, <2>3, <2>4, <2>5 DEF MigrationNext, Migrate, Statement
<1> QED BY <1>1, MigrationInvariant, PTL DEF MigrationSpec, UpgradeKeepsRows
-----------------------------------------------------------------------------
(* A run is one step of the committed database                              *)

\* On the way down a row keeps its owner until its table loses the column.
LoweredOwner(d, x, t, r) ==
    IF ~x.db.core \/ d.owner[t][r] = ABSENT THEN ABSENT
    ELSE IF x.db.column[t] = "none" THEN NULL ELSE d.owner[t][r]

RunOK(d, x) ==
    /\ ~x.up => \A t \in Table, r \in Row :
                    x.db.owner[t][r] = LoweredOwner(d, x, t, r)
    /\ d.users = NULL /\ x.db.users # NULL => x.db.users = {}

RunInv == MigrationInv /\ (Running => RunOK(db, tx))

LEMMA StartRuns ==
    ASSUME MigrationInv, NEW goal \in 0 .. 3, Start(goal)
    PROVE  RunOK(db, tx)'
<1>1. /\ db \in Database /\ OwnersOK(db) /\ goal # db.revision
      /\ db.core = (db.revision >= 1) /\ db.revision \in 0 .. 3
  BY DEF MigrationInv, MigrationTypeOK, SchemaMatchesRevision, DbOK, Database, Start
<1>2. db' = db /\ tx'.db = db /\ tx'.up = (goal > db.revision)
  BY DEF Start
<1>3. ~tx'.up => db.core
  <2>1. tx'.up <=> goal > db.revision
    BY <1>2
  <2>2. db.core <=> db.revision >= 1
    BY <1>1
  <2> QED BY <1>1, <2>1, <2>2
<1>4. \A t \in Table, r \in Row :
          db.column[t] = "none" => db.owner[t][r] \in {NULL, ABSENT}
  BY <1>1 DEF OwnersOK, OwnerOK
<1> QED BY <1>2, <1>3, <1>4 DEF RunOK, LoweredOwner

LEMMA StatementRuns ==
    ASSUME RunInv, Running, Kept
    PROVE  RunOK(db, tx)'
<1>1. RunOK(db, tx) /\ Runs(tx, tx') /\ OwnersOK(tx'.db) /\ db' = db
  BY DEF RunInv, Kept, TxOK
<1>2. db.users = NULL /\ tx'.db.users # NULL => tx'.db.users = {}
  BY <1>1 DEF RunOK, Runs
<1>3. ASSUME ~tx'.up, NEW t \in Table, NEW r \in Row
      PROVE  tx'.db.owner[t][r] = LoweredOwner(db, tx', t, r)
  <2>1. /\ tx.db.owner[t][r] = LoweredOwner(db, tx, t, r)
        /\ Lowers(tx, tx')
    BY <1>1, <1>3 DEF RunOK, Runs
  <2>2. tx'.db.column[t] = "none" => tx'.db.owner[t][r] \in {NULL, ABSENT}
    BY <1>1 DEF OwnersOK, OwnerOK
  <2>3. CASE ~tx'.db.core
    BY <2>1, <2>3 DEF Lowers, LoweredOwner
  <2>4. CASE tx'.db.core
    BY <2>1, <2>2, <2>4, MarkerAssumption DEF Lowers, LoweredOwner
  <2> QED BY <2>3, <2>4
<1> QED BY <1>1, <1>2, <1>3 DEF RunOK

LEMMA RegisterRuns ==
    ASSUME RunInv, Running, NEW u \in User, Register(u)
    PROVE  RunOK(db, tx)'
<1>1. /\ db \in Database /\ db.users # NULL /\ db' = WithUser(db, u)
      /\ tx \in Transaction /\ tx.db \in Database /\ RunOK(db, tx)
      /\ tx' = [tx EXCEPT !.db = WithUser(@, u)]
      /\ SchemaMatchesRevision /\ TxOK(db, tx)
  BY DEF RunInv, MigrationInv, MigrationTypeOK, Running, Register, Transaction
<1>2. tx.db.users # NULL
  BY <1>1 DEF Register, UsersLocked
<1>3. PICK e : e = WithUser(tx.db, u) /\ tx' = [tx EXCEPT !.db = e]
  BY <1>1
<1>4. e.core = tx.db.core /\ e.column = tx.db.column /\ e.owner = tx.db.owner
  BY <1>1, <1>2, <1>3, UserAdded
<1>5. db'.owner = db.owner /\ db'.users # NULL
  BY <1>1, UserAdded
<1>6. tx'.db = e /\ tx'.up = tx.up
  BY <1>1, <1>3 DEF Transaction
<1> QED BY <1>1, <1>4, <1>5, <1>6 DEF RunOK, LoweredOwner

LEMMA WriteRuns ==
    ASSUME RunInv, Running, NEW t \in Table, NEW r \in Row,
           NEW x \in User \cup {NULL, ABSENT}, Write(t, r, x), Writable(t, x)
    PROVE  RunOK(db, tx)'
<1>1. /\ db \in Database /\ db' = WithOwner(db, t, r, x)
      /\ tx \in Transaction /\ tx.db \in Database /\ RunOK(db, tx)
      /\ tx.db.core = db.core /\ db.core /\ tx.db.column[t] = db.column[t]
  BY DEF RunInv, MigrationInv, MigrationTypeOK, Running, Write, Locked, Transaction
<1>2. PICK e : e = WithOwner(tx.db, t, r, x) /\ tx' = [tx EXCEPT !.db = e]
  BY DEF Write
<1>3. /\ db'.users = db.users /\ db'.owner[t][r] = x
      /\ \A s \in Table, q \in Row :
             s # t \/ q # r => db'.owner[s][q] = db.owner[s][q]
  BY <1>1, OwnerSet
<1>4. /\ e.core = tx.db.core /\ e.column = tx.db.column /\ e.users = tx.db.users
      /\ e.owner[t][r] = x
      /\ \A s \in Table, q \in Row :
             s # t \/ q # r => e.owner[s][q] = tx.db.owner[s][q]
  <2>1. tx.db \in Database /\ e = WithOwner(tx.db, t, r, x)
    BY <1>1, <1>2
  <2> QED BY <2>1, OwnerSet
<1>5. tx'.db = e /\ tx'.up = tx.up
  BY <1>1, <1>2 DEF Transaction
<1>6. db.column[t] = "none" => x \in {NULL, ABSENT}
  BY DEF Writable, OwnerOK
<1>7. ASSUME ~tx'.up, NEW s \in Table, NEW q \in Row
      PROVE  e.owner[s][q] = LoweredOwner(db', tx', s, q)
  <2>1. tx.db.owner[s][q] = LoweredOwner(db, tx, s, q)
    BY <1>1, <1>5, <1>7 DEF RunOK
  <2>2. CASE s = t /\ q = r
    BY <1>1, <1>3, <1>4, <1>5, <1>6, <2>2 DEF LoweredOwner
  <2>3. CASE s # t \/ q # r
    BY <1>3, <1>4, <1>5, <2>1, <2>3 DEF LoweredOwner
  <2> QED BY <2>2, <2>3
<1> QED BY <1>1, <1>3, <1>4, <1>5, <1>7 DEF RunOK

LEMMA RunInvariant == MigrationSpec => []RunInv
<1>1. MigrationInit => RunInv
  BY MigrationInitially DEF RunInv, MigrationInit, Running
<1>2. RunInv /\ UNCHANGED migrationVars => RunInv'
  <2> SUFFICES ASSUME RunInv, UNCHANGED migrationVars
               PROVE  RunInv'
    OBVIOUS
  <2>1. db' = db /\ tx' = tx /\ outcome' = outcome
    BY DEF migrationVars
  <2>2. MigrationInv'
    BY <2>1 DEF RunInv, MigrationInv, MigrationTypeOK, SchemaMatchesRevision,
                DbOK, OnlyMissingUserFails, Running
  <2> QED BY <2>1, <2>2 DEF RunInv, Running
<1>3. RunInv /\ MigrationNext => RunInv'
  <2> SUFFICES ASSUME RunInv, MigrationNext
               PROVE  Running' => RunOK(db, tx)'
    BY MigrationStep DEF RunInv
  <2> USE DEF RunInv
  <2>1. ASSUME NEW goal \in 0 .. 3, Start(goal)
        PROVE  RunOK(db, tx)'
    BY <2>1, StartRuns
  <2>2. CASE Commit \/ Crash
    BY <2>2 DEF Commit, Crash, Rollback, Running
  <2>3. CASE Statement
    <3>1. Within
      BY <2>3, StatementWithin
    <3>2. Kept \/ Refused
      BY <2>3, <3>1, StatementKeeps
    <3> QED BY <3>1, <3>2, StatementRuns DEF Refused, Running, Within
  <2>4. ASSUME NEW u \in User, Register(u)
        PROVE  Running' => RunOK(db, tx)'
    BY <2>4, RegisterRuns DEF Register, Running
  <2>5. ASSUME NEW t \in Table, NEW r \in Row, Delete(t, r)
        PROVE  Running' => RunOK(db, tx)'
    BY <2>5, DeleteWritable, WriteRuns DEF Delete, Write, Running
  <2>6. ASSUME NEW t \in Table, NEW r \in Row, NEW u \in User \cup {NULL},
               Insert(t, r, u)
        PROVE  Running' => RunOK(db, tx)'
    BY <2>6, InsertWritable, WriteRuns DEF Insert, Write, Running
  <2> QED BY <2>1, <2>2, <2>3, <2>4, <2>5, <2>6
          DEF MigrationNext, Migrate, Serve
<1> QED BY <1>1, <1>2, <1>3, PTL DEF MigrationSpec

\* What is known when the last script is done.
LEMMA Done ==
    ASSUME RunInv, Commit
    PROVE  /\ db \in Database /\ tx.db \in Database /\ db' = tx.db
           /\ tx.up \in BOOLEAN /\ tx.first \in User \cup {NULL}
           /\ db.revision \in 0 .. 3 /\ tx.db.revision \in 0 .. 3
           /\ IF tx.up THEN db.revision < tx.db.revision
                       ELSE tx.db.revision < db.revision
           /\ tx.db.core <=> tx.db.revision >= 1
           /\ tx.db.users # NULL <=> tx.db.revision >= 2
           /\ db.users # NULL <=> db.revision >= 2
           /\ \A t \in Table : /\ tx.db.column[t] = "none" <=> tx.db.revision # 3
                               /\ db.column[t] = "none" <=> db.revision # 3
           /\ OwnersOK(db) /\ OwnersOK(tx.db)
           /\ SameUsers(db, tx) /\ FirstOK(tx) /\ RunOK(db, tx)
           /\ tx.up => \A t \in Table, r \in Row :
                 \/ tx.db.owner[t][r] = db.owner[t][r]
                 \/ /\ db.owner[t][r] = NULL /\ tx.db.owner[t][r] = tx.first
                    /\ tx.first # NULL /\ tx.db.revision = 3
<1>1. /\ tx \in Transaction /\ TxOK(db, tx) /\ tx.db \in Database
      /\ tx.db.revision = tx.goal /\ db' = tx.db /\ db \in Database
      /\ OwnersOK(db) /\ RunOK(db, tx) /\ SchemaMatchesRevision
  BY DEF RunInv, MigrationInv, MigrationTypeOK, DbOK, Commit, Running, Transaction
<1>2. /\ tx.db.revision \in 0 .. 3 /\ db.revision \in 0 .. 3
      /\ tx.step \in 1 .. 19 /\ tx.up \in BOOLEAN
      /\ tx.first \in User \cup {NULL}
  BY <1>1 DEF Transaction, Database
<1>3. tx.step = 1
  BY <1>1, <1>2 DEF TxOK, Progress, Length
<1>4. IF tx.up THEN db.revision < tx.db.revision ELSE tx.db.revision < db.revision
  BY <1>1, <1>2 DEF TxOK, Progress
<1>5. \A t \in Table : tx.db.column[t] =
          IF tx.db.revision = 3 THEN "references_users" ELSE "none"
  BY <1>1, <1>2, <1>3 DEF TxOK, SchemaAt, ColumnAt, Raising, Lowering,
                          RaisedColumn, LoweredColumn, Index
<1>6. /\ tx.db.core <=> tx.db.revision >= 1
      /\ tx.db.users # NULL <=> tx.db.revision >= 2
  BY <1>1, <1>3 DEF TxOK, SchemaAt
<1>7. /\ db.users # NULL <=> db.revision >= 2
      /\ \A t \in Table : db.column[t] = "none" <=> db.revision # 3
  BY <1>1 DEF SchemaMatchesRevision
<1>8. ASSUME tx.up, NEW t \in Table, NEW r \in Row
      PROVE  \/ tx.db.owner[t][r] = db.owner[t][r]
             \/ /\ db.owner[t][r] = NULL /\ tx.db.owner[t][r] = tx.first
                /\ tx.first # NULL /\ tx.db.revision = 3
  BY <1>1, <1>3, <1>8 DEF TxOK, KeptOK, Given
<1>9. OwnersOK(tx.db) /\ SameUsers(db, tx) /\ FirstOK(tx)
  BY <1>1 DEF TxOK
<1> QED BY <1>1, <1>2, <1>4, <1>5, <1>6, <1>7, <1>8, <1>9

LEMMA CommitDowngrades ==
    ASSUME RunInv, Commit, ~tx.up
    PROVE  Committed!Downgrade(tx.db.revision)
<1>1. /\ db \in Database /\ tx.db \in Database /\ db' = tx.db
      /\ db.revision \in 0 .. 3 /\ tx.db.revision \in 0 .. 3
      /\ tx.db.revision < db.revision
  BY Done
<1>2. tx.db.users = IF tx.db.revision >= 2 THEN db.users ELSE NULL
  BY <1>1, Done DEF SameUsers
<1>3. ASSUME NEW t \in Table, NEW r \in Row
      PROVE  tx.db.owner[t][r] =
                 IF tx.db.revision = 0 \/ db.owner[t][r] = ABSENT THEN ABSENT
                 ELSE NULL
  <2>1. tx.db.owner[t][r] = LoweredOwner(db, tx, t, r)
    BY Done DEF RunOK
  <2>2. tx.db.column[t] = "none"
    BY <1>1, Done
  <2>3. tx.db.core <=> tx.db.revision # 0
    BY <1>1, Done
  <2> QED BY <2>1, <2>2, <2>3 DEF LoweredOwner
<1>4. tx.db.owner = [t \in Table |-> [r \in Row |->
                        IF tx.db.revision = 0 \/ db.owner[t][r] = ABSENT
                        THEN ABSENT ELSE NULL]]
  <2>1. tx.db.owner \in [Table -> [Row -> User \cup {NULL, ABSENT}]]
    BY <1>1 DEF Database
  <2> QED BY <1>3, <2>1
<1> QED BY <1>1, <1>2, <1>4 DEF Committed!Downgrade

LEMMA CommitUpgrades ==
    ASSUME RunInv, Commit, tx.up
    PROVE  Committed!Upgrade(tx.db.revision)
<1>1. /\ db \in Database /\ tx.db \in Database /\ db' = tx.db
      /\ db.revision \in 0 .. 3 /\ tx.db.revision \in 0 .. 3
      /\ db.revision < tx.db.revision
  BY Done
<1>2. tx.db.users = IF tx.db.revision >= 2 /\ db.revision < 2 THEN {} ELSE db.users
  <2>1. /\ tx.db.users # NULL <=> tx.db.revision >= 2
        /\ db.users # NULL <=> db.revision >= 2
        /\ db.users # NULL /\ tx.db.users # NULL => db.users = tx.db.users
        /\ db.users = NULL /\ tx.db.users # NULL => tx.db.users = {}
    BY Done DEF SameUsers, RunOK
  <2> QED BY <1>1, <2>1
<1>3. ASSUME NEW t \in Table, NEW r \in Row
      PROVE  \/ tx.db.owner[t][r] = db.owner[t][r]
             \/ /\ db.owner[t][r] = NULL /\ tx.db.owner[t][r] = tx.first
                /\ tx.first # NULL /\ tx.db.revision = 3
  BY Done
<1>4. /\ db.owner \in [Table -> [Row -> User \cup {NULL, ABSENT}]]
      /\ tx.db.owner \in [Table -> [Row -> User \cup {NULL, ABSENT}]]
  BY <1>1 DEF Database
<1>5. CASE tx.db.revision = 3 /\ Committed!Ownerless
  <2>1. ASSUME NEW t \in Table, NEW r \in Row, db.owner[t][r] = NULL
        PROVE  tx.db.owner[t][r] = tx.first /\ tx.first # NULL
    <3>1. OwnerOK(tx.db.column[t], tx.db.owner[t][r], tx.db.users)
      BY Done DEF OwnersOK
    <3>2. tx.db.column[t] = "references_users"
      BY <1>5, Done, CommittedColumns DEF RunInv
    <3>3. tx.db.users \in SUBSET User
      BY <1>1, <1>5, Done DEF Database
    <3>4. tx.db.owner[t][r] # NULL
      BY <3>1, <3>2, <3>3, MarkerAssumption DEF OwnerOK
    <3> QED BY <1>3, <2>1, <3>4
  <2>2. tx.first \in tx.db.users
    <3>1. PICK t \in Table, r \in Row : db.owner[t][r] = NULL
      BY <1>5 DEF Committed!Ownerless
    <3>2. tx.first # NULL
      BY <2>1, <3>1
    <3> QED BY <3>2, Done DEF FirstOK
  <2>3. ASSUME NEW t \in Table, NEW r \in Row
        PROVE  tx.db.owner[t][r] = IF db.owner[t][r] = NULL THEN tx.first
                                   ELSE db.owner[t][r]
    BY <1>3, <2>1
  <2>4. tx.db.owner = Committed!Inherited(tx.first)
    BY <1>4, <2>3 DEF Committed!Inherited
  <2> QED BY <1>1, <1>2, <1>5, <2>2, <2>4 DEF Committed!Upgrade
<1>6. CASE ~(tx.db.revision = 3 /\ Committed!Ownerless)
  <2>1. ASSUME NEW t \in Table, NEW r \in Row
        PROVE  tx.db.owner[t][r] = db.owner[t][r]
    BY <1>3, <1>6 DEF Committed!Ownerless
  <2>2. tx.db.owner = db.owner
    BY <1>4, <2>1
  <2> QED BY <1>1, <1>2, <1>6, <2>2 DEF Committed!Upgrade
<1> QED BY <1>5, <1>6

LEMMA Served ==
    ASSUME MigrationInv, Serve
    PROVE  Committed!RevisionNext
<1>1. /\ db \in Database /\ SchemaMatchesRevision
      /\ db.owner \in [Table -> [Row -> User \cup {NULL, ABSENT}]]
      /\ db.revision \in 0 .. 3
  BY DEF MigrationInv, MigrationTypeOK, Database
<1>2. ASSUME NEW u \in User, Register(u)
      PROVE  Committed!Register(u)
  <2>1. db.users # NULL /\ db' = WithUser(db, u)
    BY <1>2 DEF Register
  <2>2. /\ db'.revision = db.revision /\ db'.owner = db.owner
        /\ db'.users = db.users \cup {u}
    BY <1>1, <2>1, UserAdded
  <2>3. db.revision >= 2
    BY <1>1, <2>1 DEF SchemaMatchesRevision
  <2> QED BY <1>2, <2>2, <2>3 DEF Register, Committed!Register
<1>3. ASSUME NEW t \in Table, NEW r \in Row, NEW x, Write(t, r, x)
      PROVE  /\ db'.revision = db.revision /\ db'.users = db.users
             /\ db'.owner = [db.owner EXCEPT ![t][r] = x]
             /\ db.revision >= 1
  <2>1. db' = [db EXCEPT !.owner[t][r] = x] /\ db.core
    BY <1>3 DEF Write, WithOwner
  <2>2. db.revision >= 1
    BY <1>1, <2>1 DEF SchemaMatchesRevision
  <2> QED BY <1>1, <2>1, <2>2 DEF Database
<1>4. ASSUME NEW t \in Table, NEW r \in Row, Delete(t, r)
      PROVE  Committed!Delete(t, r)
  BY <1>3, <1>4 DEF Delete, Committed!Delete
<1>5. ASSUME NEW t \in Table, NEW r \in Row, NEW u \in User \cup {NULL},
             Insert(t, r, u)
      PROVE  Committed!Insert(t, r)
  <2>1. db.column[t] = "none" <=> db.revision # 3
    BY <1>1 DEF SchemaMatchesRevision
  <2>2. u \in IF db.revision = 3 THEN db.users ELSE {NULL}
    BY <1>5, <2>1 DEF Insert
  <2>3. Write(t, r, u) /\ db.owner[t][r] = ABSENT
    BY <1>5 DEF Insert
  <2> QED BY <1>3, <2>2, <2>3 DEF Committed!Insert
<1> QED BY <1>2, <1>4, <1>5 DEF Serve, Committed!RevisionNext

LEMMA RunStep ==
    ASSUME RunInv, [MigrationNext]_migrationVars
    PROVE  [Committed!RevisionNext]_(Committed!committed)
<1> SUFFICES ASSUME db' # db
             PROVE  Committed!RevisionNext
  BY DEF Committed!committed
<1>1. MigrationNext
  BY DEF migrationVars
<1>2. CASE \E goal \in 0 .. 3 : Start(goal)
  BY <1>2 DEF Start
<1>3. CASE Commit
  <2>1. tx.db.revision \in 0 .. 3 /\ tx.up \in BOOLEAN
    BY <1>3, Done
  <2> QED BY <1>3, <2>1, CommitUpgrades, CommitDowngrades
          DEF Committed!RevisionNext
<1>4. CASE Statement
  BY <1>4, StatementWithin, StatementKeeps DEF RunInv, Kept, Refused
<1>5. CASE Crash
  BY <1>5 DEF Crash, Rollback
<1>6. CASE Serve
  BY <1>6, Served DEF RunInv
<1> QED BY <1>1, <1>2, <1>3, <1>4, <1>5, <1>6 DEF MigrationNext, Migrate

\* A run of alembic, of any number of scripts and with the application serving
\* between its statements, changes what is committed in one step or not at all
\* (env.py's single transaction): Migrations implements Revisions.
THEOREM AtomicRunsCorrect == MigrationSpec => AtomicRuns
<1>1. MigrationInit => Committed!RevisionInit
  BY DEF MigrationInit, Committed!RevisionInit, Empty, NoRows
<1> QED BY <1>1, RunInvariant, RunStep, PTL
        DEF MigrationSpec, AtomicRuns, Committed!RevisionSpec
=============================================================================
