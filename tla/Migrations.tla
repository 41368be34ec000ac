----------------------------- MODULE Migrations -----------------------------
(***************************************************************************)
(* alembic upgrade and downgrade (migrations/env.py) over the three        *)
(* revisions, while the application may be serving: one transaction runs   *)
(* every script between the current revision and the goal, statement by    *)
(* statement, and commits at the end.                                      *)
(***************************************************************************)
EXTENDS Integers, Sequences, FiniteSets

CONSTANTS
    User,       \* user ids: handed out in order, committed in any
    Row,        \* row ids of each table
    NULL,       \* a row that has no owner; no user; no migration running
    ABSENT      \* a row id that has no row

Table == {"drivers", "vehicles", "shipments"}

ASSUME UserAssumption == User \subseteq Nat /\ IsFiniteSet(User)
ASSUME RowAssumption == IsFiniteSet(Row)
ASSUME MarkerAssumption ==
    /\ NULL # ABSENT /\ NULL \notin User /\ ABSENT \notin User
    /\ \A users \in SUBSET User : NULL # users

VARIABLES
    db,         \* what is committed
    tx,         \* the transaction of the running alembic, or NULL (history:
                \* before, who had an account when it began)
    outcome     \* how the last one ended

migrationVars == <<db, tx, outcome>>

\* The state of owner_id in a table.
Column == {"none", "nullable", "required", "references_users"}

Database ==
    [revision: 0 .. 3,          \* how many scripts of the chain are applied
     core: BOOLEAN,             \* the core tables are there
     types: BOOLEAN,            \* the enum types are there
     users: (SUBSET User) \cup {NULL},          \* NULL: no such table
     column: [Table -> Column],
     owner: [Table -> [Row -> User \cup {NULL, ABSENT}]]]

NoRows == [t \in Table |-> [r \in Row |-> ABSENT]]

Empty == [revision |-> 0, core |-> FALSE, types |-> FALSE, users |-> NULL,
          column |-> [t \in Table |-> "none"], owner |-> NoRows]

Present(d, t) == {r \in Row : d.owner[t][r] # ABSENT}
Earliest(users) == CHOOSE u \in users : \A v \in users : u <= v
-----------------------------------------------------------------------------
(* The scripts                                                              *)

Create == << <<"create_core", "all">> >>
CreateUsersTable == << <<"create_users", "users">> >>

\* Mutant: the shipments are forgotten, and nothing verifies.
mutant_AddOwnerId == <<
    <<"add_column", "drivers">>, <<"add_column", "vehicles">>,
    <<"add_column", "shipments">>, <<"first_user", "users">>,
    <<"count", "drivers">>, <<"count", "vehicles">>, <<"count", "shipments">>,
    <<"backfill", "drivers">>, <<"backfill", "vehicles">>,
    <<"add_constraint", "drivers">>, <<"add_constraint", "vehicles">>,
    <<"add_constraint", "shipments">> >>

AddOwnerId == <<
    <<"add_column", "drivers">>, <<"add_column", "vehicles">>,
    <<"add_column", "shipments">>, <<"first_user", "users">>,
    <<"count", "drivers">>, <<"count", "vehicles">>, <<"count", "shipments">>,
    <<"backfill", "drivers">>, <<"backfill", "vehicles">>,
    <<"backfill", "shipments">>, <<"verify", "drivers">>,
    <<"verify", "vehicles">>, <<"verify", "shipments">>,
    <<"set_not_null", "drivers">>, <<"set_not_null", "vehicles">>,
    <<"set_not_null", "shipments">>, <<"add_constraint", "drivers">>,
    <<"add_constraint", "vehicles">>, <<"add_constraint", "shipments">> >>

UpgradeScript == <<Create, CreateUsersTable, AddOwnerId>>

\* Mutant: the enum types are left behind.
mutant_DropAll == << <<"drop_core", "all">> >>

DropAll == << <<"drop_core", "all">>, <<"drop_types", "all">> >>
DropUsersTable == << <<"drop_users", "users">> >>
\* Mutant: the vehicles keep their column.
mutant_DropOwnerId == <<
    <<"drop_constraint", "shipments">>, <<"drop_column", "shipments">>,
    <<"drop_constraint", "vehicles">>,
    <<"drop_constraint", "drivers">>, <<"drop_column", "drivers">> >>

DropOwnerId == <<
    <<"drop_constraint", "shipments">>, <<"drop_column", "shipments">>,
    <<"drop_constraint", "vehicles">>, <<"drop_column", "vehicles">>,
    <<"drop_constraint", "drivers">>, <<"drop_column", "drivers">> >>

DowngradeScript == <<DropAll, DropUsersTable, DropOwnerId>>
-----------------------------------------------------------------------------
(* env.py                                                                   *)

Running == tx # NULL

Start(goal) ==
    /\ ~Running /\ goal # db.revision
    /\ tx' = [db |-> db, goal |-> goal, up |-> goal > db.revision,
              step |-> 1, first |-> NULL, existing |-> 0,
              before |-> IF db.users = NULL THEN {} ELSE db.users]
    /\ UNCHANGED <<db, outcome>>

Commit ==
    /\ Running /\ tx.db.revision = tx.goal
    /\ db' = tx.db
    /\ tx' = NULL
    /\ outcome' = "done"

\* Any exception, a lost connection or a killed process.
Rollback(why) == tx' = NULL /\ outcome' = why /\ UNCHANGED db

Crash == Running /\ Rollback("crashed")
-----------------------------------------------------------------------------
(* The statements.  After the last one of a script alembic moves the        *)
(* version number, in the same transaction.                                 *)

\* The script that is running, and the statement that is next.
Script ==
    IF tx.up THEN UpgradeScript[tx.db.revision + 1]
             ELSE DowngradeScript[tx.db.revision]
At(op) == Running /\ tx.db.revision # tx.goal /\ Script[tx.step][1] = op
Target == Script[tx.step][2]
LastOfScript == tx.step = Len(Script)

\* Mutant: a downgrade counts up as well.
mutant_Stamped(d) ==
    IF LastOfScript THEN [d EXCEPT !.revision = @ + 1] ELSE d

Stamped(d) ==
    IF LastOfScript
    THEN [d EXCEPT !.revision = IF tx.up THEN @ + 1 ELSE @ - 1]
    ELSE d

NextStep == IF LastOfScript THEN 1 ELSE tx.step + 1

\* Mutant: no transaction around the scripts, each statement commits.
mutant_Continue(d) ==
    /\ tx' = [tx EXCEPT !.db = Stamped(d), !.step = NextStep]
    /\ db' = Stamped(d)
    /\ UNCHANGED outcome

Continue(d) ==
    /\ tx' = [tx EXCEPT !.db = Stamped(d), !.step = NextStep]
    /\ UNCHANGED <<db, outcome>>

\* CREATE TABLE creates the enum types of its columns, without checking.
CreateCore ==
    /\ At("create_core")
    /\ \/ ~tx.db.types /\ Continue([tx.db EXCEPT !.core = TRUE, !.types = TRUE])
       \/ tx.db.types /\ Rollback("type_exists")

CreateUsers ==
    /\ At("create_users")
    /\ \/ tx.db.users = NULL /\ Continue([tx.db EXCEPT !.users = {}])
       \/ tx.db.users # NULL /\ Rollback("table_exists")

AddColumn == At("add_column") /\ Continue([tx.db EXCEPT !.column[Target] = "nullable"])

\* Mutant: the latest user.
mutant_FirstUser ==
    /\ At("first_user")
    /\ tx' = [tx EXCEPT !.step = NextStep,
                !.first = IF tx.db.users = {} THEN NULL
                          ELSE CHOOSE u \in tx.db.users :
                                   \A v \in tx.db.users : v <= u]
    /\ UNCHANGED <<db, outcome>>

FirstUser ==
    /\ At("first_user")
    /\ tx' = [tx EXCEPT !.step = NextStep,
                !.first = IF tx.db.users = {} THEN NULL
                          ELSE Earliest(tx.db.users)]
    /\ UNCHANGED <<db, outcome>>

CountRows ==
    /\ At("count")
    /\ tx' = [tx EXCEPT !.step = NextStep,
                !.existing = @ + Cardinality(Present(tx.db, Target))]
    /\ UNCHANGED <<db, outcome>>

BackfilledOwner(x) == IF x = NULL THEN tx.first ELSE x

Backfill ==
    /\ At("backfill")
    /\ \/ tx.existing = 0 /\ Continue(tx.db)
       \/ tx.existing > 0 /\ tx.first = NULL /\ Rollback("no_user")
       \/ /\ tx.existing > 0 /\ tx.first # NULL
          /\ Continue([tx.db EXCEPT !.owner[Target] =
                          [r \in Row |-> BackfilledOwner(@[r])]])

Ownerless == \E r \in Row : tx.db.owner[Target][r] = NULL

Verify ==
    /\ At("verify")
    /\ IF Ownerless THEN Rollback("null_owner") ELSE Continue(tx.db)

SetNotNull ==
    /\ At("set_not_null")
    /\ \/ Ownerless /\ Rollback("null_owner")
       \/ ~Ownerless /\ Continue([tx.db EXCEPT !.column[Target] = "required"])

\* A foreign key needs its table, and is checked against the rows that are there.
Dangling ==
    \/ tx.db.users = NULL
    \/ \E r \in Row : tx.db.owner[Target][r] \notin tx.db.users \cup {NULL, ABSENT}

AddConstraint ==
    /\ At("add_constraint")
    /\ \/ Dangling /\ Rollback("no_such_user")
       \/ ~Dangling /\ Continue([tx.db EXCEPT !.column[Target] = "references_users"])

DropConstraint ==
    /\ At("drop_constraint")
    /\ \/ /\ tx.db.column[Target] = "references_users"
          /\ Continue([tx.db EXCEPT !.column[Target] = "required"])
       \/ /\ tx.db.column[Target] # "references_users"
          /\ Rollback("no_constraint")

DropColumn ==
    /\ At("drop_column")
    /\ Continue([tx.db EXCEPT !.column[Target] = "none",
                    !.owner[Target] = [r \in Row |->
                        IF @[r] = ABSENT THEN ABSENT ELSE NULL]])

\* DROP TABLE users is refused while a foreign key names it.
DropUsers ==
    /\ At("drop_users")
    /\ \/ /\ \A t \in Table : tx.db.column[t] # "references_users"
          /\ Continue([tx.db EXCEPT !.users = NULL])
       \/ /\ \E t \in Table : tx.db.column[t] = "references_users"
          /\ Rollback("still_referenced")

DropCore ==
    /\ At("drop_core")
    /\ Continue([tx.db EXCEPT !.core = FALSE, !.owner = NoRows])

DropTypes == At("drop_types") /\ Continue([tx.db EXCEPT !.types = FALSE])

Statement ==
    \/ CreateCore \/ CreateUsers
    \/ AddColumn \/ FirstUser \/ CountRows \/ Backfill \/ Verify
    \/ SetNotNull \/ AddConstraint
    \/ DropConstraint \/ DropColumn \/ DropUsers \/ DropCore \/ DropTypes

Migrate == Statement \/ Commit
-----------------------------------------------------------------------------
(* The application, meanwhile.  A table that the transaction has altered is *)
(* locked until it ends; what is committed to the others, it sees.          *)

Locked(t) ==
    Running /\ (tx.db.core # db.core \/ tx.db.column[t] # db.column[t])

UsersLocked ==
    Running /\ \/ (tx.db.users = NULL) # (db.users = NULL)
               \/ \E t \in Table : (tx.db.column[t] = "references_users")
                                       # (db.column[t] = "references_users")

WithUser(d, u) == [d EXCEPT !.users = @ \cup {u}]
WithOwner(d, t, r, x) == [d EXCEPT !.owner[t][r] = x]

\* The INSERT takes the id, the COMMIT is a round trip later: an account may be
\* committed after one with a higher id.
Register(u) ==
    /\ db.users # NULL /\ ~UsersLocked /\ u \notin db.users
    /\ db' = WithUser(db, u)
    /\ tx' = IF Running THEN [tx EXCEPT !.db = WithUser(@, u)] ELSE NULL
    /\ UNCHANGED outcome

Write(t, r, x) ==
    /\ db.core /\ ~Locked(t)
    /\ db' = WithOwner(db, t, r, x)
    /\ tx' = IF Running THEN [tx EXCEPT !.db = WithOwner(@, t, r, x)] ELSE NULL
    /\ UNCHANGED outcome

\* Before the last revision a row has no owner (an earlier release wrote it);
\* since then, the user who creates it.
Insert(t, r, u) ==
    /\ db.owner[t][r] = ABSENT
    /\ \/ db.column[t] = "none" /\ u = NULL
       \/ /\ db.column[t] # "none" /\ db.users # NULL /\ ~UsersLocked
          /\ u \in db.users
    /\ Write(t, r, u)

Delete(t, r) == db.owner[t][r] # ABSENT /\ Write(t, r, ABSENT)

Serve ==
    \/ \E u \in User : Register(u)
    \/ \E t \in Table, r \in Row :
          Delete(t, r) \/ \E u \in User \cup {NULL} : Insert(t, r, u)
-----------------------------------------------------------------------------
MigrationInit == db = Empty /\ tx = NULL /\ outcome = "none"

MigrationNext ==
    (\E goal \in 0 .. 3 : Start(goal)) \/ Migrate \/ Crash \/ Serve

MigrationSpec == MigrationInit /\ [][MigrationNext]_migrationVars
-----------------------------------------------------------------------------
(* Properties                                                               *)

Transaction ==
    [db: Database, goal: 0 .. 3, up: BOOLEAN,
     step: 1 .. 19, first: User \cup {NULL}, existing: Nat,
     before: SUBSET User]

Failure == {"crashed", "type_exists", "table_exists", "no_user", "null_owner",
            "no_such_user", "no_constraint", "still_referenced"}

\* The database and the transaction have the shape of the schema.
MigrationTypeOK ==
    /\ db \in Database
    /\ tx \in Transaction \cup {NULL}
    /\ outcome \in Failure \cup {"none", "done"}

\* Wherever a run stops, crashes or refuses, the committed schema is exactly
\* the one of the revision that alembic_version names: never half a migration.
SchemaMatchesRevision ==
    /\ db.core = (db.revision >= 1)
    /\ db.types = db.core
    /\ (db.users # NULL) = (db.revision >= 2)
    /\ \A t \in Table : db.column[t] =
           IF db.revision = 3 THEN "references_users" ELSE "none"

\* Once owner_id is required, every driver, vehicle and shipment has an owner
\* who exists, also the rows written while the migration was running.
RowsOwned ==
    \A t \in Table : db.column[t] = "references_users" =>
        \A r \in Present(db, t) : db.owner[t][r] \in db.users

\* A run fails only for want of a user to own the rows (or when it is killed):
\* in particular any downgrade can be followed by an upgrade.
OnlyMissingUserFails == outcome \in {"none", "done", "crashed", "no_user"}

\* An upgrade loses no row and takes none from its owner.  The rows that had no
\* owner all go to one user, who is there when the run commits, and whom nobody
\* precedes who was there when it began, however many register meanwhile (one
\* with a lower id may).  Outside the runs, and in every failed one, nobody's row
\* changes hands.
Heir(u) ==
    /\ Running /\ db.revision < 3 /\ db'.revision = 3
    /\ u \in db'.users /\ \A v \in tx.before : u <= v

HandedTo(u) ==
    \A t \in Table, r \in Row :
        LET old == db.owner[t][r]
            new == db'.owner[t][r]
        IN new # old => old = NULL /\ new = u

UpgradeStep ==
    \/ db'.revision < db.revision
    \/ db'.owner = db.owner
    \/ \E t \in Table, r \in Row, x \in User \cup {NULL, ABSENT} :
          /\ db.owner[t][r] = ABSENT \/ x = ABSENT
          /\ db' = WithOwner(db, t, r, x)
    \/ \E u \in User : Heir(u) /\ HandedTo(u)
UpgradeKeepsRows == [][UpgradeStep]_migrationVars

\* The committed database moves as if a run were one step: all scripts at once,
\* on the rows and the users there are when it commits, whatever the application
\* wrote between two statements; a run that fails or is killed never was.
Committed == INSTANCE Revisions WITH
    revision <- db.revision, users <- db.users, owner <- db.owner
AtomicRuns == Committed!RevisionSpec

\* migrations/versions/4f3ac6a69f21...:108: "Create at least one user with POST
\* /auth/register and then run 'alembic upgrade head' again".  An upgrade from
\* the first revision takes the users table back with it when it fails.
AdviceCanBeFollowed == outcome = "no_user" => db.users # NULL
=============================================================================
