----------------------------- MODULE Revisions -----------------------------
(***************************************************************************)
(* What `alembic upgrade` and `alembic downgrade` promise, without scripts *)
(* and transactions: a run takes the committed database from one revision  *)
(* to another at once, as the database is at that moment, or does nothing. *)
(***************************************************************************)
EXTENDS Integers

CONSTANTS User, Row, Table, NULL, ABSENT

VARIABLES
    revision,   \* how many revisions are applied
    users,      \* who has an account, or NULL
    owner       \* who owns a row of a table, NULL, or ABSENT

committed == <<revision, users, owner>>

Ownerless == \E t \in Table, r \in Row : owner[t][r] = NULL

Inherited(heir) ==
    [t \in Table |-> [r \in Row |->
        IF owner[t][r] = NULL THEN heir ELSE owner[t][r]]]
-----------------------------------------------------------------------------
\* The last revision gives all that nobody owns to one user; without one it is
\* refused.
Upgrade(goal) ==
    /\ revision < goal
    /\ revision' = goal
    /\ users' = IF goal >= 2 /\ revision < 2 THEN {} ELSE users
    /\ IF goal = 3 /\ Ownerless
       THEN \E heir \in users' : owner' = Inherited(heir)
       ELSE UNCHANGED owner

\* Below the last revision rows have no owner, below the second there are no
\* accounts, and below the first there are no rows.
Downgrade(goal) ==
    /\ goal < revision
    /\ revision' = goal
    /\ users' = IF goal >= 2 THEN users ELSE NULL
    /\ owner' = [t \in Table |-> [r \in Row |->
                    IF goal = 0 \/ owner[t][r] = ABSENT THEN ABSENT ELSE NULL]]

Register(u) ==
    /\ revision >= 2 /\ u \notin users
    /\ users' = users \cup {u}
    /\ UNCHANGED <<revision, owner>>

Insert(t, r) ==
    /\ revision >= 1 /\ owner[t][r] = ABSENT
    /\ \E x \in IF revision = 3 THEN users ELSE {NULL} :
           owner' = [owner EXCEPT ![t][r] = x]
    /\ UNCHANGED <<revision, users>>

Delete(t, r) ==
    /\ owner[t][r] # ABSENT
    /\ owner' = [owner EXCEPT ![t][r] = ABSENT]
    /\ UNCHANGED <<revision, users>>
-----------------------------------------------------------------------------
RevisionInit ==
    /\ revision = 0 /\ users = NULL
    /\ owner = [t \in Table |-> [r \in Row |-> ABSENT]]

RevisionNext ==
    \/ \E goal \in 0 .. 3 : Upgrade(goal) \/ Downgrade(goal)
    \/ \E u \in User : Register(u)
    \/ \E t \in Table, r \in Row : Insert(t, r) \/ Delete(t, r)

RevisionSpec == RevisionInit /\ [][RevisionNext]_committed
=============================================================================
