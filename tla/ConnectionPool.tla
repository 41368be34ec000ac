--------------------------- MODULE ConnectionPool ---------------------------
(***************************************************************************)
(* The pool behind create_async_engine(DATABASE_URL, pool_pre_ping=True):  *)
(* SQLAlchemy's queue pool of one worker, over a PostgreSQL server that    *)
(* may go down, which breaks every connection, and come up again.          *)
(***************************************************************************)
EXTENDS Naturals, FiniteSets

CONSTANTS
    Request,        \* request slots
    pool_size,      \* connections kept when nobody uses them (5)
    max_overflow    \* further ones opened under load (10)

ASSUME RequestAssumption == IsFiniteSet(Request)
ASSUME PoolAssumption == pool_size \in Nat /\ max_overflow \in Nat
                         /\ pool_size + max_overflow > 0

VARIABLES
    up,             \* the server answers
    idle,           \* how many pooled connections work, and how many broke
    conn            \* what each request holds

poolVars == <<up, idle, conn>>

Connection == {"none", "live", "dead"}
Capacity == pool_size + max_overflow

Holders == {r \in Request : conn[r] # "none"}
Pooled == idle.live + idle.dead
Exhausted == Pooled = 0 /\ Cardinality(Holders) >= Capacity

PoolInit ==
    /\ up = TRUE
    /\ idle = [live |-> 0, dead |-> 0]
    /\ conn = [r \in Request |-> "none"]

Take(r, state) == conn' = [conn EXCEPT ![r] = state]
-----------------------------------------------------------------------------
\* Mutant: no pool_pre_ping, a pooled connection is handed out as it is.
mutant_Checkout(r) ==
    \/ /\ idle.live > 0 /\ Take(r, "live")
       /\ idle' = [idle EXCEPT !.live = @ - 1]
    \/ /\ idle.dead > 0 /\ Take(r, "dead")
       /\ idle' = [idle EXCEPT !.dead = @ - 1]
    \/ /\ Pooled = 0 /\ ~Exhausted /\ up /\ Take(r, "live")
       /\ UNCHANGED idle

\* A pooled connection is tested, and replaced if it broke; a new one is opened
\* only when none is pooled.
Checkout(r) ==
    \/ /\ idle.live > 0 /\ Take(r, "live")
       /\ idle' = [idle EXCEPT !.live = @ - 1]
    \/ /\ idle.dead > 0 /\ up /\ Take(r, "live")
       /\ idle' = [idle EXCEPT !.dead = @ - 1]
    \/ /\ Pooled = 0 /\ ~Exhausted /\ up /\ Take(r, "live")
       /\ UNCHANGED idle

\* No connection can be opened.
CannotConnect == ~up /\ idle.live = 0 /\ ~Exhausted

\* What does not fit in the pool is closed; a broken one is thrown away.
CheckIn(r) ==
    /\ Take(r, "none")
    /\ idle' = IF conn[r] = "live" /\ Pooled < pool_size
               THEN [idle EXCEPT !.live = @ + 1] ELSE idle

Keep == UNCHANGED <<idle, conn>>

Broken(state) == IF state = "none" THEN "none" ELSE "dead"

Outage ==
    /\ up /\ up' = FALSE
    /\ idle' = [live |-> 0, dead |-> Pooled]
    /\ conn' = [r \in Request |-> Broken(conn[r])]

Recovery == ~up /\ up' = TRUE /\ Keep
=============================================================================
