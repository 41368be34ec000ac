------------------------------ MODULE Serving ------------------------------
(***************************************************************************)
(* What surrounds every handler in one worker: the middleware of main.py,  *)
(* the bearer token, the session of get_db with its pooled connection, the *)
(* auth router and /health, over a database that may go down.  What the    *)
(* handlers of the other routers do with their rows is PulseFleet's; here  *)
(* a handler is the statements it holds a connection for.                  *)
(***************************************************************************)
EXTENDS ConnectionPool

CONSTANTS
    Name,           \* user names
    BAD,            \* a token that is missing, malformed or forged
    Calls           \* the calls that come in on each slot

VARIABLES
    accounts,       \* rows of users with each name
    tokens,         \* the newest token that login issued to each name
    req             \* the requests

servingVars == <<up, idle, conn, accounts, tokens, req>>

Protected == {"read", "write", "delete", "evaluate"}
Kind == Protected \cup {"register", "login", "health", "root"}

Token == {"none", "valid", "expired"}

Call == [kind: Protected, name: Name \cup {BAD}]
        \cup [kind: {"register", "login", "health", "root"}, name: Name]

ASSUME ServingAssumption == BAD \notin Name /\ Calls \in [Request -> SUBSET Call]

\* connect and reconnect wait for a connection; select, commit, refresh and ping
\* wait for the server and weather for the forecast, with one in hand; closing has
\* its answer and ends, closing a session that is still open.
Waiting == {"connect", "reconnect"}
Holding == {"select", "weather", "commit", "refresh", "ping"}
Step == {"idle", "closing"} \cup Waiting \cup Holding

Status == {"none", "ok", "unauthorized", "refused", "internal_error",
           "timeout", "unreachable"}

Running(r) == req[r].step # "idle"
At(r, step) == req[r].step = step
Is(r, kind) == req[r].kind = kind

\* The token in the Authorization header; the other routes do not read it.
Bearer(c) ==
    IF c.kind \in Protected /\ c.name # BAD THEN tokens[c.name] ELSE "none"

Blank == [step |-> "idle", kind |-> "root", name |-> BAD, token |-> "none",
          stored |-> FALSE, status |-> "none", disturbed |-> FALSE]

Arrived(c) == [step |-> "connect", kind |-> c.kind, name |-> c.name,
               token |-> Bearer(c), stored |-> FALSE, status |-> "none",
               disturbed |-> ~up]

Goto(r, step) == req' = [req EXCEPT ![r].step = step]
-----------------------------------------------------------------------------
(* Answers                                                                  *)

\* Every exception becomes an answer: of a handler, or of the catch-all.
Answered(q, status) == [q EXCEPT !.status = status, !.step = "closing"]

\* A value the route returns is sent before get_db closes the session.
Return(r, status) ==
    /\ req' = [req EXCEPT ![r] = Answered(@, status)]
    /\ Keep

\* An exception leaves get_db first, which rolls back and closes.
Raise(r, status) ==
    /\ req' = [req EXCEPT ![r] = Answered(@, status)]
    /\ CheckIn(r)

\* /health turns its failures into an answer and has no session.
Failed(r, why) == Raise(r, IF Is(r, "health") THEN why ELSE "internal_error")

\* Mutant: get_db yields its session without `async with`: only errors close it.
mutant_Close(r) ==
    /\ At(r, "closing") /\ Keep
    /\ req' = [req EXCEPT ![r] = Blank]
    /\ UNCHANGED <<up, accounts, tokens>>

Close(r) ==
    /\ At(r, "closing")
    /\ req' = [req EXCEPT ![r] = Blank]
    /\ CheckIn(r)
    /\ UNCHANGED <<up, accounts, tokens>>
-----------------------------------------------------------------------------
(* Before the first statement                                               *)

\* Mutant: the token is decoded without a look at its exp claim.
mutant_Admitted(q) == q.kind \in Protected => q.token # "none"

\* get_current_user judges the token before the first statement.
Admitted(q) == q.kind \in Protected => q.token = "valid"

\* The middleware names the request; up to its first statement nothing waits.
Arrive(r, c) ==
    LET q == Arrived(c)
    IN /\ ~Running(r)
       /\ \/ c.kind = "root" /\ req' = [req EXCEPT ![r] = Answered(q, "ok")]
          \/ /\ c.kind # "root" /\ ~Admitted(q)
             /\ req' = [req EXCEPT ![r] = Answered(q, "unauthorized")]
          \/ /\ c.kind # "root" /\ Admitted(q)
             /\ req' = [req EXCEPT ![r] = q]
       /\ UNCHANGED <<up, idle, conn, accounts, tokens>>
-----------------------------------------------------------------------------
(* Taking a connection                                                      *)

NextStep(q) ==
    IF q.step = "reconnect" THEN "refresh"
    ELSE IF q.kind = "health" THEN "ping" ELSE "select"

Connect(r) ==
    /\ req[r].step \in Waiting
    /\ Checkout(r)
    /\ Goto(r, NextStep(req[r]))
    /\ UNCHANGED <<up, accounts, tokens>>

ConnectFails(r) ==
    /\ req[r].step \in Waiting /\ CannotConnect
    /\ Failed(r, "unreachable")
    /\ UNCHANGED <<up, accounts, tokens>>

\* Mutant: pool_timeout=None, a request waits for as long as it takes.
mutant_GiveUp(r) == Exhausted /\ At(r, "never") /\ UNCHANGED servingVars

\* Mutant: /health without its own timeout, so that the probe meets the pool's,
\* which is SQLAlchemy's TimeoutError and not the built-in one.
mutant_probe_GiveUp(r) ==
    /\ req[r].step \in Waiting /\ Exhausted
    /\ Failed(r, "unreachable")
    /\ UNCHANGED <<up, accounts, tokens>>

\* pool_timeout has passed: 30 seconds, of which /health waits three.
GiveUp(r) ==
    /\ req[r].step \in Waiting /\ Exhausted
    /\ Failed(r, "timeout")
    /\ UNCHANGED <<up, accounts, tokens>>
-----------------------------------------------------------------------------
(* The statements of a session                                              *)

Statement(r, step) == At(r, step) /\ conn[r] = "live" /\ UNCHANGED up

\* A statement on a broken connection raises.
Breaks(r) ==
    /\ req[r].step \in Holding \ {"weather"} /\ conn[r] = "dead"
    /\ Failed(r, "unreachable")
    /\ UNCHANGED <<up, tokens>>
    /\ \/ UNCHANGED accounts
       \/ /\ At(r, "commit") /\ Is(r, "register")    \* COMMIT got through
          /\ accounts[req[r].name] = 0
          /\ accounts' = [accounts EXCEPT ![req[r].name] = 1]

\* The look-ups: a missing row, a taken name or key, a wrong password.
Refuse(r) ==
    /\ Statement(r, "select")
    /\ \/ Is(r, "register") /\ accounts[req[r].name] > 0
       \/ ~Is(r, "register")
    /\ Raise(r, IF Is(r, "login") THEN "unauthorized" ELSE "refused")
    /\ UNCHANGED <<accounts, tokens>>

Read(r) ==
    /\ Statement(r, "select") /\ Is(r, "read")
    /\ Return(r, "ok")
    /\ UNCHANGED <<accounts, tokens>>

login(r) ==
    /\ Statement(r, "select") /\ Is(r, "login")
    /\ accounts[req[r].name] > 0
    /\ Return(r, "ok")
    /\ tokens' = [tokens EXCEPT ![req[r].name] = "valid"]
    /\ UNCHANGED accounts

Proceed(r) ==
    /\ Statement(r, "select")
    /\ \/ Is(r, "register") /\ accounts[req[r].name] = 0 /\ Goto(r, "commit")
       \/ req[r].kind \in {"write", "delete"} /\ Goto(r, "commit")
       \/ Is(r, "evaluate") /\ Goto(r, "weather")
    /\ Keep /\ UNCHANGED <<accounts, tokens>>

\* The connection stays taken while the forecast is asked for.
Weather(r) ==
    /\ At(r, "weather")
    /\ (Goto(r, "commit") /\ Keep) \/ Return(r, "ok")
    /\ UNCHANGED <<up, accounts, tokens>>

\* Mutant: the refresh goes on as if the commit had kept the connection.
mutant_Stored(r) ==
    /\ req' = [req EXCEPT ![r] = [@ EXCEPT !.stored = TRUE, !.step = "refresh"]]
    /\ CheckIn(r)

\* The commit gives the connection back; what is read after it takes one again.
Stored(r) ==
    /\ IF Is(r, "delete")
       THEN req' = [req EXCEPT ![r] =
                      [Answered(@, "ok") EXCEPT !.stored = TRUE]]
       ELSE req' = [req EXCEPT ![r] =
                      [@ EXCEPT !.stored = TRUE, !.step = "reconnect"]]
    /\ CheckIn(r)

\* An integrity error becomes a 409 where the handler catches it; where it does
\* not, it is a 500 of PulseFleet's.
Commit(r) ==
    /\ Statement(r, "commit") /\ ~Is(r, "register")
    /\ \/ Stored(r)
       \/ Is(r, "write") /\ Raise(r, "refused")
    /\ UNCHANGED <<accounts, tokens>>

\* Mutant: username is not unique in the table.
mutant_Register(r) ==
    /\ Statement(r, "commit") /\ Is(r, "register")
    /\ Stored(r)
    /\ accounts' = [accounts EXCEPT ![req[r].name] = @ + 1]
    /\ UNCHANGED tokens

Register(r) ==
    /\ Statement(r, "commit") /\ Is(r, "register")
    /\ \/ /\ accounts[req[r].name] = 0
          /\ accounts' = [accounts EXCEPT ![req[r].name] = 1]
          /\ Stored(r)
       \/ /\ accounts[req[r].name] > 0
          /\ Raise(r, "refused")
          /\ UNCHANGED accounts
    /\ UNCHANGED tokens

Refresh(r) ==
    /\ Statement(r, "refresh")
    /\ Return(r, "ok")
    /\ UNCHANGED <<accounts, tokens>>
-----------------------------------------------------------------------------
(* /health                                                                  *)

health_check(r) ==
    /\ Statement(r, "ping")
    /\ Raise(r, "ok")
    /\ UNCHANGED <<accounts, tokens>>

\* asyncio.timeout(3), wherever it strikes.
HealthTimeout(r) ==
    /\ Is(r, "health") /\ req[r].step \in {"connect", "ping"}
    /\ Raise(r, "timeout")
    /\ UNCHANGED <<up, accounts, tokens>>
-----------------------------------------------------------------------------
ServingInit ==
    /\ PoolInit
    /\ accounts = [n \in Name |-> 0]
    /\ tokens = [n \in Name |-> "none"]
    /\ req = [r \in Request |-> Blank]

Serve(r) ==
    \/ Connect(r) \/ ConnectFails(r) \/ GiveUp(r)
    \/ Breaks(r) \/ Refuse(r) \/ Read(r) \/ login(r) \/ Proceed(r)
    \/ Weather(r) \/ Commit(r) \/ Register(r) \/ Refresh(r)
    \/ health_check(r) \/ HealthTimeout(r) \/ Close(r)

\* ACCESS_TOKEN_EXPIRE_MINUTES have passed.
Expire(n) ==
    /\ tokens[n] = "valid" /\ tokens' = [tokens EXCEPT ![n] = "expired"]
    /\ UNCHANGED <<up, idle, conn, accounts, req>>

GoDown ==
    /\ Outage
    /\ req' = [r \in Request |->
                 IF Running(r) THEN [req[r] EXCEPT !.disturbed = TRUE]
                               ELSE req[r]]
    /\ UNCHANGED <<accounts, tokens>>

ComeUp == Recovery /\ UNCHANGED <<accounts, tokens, req>>

ServingNext ==
    \/ \E r \in Request : Serve(r) \/ \E c \in Calls[r] : Arrive(r, c)
    \/ \E n \in Name : Expire(n)
    \/ GoDown \/ ComeUp

ServingSpec == ServingInit /\ [][ServingNext]_servingVars

\* The server answers or its connection breaks, the pool and the probe have
\* their timeouts, the forecast client has its own.
FairServingSpec == ServingSpec /\ \A r \in Request : WF_servingVars(Serve(r))
-----------------------------------------------------------------------------
(* Properties                                                               *)

Local == [step: Step, kind: Kind, name: Name \cup {BAD}, token: Token,
          stored: BOOLEAN, status: Status, disturbed: BOOLEAN]

\* Pool, accounts and requests have their shapes, and what a step needs is
\* there: a statement, the weather call of an evaluation and the probe's ping
\* have a connection in hand, the refresh after a commit one of its own.
ServingTypeOK ==
    /\ up \in BOOLEAN
    /\ idle \in [live: Nat, dead: Nat]
    /\ conn \in [Request -> Connection]
    /\ accounts \in [Name -> Nat]
    /\ tokens \in [Name -> Token]
    /\ req \in [Request -> Local]
    /\ \A r \in Request : req[r].step \in Holding => conn[r] # "none"

\* The pool never opens more than its limit, no finished request keeps a
\* connection, and nobody waits for one with one in hand: a full pool drains.
PoolSound ==
    /\ Cardinality(Holders) + Pooled <= Capacity
    /\ \A r \in Request :
          req[r].step \in {"idle"} \cup Waiting => conn[r] = "none"

\* A 500 of this shell has one of two reasons: the database went away during the
\* request, or more requests are under way than the pool has connections, the
\* ones in a weather call and the ones being closed included.  In particular a
\* request that comes after a restart of the database never fails by it.
Served == {r \in Request : Running(r)}
ErrorStep ==
    \A r \in Request :
        Running(r) /\ req[r].status = "none" /\ req'[r].status = "internal_error"
            => req[r].disturbed \/ Cardinality(Served) > Capacity
ServerErrorsExplained == [][ErrorStep]_servingVars

\* Whatever /health is waiting for when it answers, it says "ok" only while the
\* server answers, and "unreachable" only if the server was away at some time
\* since the probe came in and the probe was not waiting for a used-up pool to
\* give it a connection: that reads "timeout".
ProbeStep ==
    \A r \in Request :
        LET status == req'[r].status IN
        Running(r) /\ Is(r, "health") /\ req[r].status = "none"
          /\ status # "none" =>
            /\ status \in {"ok", "timeout", "unreachable"}
            /\ status = "ok" => up
            /\ status = "unreachable" =>
                  req[r].disturbed /\ ~(At(r, "connect") /\ Exhausted)
HealthTruthful == [][ProbeStep]_servingVars

\* A protected route answers 401 exactly to those who came without a token, with
\* a forged one or with one that had expired by then, also while the pool is used
\* up or the database is away, and they never get a connection; what is stored
\* under a protected route is stored for an account that exists.
StrangersKeptOut ==
    /\ \A n \in Name : tokens[n] # "none" => accounts[n] > 0
    /\ \A r \in Request : req[r].kind \in Protected =>
          /\ req[r].status = "unauthorized" <=> req[r].token # "valid"
          /\ req[r].token # "valid" => conn[r] = "none" /\ ~req[r].stored
          /\ req[r].stored => accounts[req[r].name] > 0

\* Two registrations that both found a name free never both get it.
OneAccountPerName == \A n \in Name : accounts[n] <= 1

\* Every request is answered and its session closed, however many compete for
\* the pool and whatever the database does.
EveryRequestServed == \A r \in Request : Running(r) ~> ~Running(r)
=============================================================================
