# PulseFleet in TLA+

A verification development kept beside PulseFleet, the FastAPI service that
tracks shipments, drivers and vehicles. It models the handlers as the
interleaved coroutines they are, the shell, the token and the connection pool
around them, the lists a client pages through, the weather client and the schema
migrations; it states what must hold whatever overlaps, model-checks it with TLC
on small instances and proves the main safety properties with TLAPS for every
instance.

Paths below are relative to the repository root (`app/...`, `docs/...`).

## 1. The system

PulseFleet is one FastAPI process per uvicorn worker over one PostgreSQL
database. Every request is a coroutine with its own SQLAlchemy session
(`get_db`, one transaction up to each COMMIT, READ COMMITTED). The handlers
never lock a row, never version it and never raise the isolation level. Each
`await` on a statement lets any other request, of this worker or another, run.

| Component | State it keeps | Operations | Interacts with |
|---|---|---|---|
| Lifecycle rules, `app/shipment_state.py` | none | `is_valid_transition`, `is_terminal` | called by PATCH |
| Shipments router, `app/routers/shipments.py` | tables shipments, routes, alerts | POST, GET, PATCH, DELETE, POST evaluate, list | looks up drivers and vehicles; calls the weather client with its session open |
| Drivers and vehicles routers, `app/routers/drivers.py`, `vehicles.py` | their tables | POST, GET, PATCH, DELETE, list | DELETE counts, loads and rewrites shipments |
| Tables, `app/models.py`, migrations | rows, unique indexes, foreign keys, NOT NULL | ORM flushes and cascades | every handler |
| Sessions, `app/database.py` | a transaction, a pooled connection | `get_db`: rollback on error | every handler, `/health` |
| Weather client, `app/services/weather_service.py` | attempt counter | `assess_route_risk`: retry loop, classification | external forecast API |
| Authentication, `app/security.py`, `dependencies.py`, `routers/auth.py` | users table; stateless tokens | register, login, `get_current_user` | in front of every handler |
| Listing and pagination, `app/pagination.py`, the list handlers | none | filter, count, page | reads the tables |
| Shell, `app/main.py`, `exceptions.py`, `logging_config.py` | request id | exception handlers, middleware, `/health` | around every handler |
| Migrations, `migrations/` | schema revision, one transaction | upgrade and downgrade between any two of three revisions | the tables, while the application writes to them |

### What is hard here

* **Checks on stale rows.** PATCH judges the status rules on the row it loaded
  before it looks up the driver and the vehicle. DELETE checks `pending` and
  then awaits the load of the cascade. DELETE of a driver counts the active
  shipments, then loads the ones that refer to it, then writes.
* **Reads and writes of several tables by several requests.** A driver may go
  between the look-up and the insert of a shipment that names it; an alert may
  arrive between the cascade's load and its deletion; a shipment may go during
  the seconds of a weather call.
* **The ORM in between.** A flush writes only columns whose value differs from
  the loaded one; an UPDATE that matches no row raises; a DELETE that matches
  none only warns; deleting a driver sets `driver_id` of the loaded shipments
  to NULL.
* **Answers after the commit.** Create and update read the row back; if it is
  gone by then, a request that did its work answers 500.
* **Failures.** A worker or its connection may die between two statements; the
  forecast API may time out, fail, or answer nonsense; the database may restart
  under a pool of open connections; a migration may be killed in its middle.
* **A pool of fifteen.** A session keeps its connection from its first statement
  to its commit, through the weather call, and takes another one for what it
  reads after the commit; whoever waits gives up after 30 seconds, `/health`
  after three.
* **Lists in two or three statements.** The total, the page and the routes of a
  page are read one after the other, and pages are cut by `OFFSET`.
* **Migrating rows that have no owner** while the application writes.

### What makes each component correct

* Shipments: the status follows the documented edges; only pending shipments
  are deleted; a PATCH changes the fields it names and no other; route and
  alerts live exactly as long as their shipment.
* References: a shipment names only an existing driver and vehicle of its own
  owner.
* Drivers, vehicles: license and plate numbers are unique over all accounts; a
  row with active shipments is not deleted.
* Accounts: nothing a request does touches another account's rows.
* Requests: each one is answered, and with 500 only where a row vanished under it or the
  database cannot take a value (a list of the latter in `AloneNoServerError`).
* Shell, session and accounts: nobody without a valid token gets a connection; no
  request keeps one, nor waits for one with one in hand; a 500 of the shell has a
  reason; `/health` tells an outage from a used-up pool; one account per name.
* Lists: a walk to the last page shows what matched all along, once.
* Migrations: the schema is always exactly one revision, and no row loses its
  owner.
* Weather: at most `max_retries + 1` attempts, and the answer is earned by the
  last of them; the risk is that of the worse reading.

`PROJECT.json` lists these hazards with the line where each bites and the
properties that cover it.

## 2. The modules

    ShipmentState   the status rules
    Store           tables, constraints, request slots (EXTENDS ShipmentState)
    ShipmentRouter  handlers of shipments.py        (EXTENDS Store)
    FleetRouter     handlers of drivers.py and vehicles.py (EXTENDS Store)
    Lifecycle       abstract: shipments moving along a set of edges
    Registry        abstract: the rows, an operation of an account at a time
    PulseFleet      composition, properties, INSTANCEs of Lifecycle, Registry
    Claims          sentences of the docs that overlapping requests break
    MCPulseFleet    the calls and instances for TLC
    WeatherService  the retry loop of the forecast client
    ConnectionPool  the engine's pool over a server that goes down and up
    Serving         middleware, token, session, auth router, /health
                                                     (EXTENDS ConnectionPool)
    Listing         list handlers, a client that pages, concurrent writers
    Revisions       abstract: a run of alembic as one step
    Migrations      the three revisions, statement by statement
    MCWeatherService, MCServing, MCListing, MCMigrations
    WeatherServiceProofs, PulseFleetProofs, SafetyProofs, RequestProofs,
    RegistryProofs, ServingProofs, ListingProofs, MigrationProofs

### State and actions

`Store` has one variable per table: `shipments` and the two `fleet` tables map
ids to rows, `alerts` maps ids to the shipment, `routes` is the set of
shipments that have one (the relation is one to one). An id not handed out yet
holds `NULL`, one whose row was deleted holds `GONE`; a SERIAL id is never
reused. Drivers and vehicles have the same shape and line-for-line the same
router code, so they are one table and one set of actions per `Kind`.

`req[r]` is a handler: `step` names the SQL statement it awaits next, `call`
the validated request, and `row`, `seen`, `new` the locals that survive an
await (the loaded row, the rows loaded for a cascade, the id to read back). An
action is **one statement with the code up to the next await**:

| Handler | Steps |
|---|---|
| `create_shipment` | check (tracking), driver, vehicle, write, reread |
| `get_shipment` | select, route |
| `update_shipment` | select, driver, vehicle, write (status rules, flush, commit), reread |
| `delete_shipment` | select (and the pending check), load (cascade), write |
| `evaluate_shipment` | select, assess (weather call, then the alert), refresh |
| fleet `create` | check, write, refresh |
| fleet `get` | select |
| fleet `update` | select, check (only for another key), write, refresh |
| fleet `delete` | select, count, load, write |

All writes of a handler happen in one flush and COMMIT, which is one action:
under READ COMMITTED nobody sees them earlier, and the row locks that the flush
takes are held to the COMMIT that immediately follows. The constraints are
evaluated in that action against the committed tables (`RefsExist`,
`TrackingTaken`, `KeyTaken`, `FleetRowAccepted`, `AlertsOf`), and the outcome is the
answer the code gives: 409 where the handler catches `IntegrityError`, 500
where it does not.

`Column` is the ORM's flush of one column: it writes the value sent only if it
differs from the *loaded* one, so a concurrent change of the other columns (or
of the same column to another value) survives. `EraseFleet` gives the
rule for `db.delete(driver)`: the loaded shipments lose the reference whatever
it is by then; a single UPDATE that matches no row raises `StaleDataError`;
with two or more the asyncpg driver does not report matched counts and nothing
is raised; a shipment assigned after the load holds the row by its foreign key.

`Start` takes a call from `Calls`; `get_current_user` is its guard: a call
comes with its user. `Crash` is a worker or connection dying between two
statements; `get_db` or the server rolls back. The commit is atomic, so a crash
is before or after it (after: from `reread` or `refresh`; for the deletes the
answer alone is lost, which the model does not distinguish from "ok").

Lengths are checked by POST (but not that of a vehicle's type), never by PATCH:
`DriverUpdate` and `VehicleUpdate` have none. A key or `label` (it stands for the
other columns of the row: a driver's name and phone, a vehicle's type) in `Long`
fits no column: the flush raises `DataError`, which neither router catches
(`TooLong`), and nothing is stored. One in `Short` is stored by a PATCH, but
violates the response schema (`Servable`), so that every answer that carries the
row is a 500. `fits` says that the duration of a new shipment's route is within
the 32 bits of its column; the schema bounds it from below only. `PostedLabel`
and `PatchedLabel` say which values each kind's schema lets through.

`WeatherService` is the retry loop; its answers, abstracted to whether there
is a severity, are what `Assess` chooses from.

`Serving` splits the system the other way: it keeps what `PulseFleet` leaves out
of a request (its connection, its token) and reduces the handlers
to the statements they hold a connection for. `req[r].step` is what the request
waits for: a connection (`connect`, and `reconnect` for what is read after the
commit, since a session gives its connection back when it commits), a statement
(`select`, `commit`, `refresh`, `ping`), the forecast (`weather`), or the end of
its session (`closing`: an answer is sent before `get_db` closes, an exception
leaves `get_db` first). `ConnectionPool` counts idle connections that work and
that broke; `Checkout` is `pool_pre_ping`, `CheckIn` keeps `pool_size`
connections. `Outage` breaks all of them. `disturbed` is a history variable: the
server was away at some time during the request. `tokens` is the newest token
that login issued to each name, which `Expire` may strike at any time; a request
carries what its client has (`Bearer`, or `BAD` for none and for a forged one)
and is judged by it once, when it arrives (`Admitted`).

`Listing` is one table (`endpoint` says which) and one client. `walk` is the
client's request: its filter, its offset, the total and the page it got.
`First` defines `ORDER BY id LIMIT n` without sequences: the first rows of a set.
The range of the filter has two names at each end; `applied` is the one whose
presence the code tests, `preferred` the one whose value wins. Writers insert
(ids are handed out in order and committed in any), change and delete rows.
`watch` is history: which rows matched all along, and whether one at or before
the last listed row left or came.

`Migrations` has the committed database, the transaction of the running alembic
with the position in the script, and how the last run ended. A revision script
is the sequence of its statements; `Stamped` moves the version number after the
last, in the same transaction. Serving goes on meanwhile on tables the
transaction has not altered. An account takes its id at the INSERT and is
committed a round trip later, so `Register` commits ids in any order, also a
lower one after `FirstUser` has chosen; `before` is history: who had an account
when the run began.

### The abstract specifications

`Registry` has the rows and nothing of how the code gets at them: no requests,
no statements, no look-ups. A step is one operation of one account, judged on the
rows as they are. Its constants say how strict the rules are, and `PulseFleet`
instantiates it twice. `Sequential` has the documented rules: the edges of
`docs/API.md`, no edit of a closed shipment, no deletion of a driver or vehicle
with active shipments, and a deletion clears the references to its row and no
other. `Overlapping` has what races leave of them: the edges of
`RacingLifecycle`, edits and deletions in any status, and a deletion that may
clear more than it should, or come late (`Late`, see the findings below). In both
an account writes its own rows, stores references to live rows of its own only,
keeps keys unique, and takes route and alerts away with their shipment.

`Revisions` has the committed revision, users and owners; a run of alembic is one
step from one revision to another.

### Abstractions

Rows keep the columns the properties tell apart: owner, unique key, references,
status, `priority` for all columns that only PATCH writes, and `label` for the
texts of a driver or vehicle, of which the properties tell apart only whether
they fit. Strings are model
values. Validation by pydantic is in the shape of `Call`: an absent field
(`UNSET`) and an explicit `null` are different inputs, because the code treats
them differently. Left out: wording, timestamps, headers, logging; floats other
than the thresholds (weather readings are whole numbers, a fraction of a
millimetre counting as 1; NaN and readings beyond a float are not modelled);
values that no statement or answer can carry (ids outside 32 bits, NUL characters,
times that are none in UTC, infinities). `Serving` takes hashing and signing as
sound (a token is valid, expired or `BAD`) and one worker; `Listing` has one
status filter that stands for every test of equality and for the text search,
and a fixed limit during a walk; `Migrations` keeps of the columns only
`owner_id`, and one alembic runs at a time.

## 3. The properties

In `PulseFleet`, under any interleaving:

* `RefsOwned` - every reference is to a live row of the shipment's owner.
* `LookupsHold` - what a handler looked up can only *vanish* before its write.
* `UniqueKeys`, `NoOrphans` - the constraints, however the checks race.
* `OnlyOwnerWrites` - only a request of its owner changes a row.
* `UnsentFieldsKept` - a PATCH never undoes another request's field.
* `RacingLifecycle` - refinement of `Lifecycle` with the edges that races leave.
* `RacingRegistry` - refinement of `Registry` (`Overlapping`): each commit is one
  operation of its account on the rows of that moment, although everything the
  handler checked was read earlier.
* `EveryRequestAnswered` - liveness.

While requests do not overlap: `DocumentedRegistry` (refinement of `Registry`
with the documented rules, `Sequential`), `DocumentedLifecycle` (refinement of
`Lifecycle` with the edges of `docs/API.md`), `ActiveKeepsRefs`, `ClosedOnlyLosesRefs`,
`AcceptedEditIsStored`, `AloneNoServerError`.

In `WeatherService`: `AnswerIsEarned`, `CallReturns`.

In `Serving`, whatever the clients and the database do:

* `PoolSound` - the pool keeps its limit; who waits for a connection or is done
  holds none.
* `ServerErrorsExplained` - a 500 of the shell means an outage during the
  request, or more requests under way than connections.
* `HealthTruthful` - wherever the probe is when it answers, `ok` means that the
  server answers, `unreachable` that it was away, and a used-up pool reads `timeout`.
* `StrangersKeptOut` - 401 exactly for a missing, forged or expired token, also
  while the pool is used up or the database away, and never a connection for it.
* `OneAccountPerName`, `EveryRequestServed`.

In `Listing`, whatever is written during the walk: `WalkComplete` and `NoRepeats`
say exactly which writes make a client miss a row or see it twice;
`PageAgreesWithTotal`, `FiltersHonoured`.

In `Migrations`: `SchemaMatchesRevision`, `RowsOwned`, `OnlyMissingUserFails`,
`UpgradeKeepsRows` (no row is lost or taken from its owner, and the ownerless ones
all go to one user whom nobody precedes who had an account when the run began;
`README.md:264` of the repository says the earliest-registered user, which is judged
at the SELECT), and `AtomicRuns` (refinement of `Revisions`): with the application
writing between its statements, a run still acts as if all its scripts ran at once on the rows and users there are when it commits, and one that
fails or is killed as if it never was.

## 4. The runs

| Run | Instance | Question |
|---|---|---|
| `RaceShipment` | 3 slots, 1 shipment, 2 alerts, one owner | what can overlapping create, PATCH, DELETE, evaluate and GET of one shipment never do? `NoOrphans`, `RacingLifecycle`, `UnsentFieldsKept` |
| `RaceReferences` | 2 slots, 2 accounts, 2 shipments, 2 drivers | assign, swap, unassign and delete drivers, also with the other account's ids: `RefsOwned`, `LookupsHold`, `OnlyOwnerWrites`, `RacingRegistry` |
| `RaceFleet` | 2 slots, 2 drivers, 2 keys, fair | creates and renames racing to one license number, and every way a row may vanish: `UniqueKeys`, `RacingRegistry`, `EveryRequestAnswered` |
| `Serial` | 1 slot, 2 accounts, every operation, crashes | what a careful client sees: the six properties above, `TypeOK`, `RefsOwned` |
| `Weather` | 2 retries, readings on both sides of every threshold | `WeatherTypeOK`, `AnswerIsEarned`, `CallReturns` |
| `Serving` | 3 slots, a pool of 1 + 1, one name, outages, fair | who gets a connection, what do a 500 and a degraded `/health` mean, does every request end? the seven properties of `Serving` |
| `Listing` | 4 ids, pages of 2, three filters, all three endpoints | what does a walk over up to three pages show while rows come, change and go? the five properties of `Listing` |
| `Migrate` | 2 rows in each table, 2 users, any goal, crashes | can any sequence of upgrades and downgrades, or a crash, leave half a schema or a row without its owner? the six properties of `Migrations` |

Bounds. Ids: an inserting call starts only while ids are left for it and for
those already under way (`HasRoom`); ids are never reused, so each run still
covers create, delete and create again wherever it has two ids of a table. Two slots give every
interleaving of two handlers; the races in this code are between one handler's
check and another's write, and the properties about a shipment's
status run with three slots because a stale PATCH, a fresh PATCH and a DELETE
are three. `RaceShipment` leaves `RacingRegistry` to the two runs with two slots
and to its proof: over three slots TLC takes too long to evaluate it. Slots are interchangeable and no constant in the calls names one, so
`RaceShipment`, which checks no liveness, uses symmetry over them. Calls:
each run's set holds every operation that can touch the rows its properties
speak of. All runs check for deadlock, except `Weather` and `Listing`, whose
call and walk end. `Serial` has one key and one
label that only PATCH accepts, one of each that no column holds, and a route whose
duration does not fit; the racing runs have ordinary values only.

`Serving` has one request more than connections, which is when the pool matters,
and one connection of each kind (kept, overflow). One name is enough for a race
to register, and the tokens of two names do not meet. `Listing` needs three pages
for a row to move between one page and a later one: with four ids, a walk has two
pages of two and a last one. `Migrate` has two users, so that the first is
not the only one, and two rows in a table, so that one can be written while the
other is backfilled.

Fairness. `FairSpec` is weak fairness of `Handle(r)` for each slot: the event
loop resumes a coroutine whose statement came back, and a statement comes back
or its connection breaks. Nothing else waits: the model has no locks because
a handler holds row locks only inside a flush and commit. Clients need not send
anything, so `Start` has no fairness, nor has `Crash`. `FairWeatherSpec`: each
HTTP request ends, as httpx bounds it with a timeout per operation.
`FairServingSpec`: weak fairness of `Serve(r)` for each slot: a statement ends or
its connection breaks, and the wait for a connection ends with `pool_timeout`.
Only some request that waits may ever get one: no strong fairness is assumed of
the pool, and none is needed, because giving up is an answer too. `Listing` and
`Migrations` state no liveness.

### Sentences the code does not keep

Each is one violated property; `PROJECT.json` quotes the sentence and the line.

* `ClaimTerminal`: two PATCHes load a pending shipment; one sends `cancelled`
  and commits; the other's `in_transit` is judged on the pending row and stored.
* `ClaimActive`: a DELETE of a driver counts no active shipment; a pending one is
  created with that driver; the DELETE loads it, takes its driver away, deletes the
  driver and answers 204 (`docs/API.md:94` says the same as `README.md:162`).
* `ClaimPage`: the first page is listed, one of its rows is deleted, and the
  second page starts one row too late.
* `ClaimRerun`: `alembic upgrade head` on the first revision with rows creates
  the users table, finds no user, and rolls both back; the message asks to
  register a user in a table that is gone.

Others of the same kind, which the models show without a run of their own:

* A DELETE that saw `pending` erases a shipment that a PATCH has started
  meanwhile (one of the edges `RacingLifecycle` adds; `docs/API.md:116`).
* Of two deletions of one driver that both counted no active shipment, the one
  that is overtaken finds the row gone, which the ORM only warns of, and commits
  all the same: it clears the reference of the shipments it loaded, to whatever
  driver they were assigned since. This takes three requests, and the runs of
  drivers have two slots: no run meets it, and no property is violated by it.
  `Registry` permits it as a deletion that comes `Late`, without which
  `RacingRegistry` could not be proved.
* Without overlap, deleting a driver clears `driver_id` of its delivered
  shipments (`ClosedOnlyLosesRefs`; `README.md:156` says a closed shipment
  rejects any edit).
* A foreign key that fails in a delete or an evaluation is answered 500: no `try`
  is around those commits (`docs/API.md:188` documents 409).
* `PATCH {"status": null}` is answered 500; so are a PATCH of a driver's or
  vehicle's text to more than its column holds, a POST of a vehicle with such a type
  and of a shipment whose duration is beyond 32 bits, and every GET of a driver whose
  license number was PATCHed to two characters (the exceptions that
  `AloneNoServerError` names).
* The forecast client retries an error status like a timeout, though its comment
  speaks of timeouts and connection errors.
* `weight_min` alone passes the range check of `shipments.py:126` and filters
  nothing, since line 147 tests `min_weight_kg` (`Matches` and its `applied`), though
  `docs/API.md:135` lists it as a filter.
* An exception that no handler maps leaves the middleware before `main.py:88` sets
  the header: the catch-all's 500 names the request in its body only, though
  `README.md:443` speaks of every response.
* The 422 of a reversed range has no `request_id` in its body, though
  `docs/API.md:168` shows one for every error.
* The list of shipments has none of the filters `q`, `origin` and `destination`
  that `docs/API.md:135` lists.

## 5. The proofs

TLAPS proves, for every value of the constants that the `ASSUME`s admit: every
number of users, ids, keys, request slots and retries, every set of calls, every
size of pool, table and page (`CallsAssumption`, `ServingAssumption`,
`QueryAssumption`: the calls are well-formed; `SentinelAssumption`,
`RowAssumption`, `MarkerAssumption`: the markers are distinct and are no data; `PoolAssumption`,
`LimitAssumption`, `IdAssumption`: the pool has a connection, a page a row, and
ids are finitely many numbers):

| Theorem | Module |
|---|---|
| `TypeCorrect`: `Spec => []TypeOK` | `PulseFleetProofs` |
| `LookupsCorrect`: `Spec => []LookupsHold` | `SafetyProofs` |
| `ReferencesCorrect`: `Spec => []RefsOwned` | `SafetyProofs` |
| `RacingLifecycleCorrect`: `Spec => RacingLifecycle` | `SafetyProofs` |
| `OrphansCorrect`: `Spec => []NoOrphans` | `SafetyProofs` |
| `KeysCorrect`: `Spec => []UniqueKeys` | `SafetyProofs` |
| `OwnersCorrect`: `Spec => OnlyOwnerWrites`, `UnsentFieldsCorrect`: `Spec => UnsentFieldsKept` | `RequestProofs` |
| with one request slot (`Alone`): `DocumentedCorrect`: `Spec => DocumentedLifecycle`, `ActiveRefsCorrect`, `ClosedCorrect`, `AcceptedEditCorrect`, `ErrorsCorrect` | `RequestProofs` |
| `OverlappingCorrect`: `Spec => RacingRegistry` | `RegistryProofs` |
| with one request slot: `SequentialCorrect`: `Spec => DocumentedRegistry` | `RegistryProofs` |
| `WeatherTypeCorrect`, `AnswerCorrect` | `WeatherServiceProofs` |
| `ServingTypeCorrect`, `PoolCorrect`, `StrangersCorrect`, `AccountsCorrect`: `ServingSpec => []...` | `ServingProofs` |
| `ServerErrorsCorrect`: `ServingSpec => ServerErrorsExplained`, `HealthCorrect` | `ServingProofs` |
| `ListingTypeCorrect`, `WalkCorrect`, `RepeatsCorrect`: `ListSpec => []...` | `ListingProofs` |
| `TotalCorrect`: `ListSpec => PageAgreesWithTotal`, `FiltersCorrect` | `ListingProofs` |
| `MigrationTypeCorrect`, `SchemaCorrect`, `OwnersCorrect`, `FailuresCorrect`: `MigrationSpec => []...` | `MigrationProofs` |
| `UpgradeCorrect`: `MigrationSpec => UpgradeKeepsRows` | `MigrationProofs` |
| `AtomicRunsCorrect`: `MigrationSpec => AtomicRuns` | `MigrationProofs` |

The argument. `RefsOwned` is not inductive: a handler about to write may hold an
id that it looked up several steps ago. The strengthening is
`TypeOK /\ LookupsHold /\ RefsOwned`. `LookupsHold` says a looked-up row is
still the caller's or `GONE`; it is preserved because a row that was inserted
keeps its owner or goes for good (`KeptShipments`, `KeptFleet`: ids are never
reused and no handler writes `owner_id`). At the write the foreign key rules out
`GONE`, so the row is live and the caller's. When a driver goes, the flush has
cleared the references it loaded and the foreign key refuses the rest, so no
reference is left to it (`FleetGoes`, `RefsOwnedStep`).

`RacingLifecycle` uses the same invariant: a PATCH whose snapshot has left
pending knows that the stored row has too, so the status it writes, legal for
the snapshot, stays outside pending; a DELETE only writes a row that existed.
The two invariants of the tables are inductive given `TypeOK`.
`OnlyOwnerWrites` needs of the other handlers what `LookupsHold` says of the
shipments router (`Held`): the driver, vehicle or shipment they found is still
the caller's or gone, and so are the shipments that a deletion will clear, since
a shipment that refers to a row belongs to the row's owner (`RefsOwned`).

`RacingRegistry` needs them all at once: a step of the code is matched by the one
operation whose handler commits in it, or by none. The references it stores are
the caller's by `LookupsHold`, the row it writes by `Held`, the shipments a
deletion clears by `RefsOwned`, the key is free because the index refused it
otherwise, and the alerts it erases are those of the shipment because the foreign
key refused the rest.

What holds without overlap is proved for `Alone`, one request slot and any
number of everything else. The strengthening is `Fresh`: what the handler has
read is what is stored, a shipment about to be deleted is pending, and no active
shipment refers to a row that is about to go. A PATCH is then judged on the row
it updates, so every edge it takes is in `ALLOWED_TRANSITIONS`. For
`DocumentedRegistry` the references that a deletion clears are exactly the ones
to its row (`Fresh` says they are loaded; `Sequential` allows no other), and all
of them are of closed shipments.

`TypeOK` includes `LocalsOK`, what each step needs of a handler's locals.
For the weather client the strengthening is `Ongoing`: while the call goes on,
every attempt so far has failed and one is left.

`Serving`. The invariant has three parts. `PoolInv` counts: holders and idle
connections together stay within the capacity, since a connection is opened only
when the pool is empty and not exhausted. `AccountInv`: a token's name has an
account, and no name has two. `SlotInv` is local to a request: what it holds at
each step, that a request at a statement was admitted and one without a valid
token never had a connection, that a broken
connection or an unreachable server means `disturbed`. From these a 500 leaves
two cases: a connection that broke or could not be opened (disturbed), or a pool
that is exhausted, whose holders and the waiting request are `Capacity + 1`.

`Listing`. The rows a page skips and the rows up to its end are initial segments
of the matching rows, and of two such segments one includes the other
(`SegmentsNest`). The invariant compares the offset with how many matching rows
lie at or before the last row listed: at least as many unless one left
(`NotBehind`), at most as many unless one came in (`NotAhead`). The first bound
gives `WalkComplete`, the second `NoRepeats`.

`Migrations`. The invariant `TxOK` says for every position in a script what the
schema of the open transaction is (`SchemaAt`), what is known of a row's owner
by the state of its column (`OwnersOK`), that the rows of a counted table are
counted and those of a backfilled one owned (`CountedOK`), and that a row differs
from the committed one only when the backfill gave it to `first` (`KeptOK`). An
altered table is locked, so no row slips in between its count and its backfill;
nobody who had an account when the run began precedes `first`, whoever registers
meanwhile: an account whose lower id was taken earlier may still be committed
after the SELECT, so `first` need not be the earliest user when the run commits,
and `Revisions` promises no more than one heir. No statement can then be refused but the backfill without a user, and
a commit, at the end of a script, finds the schema of a revision.

`AtomicRuns` adds `RunOK`, which relates the open transaction to the committed
database of the moment: on the way down a row has the owner it has there until
its table has lost the column (`LoweredOwner`), and a users table that is not
committed is empty, since nobody can register in it. Both survive what the
application writes, which goes to both or waits. With `KeptOK` for the way up,
the commit (`CommitUpgrades`, `CommitDowngrades`) is then one step of `Revisions`.

Only model-checked: liveness (`EveryRequestAnswered`, `CallReturns`,
`EveryRequestServed`), which this prover does not reach, and the violated claims.

## 6. What is not modelled

* `app/config.py`, `app/logging_config.py`, OpenAPI metadata and response
  formatting keep no state that a property could be about.
* bcrypt and JWT internals are libraries. That bcrypt runs on the event loop and
  stops every other request of the worker for its time is a delay, not a step.
* `schemas.py` beyond null, absent, over-long and unservable fields: what pydantic
  rejects, with 422, never reaches a handler.
* Users are never deactivated: no operation of the API sets `is_active`, so its
  tests in `auth.py` and `dependencies.py` are not reached.
* Ids outside 32 bits, and a second evaluation by a client that lost its answer:
  listed among the hazards without a property.
* Alembic's offline mode, which prints SQL; two alembic processes at once, which
  nothing in the repository prevents or provides for; lock waits between a
  migration and a request. They usually end with one waiting for the other to commit;
  where each waits for the other PostgreSQL kills one, which the model has as
  `Crash` of the run, and not as a failed request. A serving process is taken to match the committed revision.

What could follow: an abstract specification of the answers as well as of the
rows, so that a client can tell from its answer what was stored; and one of the
shell, a pool as a counter, that `Serving` implements.
