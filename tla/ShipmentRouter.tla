--------------------------- MODULE ShipmentRouter ---------------------------
(***************************************************************************)
(* The handlers of app/routers/shipments.py, one action per awaited        *)
(* statement.  What a handler decides from its locals it decides in the    *)
(* step that reads or writes next.                                         *)
(***************************************************************************)
EXTENDS Store

\* A shipment row "belongs to the caller": both lookups of the router filter
\* on the id and on owner_id, and answer 404 alike when either does not match.
Owned(s, u) == Live(shipments[s]) /\ shipments[s].owner = u

\* The handler keeps the row it loaded: the snapshot all its checks use.
Load(r, step) ==
    req' = [req EXCEPT ![r].step = step,
                       ![r].row = shipments[req[r].call.shipment]]

\* Mutant: the look-up of a shipment forgets owner_id.
mutant_SelectShipment(r, op, next) ==
    LET s == req[r].call.shipment IN
    /\ At(r, op, "select")
    /\ \/ Live(shipments[s]) /\ Load(r, next)
       \/ ~Live(shipments[s]) /\ Reply(r, "not_found")
    /\ UNCHANGED tables

SelectShipment(r, op, next) ==
    LET c == req[r].call IN
    /\ At(r, op, "select")
    /\ \/ Owned(c.shipment, c.user) /\ Load(r, next)
       \/ ~Owned(c.shipment, c.user) /\ Reply(r, "not_found")
    /\ UNCHANGED tables
-----------------------------------------------------------------------------
\* References: driver_id is checked before vehicle_id, each only when given.
Given(c, k) == c.ref[k] \notin {NULL, UNSET}

StepAfter(c, kinds) ==
    IF "driver" \in kinds /\ Given(c, "driver") THEN "driver"
    ELSE IF Given(c, "vehicle") THEN "vehicle" ELSE "write"

\* Mutant: the look-up of a reference forgets owner_id.
mutant_get_ref_or_404(r, k, next) ==
    /\ req[r].step = k
    /\ req[r].call.op \in {"create_shipment", "update_shipment"}
    /\ \/ req[r].call.ref[k] \in LiveFleet(k) /\ Goto(r, next)
       \/ req[r].call.ref[k] \notin LiveFleet(k) /\ Reply(r, "not_found")
    /\ UNCHANGED tables

get_ref_or_404(r, k, next) ==
    LET c == req[r].call
        found == c.ref[k] \in LiveFleet(k) /\ fleet[k][c.ref[k]].owner = c.user
    IN /\ req[r].step = k
       /\ c.op \in {"create_shipment", "update_shipment"}
       /\ \/ found /\ Goto(r, next)
          \/ ~found /\ Reply(r, "not_found")
       /\ UNCHANGED tables

get_driver_or_404(r) ==
    get_ref_or_404(r, "driver", StepAfter(req[r].call, {"vehicle"}))
get_vehicle_or_404(r) == get_ref_or_404(r, "vehicle", "write")
-----------------------------------------------------------------------------
\* POST /shipments
CheckTracking(r) ==
    LET c == req[r].call IN
    /\ At(r, "create_shipment", "check")
    /\ \/ TrackingTaken(c.tracking) /\ Reply(r, "conflict")
       \/ ~TrackingTaken(c.tracking) /\ Goto(r, StepAfter(c, Kind))
    /\ UNCHANGED tables

\* The flush inserts the shipment and then its route; the unique index and the
\* foreign keys decide, whatever the checks before it saw, and a duration that
\* the driver cannot encode (DataError) takes the shipment back with it.
InsertShipment(r) ==
    LET c == req[r].call
        accepted == ~TrackingTaken(c.tracking) /\ RefsExist(c.ref)
    IN /\ At(r, "create_shipment", "write")
       /\ \/ /\ accepted /\ c.fits
             /\ \E s \in ShipmentId :
                  /\ shipments[s] = NULL
                  /\ shipments' = [shipments EXCEPT ![s] =
                        [owner |-> c.user, tracking |-> c.tracking,
                         status |-> "pending", ref |-> c.ref,
                         priority |-> c.priority]]
                  /\ routes' = routes \cup {s}
                  /\ req' = [req EXCEPT ![r].step = "reread", ![r].new = s]
             /\ UNCHANGED <<alerts, fleet>>
          \/ /\ accepted /\ ~c.fits
             /\ Reply(r, "internal_error")
             /\ UNCHANGED tables
          \/ /\ ~accepted
             /\ Reply(r, "conflict")
             /\ UNCHANGED tables

\* Both create and update answer with the row read back after the commit, and
\* scalar_one() raises when somebody deleted it in between.
Reread(r, op) ==
    /\ At(r, op, "reread")
    /\ Reply(r, IF Live(shipments[req[r].new]) THEN "ok" ELSE "internal_error")
    /\ UNCHANGED tables

create_shipment(r) ==
    CheckTracking(r) \/ InsertShipment(r) \/ Reread(r, "create_shipment")
-----------------------------------------------------------------------------
\* GET /shipments/{id}: the row, then its route.  The response schema requires
\* a route, so a row deleted between the two reads is an unhandled error.
ReadRoute(r) ==
    LET c == req[r].call IN
    /\ At(r, "get_shipment", "route")
    /\ Reply(r, IF c.shipment \in routes THEN "ok" ELSE "internal_error")
    /\ UNCHANGED tables

get_shipment(r) == SelectShipment(r, "get_shipment", "route") \/ ReadRoute(r)
-----------------------------------------------------------------------------
\* PATCH /shipments/{id}
Edits(c) == c.priority # UNSET \/ \E k \in Kind : c.ref[k] # UNSET

\* Mutant: without the elif branch a closed shipment takes other edits.
mutant_Refused(c, row) ==
    /\ c.status # UNSET
    /\ is_terminal(row.status) \/ ~is_valid_transition(row.status, c.status)

\* The status rules, judged on the row as it was loaded.
Refused(c, row) ==
    \/ /\ c.status # UNSET
       /\ is_terminal(row.status) \/ ~is_valid_transition(row.status, c.status)
    \/ c.status = UNSET /\ is_terminal(row.status) /\ Edits(c)

Patched(stored, loaded, c) ==
    [stored EXCEPT
        !.status = Column(@, loaded.status, c.status),
        !.ref = [k \in Kind |-> Column(@[k], loaded.ref[k], c.ref[k])],
        !.priority = Column(@, loaded.priority, c.priority)]

\* Is there an UPDATE to send at all?
Dirty(loaded, c) == Patched(loaded, loaded, c) # loaded

SelectForUpdate(r) ==
    SelectShipment(r, "update_shipment", StepAfter(req[r].call, Kind))

\* Mutant: priority is a nullable column.
mutant_RowAccepted(row) == RefsExist(row.ref)

\* NOT NULL and the foreign keys, checked on the columns that are written.
RowAccepted(row) == row.priority # NULL /\ RefsExist(row.ref)

WriteShipment(r) ==
    LET c == req[r].call
        s == c.shipment
        loaded == req[r].row
        row == Patched(shipments[s], loaded, c)
        done == req' = [req EXCEPT ![r].step = "reread", ![r].new = s]
    IN /\ At(r, "update_shipment", "write")
       /\ \/ \* ShipmentStatus(None) raises ValueError
             c.status = NULL /\ Reply(r, "internal_error") /\ UNCHANGED tables
          \/ /\ c.status # NULL /\ Refused(c, loaded)
             /\ Reply(r, "conflict") /\ UNCHANGED tables
          \/ /\ c.status # NULL /\ ~Refused(c, loaded)
             /\ \/ ~Dirty(loaded, c) /\ done /\ UNCHANGED tables
                \/ \* the UPDATE matches no row: StaleDataError
                   /\ Dirty(loaded, c) /\ ~Live(shipments[s])
                   /\ Reply(r, "internal_error") /\ UNCHANGED tables
                \/ /\ Dirty(loaded, c) /\ Live(shipments[s])
                   /\ \/ /\ RowAccepted(row)
                         /\ shipments' = [shipments EXCEPT ![s] = row]
                         /\ done
                         /\ UNCHANGED <<routes, alerts, fleet>>
                      \/ ~RowAccepted(row) /\ Reply(r, "conflict")
                         /\ UNCHANGED tables

update_shipment(r) ==
    SelectForUpdate(r) \/ WriteShipment(r) \/ Reread(r, "update_shipment")
-----------------------------------------------------------------------------
\* Mutant: in_transit shipments may be deleted too.
mutant_CheckDeletable(r) ==
    LET c == req[r].call
        closed == is_terminal(shipments[c.shipment].status) IN
    /\ At(r, "delete_shipment", "select")
    /\ \/ ~Owned(c.shipment, c.user) /\ Reply(r, "not_found")
       \/ Owned(c.shipment, c.user) /\ ~closed /\ Load(r, "load")
       \/ Owned(c.shipment, c.user) /\ closed /\ Reply(r, "conflict")
    /\ UNCHANGED tables

\* DELETE /shipments/{id}: the status check uses the row as it was loaded,
\* db.delete() then loads the route and the alerts it cascades to, and the
\* flush deletes what was loaded.
CheckDeletable(r) ==
    LET c == req[r].call IN
    /\ At(r, "delete_shipment", "select")
    /\ \/ ~Owned(c.shipment, c.user) /\ Reply(r, "not_found")
       \/ /\ Owned(c.shipment, c.user)
          /\ \/ shipments[c.shipment].status = "pending" /\ Load(r, "load")
             \/ shipments[c.shipment].status # "pending" /\ Reply(r, "conflict")
    /\ UNCHANGED tables

LoadCascade(r) ==
    /\ At(r, "delete_shipment", "load")
    /\ req' = [req EXCEPT ![r].step = "write",
                          ![r].seen = AlertsOf(req[r].call.shipment)]
    /\ UNCHANGED tables

\* An alert added after the load holds the row (an uncaught IntegrityError);
\* a row that is gone already only earns a warning.
EraseShipment(r) ==
    LET s == req[r].call.shipment
        seen == req[r].seen
    IN /\ At(r, "delete_shipment", "write")
       /\ \/ /\ AlertsOf(s) \subseteq seen
             /\ shipments' = [shipments EXCEPT ![s] = GONE]
             /\ routes' = routes \ {s}
             /\ alerts' = [a \in AlertId |->
                             IF a \in seen THEN GONE ELSE alerts[a]]
             /\ Reply(r, "ok")
             /\ UNCHANGED fleet
          \/ /\ ~(AlertsOf(s) \subseteq seen)
             /\ Reply(r, "internal_error")
             /\ UNCHANGED tables

delete_shipment(r) == CheckDeletable(r) \/ LoadCascade(r) \/ EraseShipment(r)
-----------------------------------------------------------------------------
\* POST /shipments/{id}/evaluate: the session stays open across the call to
\* the weather service, which never raises (WeatherService).
Assessment == {"unavailable", "none", "low", "moderate", "high"}
RISK_TO_SEVERITY == [moderate |-> "medium", high |-> "high"]

\* Mutant: alerts.shipment_id is not a foreign key.
mutant_Assess(r) ==
    /\ At(r, "evaluate_shipment", "assess")
    /\ \E a \in AlertId :
         /\ alerts[a] = NULL
         /\ alerts' = [alerts EXCEPT ![a] = req[r].call.shipment]
         /\ req' = [req EXCEPT ![r].step = "refresh", ![r].new = a]
    /\ UNCHANGED <<shipments, routes, fleet>>

\* Only a risk with a severity leaves an alert, whose foreign key fails with
\* an uncaught IntegrityError when the shipment went away during the call.
Assess(r) ==
    LET s == req[r].call.shipment IN
    /\ At(r, "evaluate_shipment", "assess")
    /\ \E risk \in Assessment :
         \/ /\ risk \notin DOMAIN RISK_TO_SEVERITY
            /\ Reply(r, "ok") /\ UNCHANGED tables
         \/ /\ risk \in DOMAIN RISK_TO_SEVERITY /\ Live(shipments[s])
            /\ \E a \in AlertId :
                 /\ alerts[a] = NULL
                 /\ alerts' = [alerts EXCEPT ![a] = s]
                 /\ req' = [req EXCEPT ![r].step = "refresh", ![r].new = a]
            /\ UNCHANGED <<shipments, routes, fleet>>
         \/ /\ risk \in DOMAIN RISK_TO_SEVERITY /\ ~Live(shipments[s])
            /\ Reply(r, "internal_error") /\ UNCHANGED tables

RefreshAlert(r) ==
    /\ At(r, "evaluate_shipment", "refresh")
    /\ Reply(r, IF Live(alerts[req[r].new]) THEN "ok" ELSE "internal_error")
    /\ UNCHANGED tables

evaluate_shipment(r) ==
    \/ SelectShipment(r, "evaluate_shipment", "assess")
    \/ Assess(r)
    \/ RefreshAlert(r)
=============================================================================
