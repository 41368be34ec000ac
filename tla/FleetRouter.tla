---------------------------- MODULE FleetRouter ----------------------------
(***************************************************************************)
(* The handlers of app/routers/drivers.py and app/routers/vehicles.py.     *)
(* The two files differ only in names, so each step is written once for a  *)
(* kind k and every handler of either file is an instance of it.           *)
(***************************************************************************)
EXTENDS Store

OwnedFleet(k, f, u) == Live(fleet[k][f]) /\ fleet[k][f].owner = u

OnKind(r, op, step, k) == At(r, op, step) /\ req[r].call.kind = k

\* DriverResponse and VehicleResponse repeat the minimum lengths of POST, which
\* PATCH does not check: of the key, and of a driver's name and phone.
Servable(row) == row.key \notin Short /\ row.label \notin Short

\* A value that its column cannot hold is a DataError, which neither router
\* catches: it is raised before any constraint is looked at.
TooLong(c) == c.key \in Long \/ c.label \in Long

LoadFleet(r, k, step) ==
    req' = [req EXCEPT ![r].step = step, ![r].row = fleet[k][req[r].call.id]]
-----------------------------------------------------------------------------
\* Mutant: the handler retries until the key is free.
mutant_CheckKey(r, k) ==
    LET c == req[r].call IN
    /\ OnKind(r, "create", "check", k)
    /\ ~KeyTaken(k, c.key)
    /\ Goto(r, "write")
    /\ UNCHANGED tables

\* POST: a look-up of the key, then the insert, which the unique index judges.
CheckKey(r, k) ==
    LET c == req[r].call IN
    /\ OnKind(r, "create", "check", k)
    /\ \/ KeyTaken(k, c.key) /\ Reply(r, "conflict")
       \/ ~KeyTaken(k, c.key) /\ Goto(r, "write")
    /\ UNCHANGED tables

InsertFleet(r, k) ==
    LET c == req[r].call IN
    /\ OnKind(r, "create", "write", k)
    /\ \/ /\ ~TooLong(c) /\ ~KeyTaken(k, c.key)
          /\ \E f \in FleetId :
               /\ fleet[k][f] = NULL
               /\ fleet' = [fleet EXCEPT ![k][f] =
                       [owner |-> c.user, key |-> c.key, label |-> c.label]]
               /\ req' = [req EXCEPT ![r].step = "refresh", ![r].new = f]
          /\ UNCHANGED <<shipments, routes, alerts>>
       \/ TooLong(c) /\ Reply(r, "internal_error") /\ UNCHANGED tables
       \/ /\ ~TooLong(c) /\ KeyTaken(k, c.key)
          /\ Reply(r, "conflict")
          /\ UNCHANGED tables

\* db.refresh() after the commit raises when the row was deleted in between, and
\* so does the response when the row is not what the schema demands.
Refresh(r, op, k) ==
    LET f == req[r].new IN
    /\ OnKind(r, op, "refresh", k)
    /\ Reply(r, IF Live(fleet[k][f]) /\ Servable(fleet[k][f])
                THEN "ok" ELSE "internal_error")
    /\ UNCHANGED tables

create(r, k) ==
    CheckKey(r, k) \/ InsertFleet(r, k) \/ Refresh(r, "create", k)
-----------------------------------------------------------------------------
get(r, k) ==
    LET c == req[r].call IN
    /\ OnKind(r, "get", "select", k)
    /\ Reply(r, IF ~OwnedFleet(k, c.id, c.user) THEN "not_found"
                ELSE IF Servable(fleet[k][c.id]) THEN "ok" ELSE "internal_error")
    /\ UNCHANGED tables
-----------------------------------------------------------------------------
\* PATCH: the key is looked up only when it is sent and differs from the one
\* that was loaded.
NewKey(row, c) == c.key \notin {UNSET, row.key}

SelectFleet(r, k) ==
    LET c == req[r].call IN
    /\ OnKind(r, "update", "select", k)
    /\ \/ /\ OwnedFleet(k, c.id, c.user)
          /\ LoadFleet(r, k, IF NewKey(fleet[k][c.id], c)
                             THEN "check" ELSE "write")
       \/ ~OwnedFleet(k, c.id, c.user) /\ Reply(r, "not_found")
    /\ UNCHANGED tables

CheckNewKey(r, k) ==
    LET c == req[r].call IN
    /\ OnKind(r, "update", "check", k)
    /\ \/ KeyTaken(k, c.key) /\ Reply(r, "conflict")
       \/ ~KeyTaken(k, c.key) /\ Goto(r, "write")
    /\ UNCHANGED tables

\* A row after the flush, of which only the changed columns are written.
Edited(stored, loaded, c) ==
    [stored EXCEPT !.key = Column(@, loaded.key, c.key),
                   !.label = Column(@, loaded.label, c.label)]

\* Mutant: license_number is not unique, the look-up alone guards it.
mutant_FleetRowAccepted(k, f, row) == row.key # NULL /\ row.label # NULL

\* NOT NULL and the unique index, against the other rows of the table.
FleetRowAccepted(k, f, row) ==
    /\ row.key # NULL /\ row.label # NULL
    /\ \A g \in LiveFleet(k) \ {f} : fleet[k][g].key # row.key

WriteFleet(r, k) ==
    LET c == req[r].call
        loaded == req[r].row
        row == Edited(fleet[k][c.id], loaded, c)
        dirty == Edited(loaded, loaded, c) # loaded
        done == req' = [req EXCEPT ![r].step = "refresh", ![r].new = c.id]
    IN /\ OnKind(r, "update", "write", k)
       /\ \/ ~dirty /\ done /\ UNCHANGED tables
          \/ \* StaleDataError, or DataError
             /\ dirty /\ (~Live(fleet[k][c.id]) \/ TooLong(c))
             /\ Reply(r, "internal_error") /\ UNCHANGED tables
          \/ /\ dirty /\ Live(fleet[k][c.id]) /\ ~TooLong(c)
             /\ \/ /\ FleetRowAccepted(k, c.id, row)
                   /\ fleet' = [fleet EXCEPT ![k][c.id] = row]
                   /\ done
                   /\ UNCHANGED <<shipments, routes, alerts>>
                \/ ~FleetRowAccepted(k, c.id, row) /\ Reply(r, "conflict")
                   /\ UNCHANGED tables

update(r, k) ==
    \/ SelectFleet(r, k) \/ CheckNewKey(r, k) \/ WriteFleet(r, k)
    \/ Refresh(r, "update", k)
-----------------------------------------------------------------------------
\* DELETE: refused while the row has active shipments; otherwise the flush
\* loads the shipments that refer to it, sets their reference to NULL and
\* deletes the row.  The count, the load and the writes are three statements.
SelectForDelete(r, k) ==
    LET c == req[r].call IN
    /\ OnKind(r, "delete", "select", k)
    /\ \/ OwnedFleet(k, c.id, c.user) /\ LoadFleet(r, k, "count")
       \/ ~OwnedFleet(k, c.id, c.user) /\ Reply(r, "not_found")
    /\ UNCHANGED tables

\* Mutant: the count looks at pending shipments only.
mutant_Active(s) == shipments[s].status = "pending"

Active(s) == shipments[s].status \in {"pending", "in_transit"}

CountActive(r, k) ==
    LET f == req[r].call.id IN
    /\ OnKind(r, "delete", "count", k)
    /\ \/ (\E s \in Referencing(k, f) : Active(s)) /\ Reply(r, "conflict")
       \/ (\A s \in Referencing(k, f) : ~Active(s)) /\ Goto(r, "load")
    /\ UNCHANGED tables

LoadReferencing(r, k) ==
    /\ OnKind(r, "delete", "load", k)
    /\ req' = [req EXCEPT ![r].step = "write",
                          ![r].seen = Referencing(k, req[r].call.id)]
    /\ UNCHANGED tables

\* Mutant: passive_deletes, the flush leaves the references to the database.
mutant_EraseFleet(r, k) ==
    LET f == req[r].call.id IN
    /\ OnKind(r, "delete", "write", k)
    /\ \/ /\ Referencing(k, f) = {}
          /\ fleet' = [fleet EXCEPT ![k][f] = GONE]
          /\ Reply(r, "ok")
          /\ UNCHANGED <<shipments, routes, alerts>>
       \/ /\ Referencing(k, f) # {}
          /\ Reply(r, "internal_error")
          /\ UNCHANGED tables

\* The loaded shipments lose whatever reference they hold by now.  A single
\* UPDATE that matches no row raises StaleDataError (of several, the driver
\* does not report the counts); a shipment assigned after the load holds the
\* row with its foreign key, an uncaught IntegrityError.
EraseFleet(r, k) ==
    LET f == req[r].call.id
        seen == req[r].seen
        stale == \E s \in seen : seen = {s} /\ ~Live(shipments[s])
        held == ~(Referencing(k, f) \subseteq seen)
    IN /\ OnKind(r, "delete", "write", k)
       /\ \/ /\ ~stale /\ ~held
             /\ shipments' = [s \in ShipmentId |->
                                IF s \in seen \cap LiveShipments
                                THEN [shipments[s] EXCEPT !.ref[k] = NULL]
                                ELSE shipments[s]]
             /\ fleet' = [fleet EXCEPT ![k][f] = GONE]
             /\ Reply(r, "ok")
             /\ UNCHANGED <<routes, alerts>>
          \/ /\ stale \/ held
             /\ Reply(r, "internal_error")
             /\ UNCHANGED tables

delete(r, k) ==
    \/ SelectForDelete(r, k) \/ CountActive(r, k)
    \/ LoadReferencing(r, k) \/ EraseFleet(r, k)
-----------------------------------------------------------------------------
create_driver(r) == create(r, "driver")
get_driver(r) == get(r, "driver")
update_driver(r) == update(r, "driver")
delete_driver(r) == delete(r, "driver")

create_vehicle(r) == create(r, "vehicle")
get_vehicle(r) == get(r, "vehicle")
update_vehicle(r) == update(r, "vehicle")
delete_vehicle(r) == delete(r, "vehicle")
=============================================================================
