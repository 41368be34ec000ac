------------------------------- MODULE Store -------------------------------
(***************************************************************************)
(* The PostgreSQL tables behind PulseFleet (app/models.py) and the         *)
(* requests being served on top of them.                                   *)
(*                                                                         *)
(* A table is a function from ids to rows.  An id that the sequence has    *)
(* not handed out yet holds NULL and one whose row was deleted holds GONE: *)
(* a SERIAL id is never handed out twice.  Drivers and vehicles have the   *)
(* same shape (an owner and a globally unique key, license_number or       *)
(* plate_number) and the same router code, so they are one table per Kind. *)
(*                                                                         *)
(* A request is a handler coroutine: the SQL statement it awaits next, the *)
(* call it serves, and the locals that survive the awaits.  All writes of  *)
(* a request happen in one flush and COMMIT, which is one step; its reads  *)
(* are steps of their own (READ COMMITTED: each sees the last commit).     *)
(***************************************************************************)
EXTENDS ShipmentState, Naturals, FiniteSets

CONSTANTS
    User,           \* accounts
    ShipmentId, FleetId, AlertId,   \* the ids the sequences can hand out
    Tracking,       \* tracking numbers
    FleetKey,       \* license and plate numbers
    Label,          \* values of a driver's or vehicle's other columns
    Short,          \* those that only PATCH accepts: too short for any response
    Long,           \* those that no column can hold
    Priority,       \* values of the shipment column that any edit may touch
    Request,        \* request slots: how many handlers may run at once
    Calls,          \* the calls the clients make, a subset of Call
    NULL,           \* SQL NULL, JSON null, and an id never handed out
    GONE,           \* an id whose row was deleted
    UNSET           \* a field that is absent from a PATCH body

VARIABLES
    shipments, routes, alerts,  \* the tables of the core entity
    fleet,                      \* the drivers and vehicles tables
    req                         \* the handlers

tables == <<shipments, routes, alerts, fleet>>
vars == <<shipments, routes, alerts, fleet, req>>
-----------------------------------------------------------------------------
Kind == {"driver", "vehicle"}

FleetRow == [owner: User, key: FleetKey \ Long, label: Label \ Long]

ShipmentRow == [owner: User, tracking: Tracking, status: ShipmentStatus,
                ref: [Kind -> FleetId \cup {NULL}], priority: Priority]

\* The calls a client can make, after pydantic has validated their bodies.  It
\* bounds a driver's texts and both keys in POST only, a vehicle's type never,
\* and the duration of a route only from below: fits, it is within 32 bits.
PostedLabel == [driver |-> Label \ (Short \cup Long), vehicle |-> Label \ Short]
PatchedLabel == [driver |-> Label, vehicle |-> Label \ Short]

CreateShipmentCall ==
    [op: {"create_shipment"}, user: User, tracking: Tracking,
     ref: [Kind -> FleetId \cup {NULL}], priority: Priority, fits: BOOLEAN]
UpdateShipmentCall ==
    [op: {"update_shipment"}, user: User, shipment: ShipmentId,
     status: ShipmentStatus \cup {NULL, UNSET},
     ref: [Kind -> FleetId \cup {NULL, UNSET}],
     priority: Priority \cup {NULL, UNSET}]
OnShipmentCall ==
    [op: {"get_shipment", "delete_shipment", "evaluate_shipment"},
     user: User, shipment: ShipmentId]
CreateFleetCall ==
    {c \in [op: {"create"}, kind: Kind, user: User,
            key: FleetKey \ (Short \cup Long), label: Label] :
        c.label \in PostedLabel[c.kind]}
UpdateFleetCall ==
    {c \in [op: {"update"}, kind: Kind, user: User, id: FleetId,
            key: FleetKey \cup {NULL, UNSET}, label: Label \cup {NULL, UNSET}] :
        c.label \in PatchedLabel[c.kind] \cup {NULL, UNSET}}
OnFleetCall == [op: {"get", "delete"}, kind: Kind, user: User, id: FleetId]

Call == CreateShipmentCall \cup UpdateShipmentCall \cup OnShipmentCall
        \cup CreateFleetCall \cup UpdateFleetCall \cup OnFleetCall

ASSUME CallsAssumption == Calls \subseteq Call
ASSUME LengthAssumption ==
    Short \cup Long \subseteq FleetKey \cup Label /\ Short \cap Long = {}

ASSUME SentinelAssumption ==
    /\ NULL # GONE /\ NULL # UNSET /\ GONE # UNSET
    /\ \A x \in {NULL, GONE, UNSET} :
          /\ x \notin ShipmentStatus /\ x \notin FleetId /\ x \notin ShipmentId
          /\ x \notin AlertId /\ x \notin FleetKey /\ x \notin Label
          /\ x \notin Priority
          /\ x \notin ShipmentRow /\ x \notin FleetRow
-----------------------------------------------------------------------------
\* The step a handler is at is the statement it awaits next; when it has none,
\* the answer it gave.  "lost" is a connection that died with its worker.
Answer == {"idle", "ok", "not_found", "conflict", "internal_error", "lost"}
Step == {"select", "check", "driver", "vehicle", "count", "load", "assess",
         "write", "reread", "refresh", "route"}

Answered(code) ==
    [step |-> code, call |-> NULL, row |-> NULL, seen |-> {}, new |-> NULL]

Running(r) == req[r].step \in Step
At(r, op, step) == req[r].step = step /\ req[r].call.op = op

Reply(r, code) == req' = [req EXCEPT ![r] = Answered(code)]
Goto(r, step) == req' = [req EXCEPT ![r].step = step]
-----------------------------------------------------------------------------
\* The constraints the database enforces at the flush.
Live(x) == x \notin {NULL, GONE}

LiveShipments == {s \in ShipmentId : Live(shipments[s])}
LiveFleet(k) == {f \in FleetId : Live(fleet[k][f])}

TrackingTaken(t) == \E s \in LiveShipments : shipments[s].tracking = t
KeyTaken(k, key) == \E f \in LiveFleet(k) : fleet[k][f].key = key

\* The driver_id and vehicle_id foreign keys of a shipment row.
RefsExist(ref) == \A k \in Kind : ref[k] \in {NULL} \cup LiveFleet(k)

\* Mutant: the flush writes back every column it loaded.
mutant_Column(stored, loaded, sent) == IF sent = UNSET THEN loaded ELSE sent

\* Mutant: model_dump(exclude_none=True), a null in the body is dropped.
mutant_null_Column(stored, loaded, sent) ==
    IF sent \in {UNSET, NULL, loaded} THEN stored ELSE sent

\* A column of the stored row after the flush: the ORM writes only the
\* columns whose assigned value differs from the one it loaded.
Column(stored, loaded, sent) ==
    IF sent \in {UNSET, loaded} THEN stored ELSE sent

Referencing(k, f) == {s \in LiveShipments : shipments[s].ref[k] = f}
AlertsOf(s) == {a \in AlertId : alerts[a] = s}
-----------------------------------------------------------------------------
StoreInit ==
    /\ shipments = [s \in ShipmentId |-> NULL]
    /\ routes = {}
    /\ alerts = [a \in AlertId |-> NULL]
    /\ fleet = [k \in Kind |-> [f \in FleetId |-> NULL]]
    /\ req = [r \in Request |-> Answered("idle")]
=============================================================================
