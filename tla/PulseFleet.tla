----------------------------- MODULE PulseFleet -----------------------------
(***************************************************************************)
(* The PulseFleet API: handlers of the shipments, drivers and vehicles     *)
(* routers interleaving over one database.  A request slot takes a call,   *)
(* runs its handler statement by statement and is free again once it has   *)
(* answered; every slot is a coroutine of one of the uvicorn workers.      *)
(***************************************************************************)
EXTENDS ShipmentRouter, FleetRouter

\* The first statement of a handler, after get_current_user has found c.user.
FirstStep(c) ==
    IF c.op \in {"create_shipment", "create"} THEN "check" ELSE "select"

\* Bound: a handler that takes an id from a sequence only starts while there
\* are more ids left than handlers that may take one.
Inserts(c) == c.op \in {"create_shipment", "create", "evaluate_shipment"}

IdsLeft(c) ==
    CASE c.op = "create_shipment" -> {s \in ShipmentId : shipments[s] = NULL}
      [] c.op = "evaluate_shipment" -> {a \in AlertId : alerts[a] = NULL}
      [] c.op = "create" -> {f \in FleetId : fleet[c.kind][f] = NULL}

Inserting(c) ==
    {r \in Request : /\ Running(r) /\ req[r].call.op = c.op
                     /\ c.op = "create" => req[r].call.kind = c.kind}

HasRoom(c) ==
    Inserts(c) => Cardinality(Inserting(c)) < Cardinality(IdsLeft(c))

Start(r, c) ==
    /\ ~Running(r) /\ HasRoom(c)
    /\ req' = [req EXCEPT ![r] =
                 [step |-> FirstStep(c), call |-> c,
                  row |-> NULL, seen |-> {}, new |-> NULL]]
    /\ UNCHANGED tables

\* The worker or its database connection dies.  Nothing before the COMMIT of
\* the open transaction survives: get_db rolls back, or the server does.
Crash(r) == Running(r) /\ Reply(r, "lost") /\ UNCHANGED tables

Handle(r) ==
    \/ create_shipment(r) \/ get_shipment(r) \/ update_shipment(r)
    \/ delete_shipment(r) \/ evaluate_shipment(r)
    \/ get_driver_or_404(r) \/ get_vehicle_or_404(r)
    \/ create_driver(r) \/ get_driver(r) \/ update_driver(r) \/ delete_driver(r)
    \/ create_vehicle(r) \/ get_vehicle(r) \/ update_vehicle(r)
    \/ delete_vehicle(r)

Next ==
    \E r \in Request : (\E c \in Calls : Start(r, c)) \/ Handle(r) \/ Crash(r)

Spec == StoreInit /\ [][Next]_vars

\* The event loop resumes every coroutine whose statement has come back, and
\* statements come back: PostgreSQL answers, or its connection breaks.
FairSpec == Spec /\ \A r \in Request : WF_vars(Handle(r))
-----------------------------------------------------------------------------
\* Every table, and every handler's locals, hold what the schema and the code
\* say they hold.
Idle == {Answered(code) : code \in Answer}

Busy == [step: Step, call: Calls, row: ShipmentRow \cup FleetRow \cup {NULL},
         seen: SUBSET (ShipmentId \cup AlertId),
         new: ShipmentId \cup FleetId \cup AlertId \cup {NULL}]

\* The snapshot is of the table the call is about, and is there once a later
\* statement needs it; so is the id that is read back after the commit.
LocalsOK(q) ==
    /\ q.call.op = "update_shipment" /\ q.step \in {"driver", "vehicle", "write"}
          => q.row \in ShipmentRow
    /\ q.call.op = "update" /\ q.step \in {"check", "write"}
          => q.row \in FleetRow
    /\ q.step = "reread" => q.new \in ShipmentId
    /\ q.step = "refresh" =>
          \/ q.call.op = "evaluate_shipment" /\ q.new \in AlertId
          \/ q.call.op \in {"create", "update"} /\ q.new \in FleetId

TypeOK ==
    /\ shipments \in [ShipmentId -> ShipmentRow \cup {NULL, GONE}]
    /\ routes \subseteq ShipmentId
    /\ alerts \in [AlertId -> ShipmentId \cup {NULL, GONE}]
    /\ fleet \in [Kind -> [FleetId -> FleetRow \cup {NULL, GONE}]]
    /\ req \in [Request -> Idle \cup Busy]
    /\ \A r \in Request : Running(r) => LocalsOK(req[r])
-----------------------------------------------------------------------------
(* Safety under any interleaving                                            *)

\* A shipment refers only to a driver and a vehicle that exist and belong to
\* its owner, although both are checked statements before the write and either
\* may be deleted, or handed to the request by another user's id, in between.
RefsOwned ==
    \A s \in LiveShipments, k \in Kind :
        LET f == shipments[s].ref[k] IN
        f # NULL => f \in LiveFleet(k) /\ fleet[k][f].owner = shipments[s].owner

\* What a handler has looked up can only vanish before its write: a row that was
\* its caller's is still the caller's or is gone, and a shipment loaded after it
\* left pending has not come back.
Belonged(row, u) == row = GONE \/ (Live(row) /\ row.owner = u)

SnapshotHolds(q) ==
    /\ q.call.op \in {"update_shipment", "delete_shipment"}
    /\ q.step \in {"driver", "vehicle", "load", "write"}
    => LET row == shipments[q.call.shipment] IN
       /\ Belonged(row, q.call.user)
       /\ Live(row) /\ q.row.status # "pending" => row.status # "pending"

RefHolds(q, k, steps) ==
    /\ q.call.op \in {"create_shipment", "update_shipment"}
    /\ q.step \in steps
    /\ Given(q.call, k)
    => Belonged(fleet[k][q.call.ref[k]], q.call.user)

LookupsHold ==
    \A r \in Request : Running(r) =>
        /\ SnapshotHolds(req[r])
        /\ RefHolds(req[r], "driver", {"vehicle", "write"})
        /\ RefHolds(req[r], "vehicle", {"write"})

\* Tracking, license and plate numbers are unique over all users, although two
\* handlers may both have looked the number up before either writes it.
UniqueKeys ==
    /\ \A s, t \in LiveShipments :
          shipments[s].tracking = shipments[t].tracking => s = t
    /\ \A k \in Kind : \A f, g \in LiveFleet(k) :
          fleet[k][f].key = fleet[k][g].key => f = g

\* The shipments that exist are the ones with a route, and no alert outlives
\* its shipment, whatever is evaluated while the shipment is being deleted.
NoOrphans ==
    /\ routes = LiveShipments
    /\ \A a \in AlertId : Live(alerts[a]) => alerts[a] \in LiveShipments

\* The user whose request makes this step.
Acting(u) == \E r \in Request :
                /\ Running(r) /\ req'[r] # req[r] /\ req[r].call.user = u

\* Only a request of its owner creates, changes or deletes a row: a lookup
\* that found the caller's row never leads to a write on somebody else's, and
\* clearing the references to a deleted driver stays within one account.
OwnersStep ==
    /\ \A s \in ShipmentId : shipments'[s] # shipments[s] =>
          \A row \in {shipments[s], shipments'[s]} :
              Live(row) => Acting(row.owner)
    /\ \A k \in Kind, f \in FleetId : fleet'[k][f] # fleet[k][f] =>
          \A row \in {fleet[k][f], fleet'[k][f]} :
              Live(row) => Acting(row.owner)
    /\ \A a \in AlertId : alerts'[a] # alerts[a] =>
          \A s \in {alerts[a], alerts'[a]} \cap LiveShipments :
              Acting(shipments[s].owner)
OnlyOwnerWrites == [][OwnersStep]_vars

\* A PATCH leaves every field that its body does not name as it is stored, even
\* when another request changed that field after this one loaded the row.
PatchStep ==
    \A r \in Request, s \in ShipmentId :
        LET c == req[r].call
            old == shipments[s]
            new == shipments'[s]
        IN At(r, "update_shipment", "write") /\ req'[r] # req[r] /\ new # old =>
             /\ s = c.shipment
             /\ c.status = UNSET => new.status = old.status
             /\ c.priority = UNSET => new.priority = old.priority
             /\ \A k \in Kind : c.ref[k] = UNSET => new.ref[k] = old.ref[k]
             /\ new.owner = old.owner /\ new.tracking = old.tracking
UnsentFieldsKept == [][PatchStep]_vars
-----------------------------------------------------------------------------
(* The lifecycle, as an abstract specification                              *)

StageOf(row) ==
    IF row = NULL THEN "unborn" ELSE IF row = GONE THEN "gone" ELSE row.status

Stages == ShipmentStatus \cup {"unborn", "gone"}
stages == [s \in ShipmentId |-> StageOf(shipments[s])]

\* What docs/API.md documents.
DocumentedEdges ==
    {<<"unborn", "pending">>, <<"pending", "gone">>}
    \cup UNION {{x} \X ALLOWED_TRANSITIONS[x] : x \in ShipmentStatus}

\* What is left of it when requests overlap: checks made on a stale snapshot
\* let a shipment that has left pending go anywhere but back, and let any
\* shipment be deleted.
Moved == ShipmentStatus \ {"pending"}
RacingEdges ==
    {<<"unborn", "pending">>}
    \cup ({"pending"} \X ALLOWED_TRANSITIONS["pending"])
    \cup (Moved \X Moved)
    \cup (ShipmentStatus \X {"gone"})

Documented == INSTANCE Lifecycle WITH
    Stage <- Stages, Unborn <- "unborn", Edges <- DocumentedEdges,
    stage <- stages
Racing == INSTANCE Lifecycle WITH
    Stage <- Stages, Unborn <- "unborn", Edges <- RacingEdges, stage <- stages

\* While requests do not overlap, the status moves as docs/API.md draws it, and
\* a shipment is deleted only while pending and never comes back.
DocumentedLifecycle == Documented!LifecycleSpec

\* Whatever overlaps, no shipment returns to pending, none is delivered
\* straight from pending, and none comes back once it is deleted.
RacingLifecycle == Racing!LifecycleSpec
-----------------------------------------------------------------------------
(* The rows, as an abstract specification                                   *)

Sequential == INSTANCE Registry WITH
    FleetKey <- FleetKey \ Long, Label <- Label \ Long, Status <- ShipmentStatus, Initial <- "pending",
    Edges <- DocumentedEdges, Closed <- {"delivered", "cancelled"},
    Kept <- {"pending", "in_transit"}, Late <- FALSE
Overlapping == INSTANCE Registry WITH
    FleetKey <- FleetKey \ Long, Label <- Label \ Long, Status <- ShipmentStatus, Initial <- "pending",
    Edges <- RacingEdges, Closed <- {}, Kept <- {}, Late <- TRUE

\* While requests do not overlap, the statements of a handler add up to one
\* operation, done at once: they write nothing, or what the documentation says
\* of the call, on rows that all still satisfy its rules.
DocumentedRegistry == Sequential!RegistrySpec

\* Whatever overlaps, each commit is still one operation of one account on the
\* rows as they are then: only the rules about the status may be judged on
\* stale rows, and the deletion of a driver may be repeated, or clear what took
\* the driver's place.
RacingRegistry == Overlapping!RegistrySpec
-----------------------------------------------------------------------------
(* What holds only while requests do not overlap                            *)

\* An active shipment keeps its driver and vehicle until a PATCH names the
\* field: deleting the driver never takes them away.
KeepRefsStep ==
    \A s \in LiveShipments, k \in Kind :
        LET old == shipments[s]
            new == shipments'[s]
        IN ~is_terminal(old.status) /\ Live(new)
             /\ old.ref[k] \notin {NULL, new.ref[k]}
             => \E r \in Request : /\ At(r, "update_shipment", "write")
                                  /\ req[r].call.shipment = s
                                  /\ req[r].call.ref[k] # UNSET
ActiveKeepsRefs == [][KeepRefsStep]_vars

\* A delivered or cancelled shipment is closed to edits: the one thing that may
\* still happen to it is that a reference is cleared because its driver or
\* vehicle is deleted.
ClosedStep ==
    \A s \in LiveShipments : is_terminal(shipments[s].status) =>
        \/ shipments'[s] = shipments[s]
        \/ \E k \in Kind :
              /\ fleet'[k] # fleet[k]
              /\ shipments'[s] = [shipments[s] EXCEPT !.ref[k] = NULL]
ClosedOnlyLosesRefs == [][ClosedStep]_vars

\* A PATCH that goes on to answer 200 has stored every field it was sent.
StoredStep ==
    \A r \in Request :
        LET c == req[r].call
            new == shipments'[c.shipment]
        IN At(r, "update_shipment", "write") /\ req'[r].step = "reread" =>
             /\ c.status \in {UNSET, new.status}
             /\ c.priority \in {UNSET, new.priority}
             /\ \A k \in Kind : c.ref[k] \in {UNSET, new.ref[k]}
AcceptedEditIsStored == [][StoredStep]_vars

\* A client whose requests do not overlap meets a 500 for values that pydantic
\* lets through, and for no others: {"status": null}; a duration beyond 32 bits;
\* a text that its column cannot hold; and a driver or vehicle whose key, name or
\* phone a PATCH has made too short, whenever it is answered.  All else that the
\* handlers leave uncaught comes from a row that another request deleted or
\* attached in between.  (Of values that no statement can carry there are more:
\* ids beyond 32 bits, NUL characters, times that are none in UTC, infinities.)
NoErrorStep ==
    \A r \in Request :
        LET c == req[r].call IN
        Running(r) /\ req'[r].step = "internal_error" =>
            \/ c.op = "update_shipment" /\ c.status = NULL
            \/ c.op = "create_shipment" /\ ~c.fits
            \/ c.op \in {"create", "update"} /\ TooLong(c)
            \/ c.op \in {"get", "update"} /\ ~Servable(fleet[c.kind][c.id])
AloneNoServerError == [][NoErrorStep]_vars
-----------------------------------------------------------------------------
\* Every request is answered, whatever the others do to the rows it works on.
EveryRequestAnswered == \A r \in Request : Running(r) ~> ~Running(r)
=============================================================================
