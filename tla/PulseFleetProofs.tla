-------------------------- MODULE PulseFleetProofs --------------------------
(***************************************************************************)
(* Type correctness of PulseFleet.  A step changes one request slot, and   *)
(* at most some tables: SlotType reduces the invariant to the new slot and *)
(* the new tables, and each handler step then has a lemma of its own.      *)
(***************************************************************************)
EXTENDS PulseFleet, TLAPS

\* The steps of a handler, one by one.
ShipmentStep(r) ==
    \/ SelectShipment(r, "get_shipment", "route") \/ ReadRoute(r)
    \/ CheckTracking(r) \/ InsertShipment(r)
    \/ \E op \in {"create_shipment", "update_shipment"} : Reread(r, op)
    \/ SelectForUpdate(r) \/ WriteShipment(r)
    \/ CheckDeletable(r) \/ LoadCascade(r) \/ EraseShipment(r)
    \/ SelectShipment(r, "evaluate_shipment", "assess")
    \/ Assess(r) \/ RefreshAlert(r)
    \/ get_driver_or_404(r) \/ get_vehicle_or_404(r)

FleetStep(r, k) ==
    \/ CheckKey(r, k) \/ InsertFleet(r, k)
    \/ \E op \in {"create", "update"} : Refresh(r, op, k)
    \/ get(r, k)
    \/ SelectFleet(r, k) \/ CheckNewKey(r, k) \/ WriteFleet(r, k)
    \/ SelectForDelete(r, k) \/ CountActive(r, k)
    \/ LoadReferencing(r, k) \/ EraseFleet(r, k)

\* A handler step is one of the steps listed above.
LEMMA HandleSteps ==
    ASSUME NEW r \in Request, Handle(r)
    PROVE  ShipmentStep(r) \/ \E k \in Kind : FleetStep(r, k)
<1> DEFINE Of(k) == create(r, k) \/ get(r, k) \/ update(r, k) \/ delete(r, k)
<1>1. Of("driver") => FleetStep(r, "driver")
    BY DEF create, update, delete, FleetStep
<1>2. Of("vehicle") => FleetStep(r, "vehicle")
    BY DEF create, update, delete, FleetStep
<1> QED
    BY <1>1, <1>2 DEF Handle, Kind, ShipmentStep,
        create_shipment, get_shipment, update_shipment, delete_shipment,
        evaluate_shipment, create_driver, get_driver, update_driver,
        delete_driver, create_vehicle, get_vehicle, update_vehicle,
        delete_vehicle

TablesOK ==
    /\ shipments \in [ShipmentId -> ShipmentRow \cup {NULL, GONE}]
    /\ routes \subseteq ShipmentId
    /\ alerts \in [AlertId -> ShipmentId \cup {NULL, GONE}]
    /\ fleet \in [Kind -> [FleetId -> FleetRow \cup {NULL, GONE}]]

\* Only the slot of the acting request changes.
LEMMA SlotType ==
    ASSUME TypeOK, TablesOK', NEW r \in Request, NEW q \in Idle \cup Busy,
           q.step \in Step => LocalsOK(q),
           req' = [req EXCEPT ![r] = q]
    PROVE  TypeOK'
<1>1. req' \in [Request -> Idle \cup Busy]
    BY DEF TypeOK
<1>2. ASSUME NEW p \in Request, Running(p)' PROVE LocalsOK(req'[p])
    BY <1>2 DEF TypeOK, Running
<1> QED
    BY <1>1, <1>2 DEF TypeOK, TablesOK, Running, LocalsOK

\* An answer frees the slot.
LEMMA ReplyType ==
    ASSUME TypeOK, TablesOK', NEW r \in Request, NEW code \in Answer,
           Reply(r, code)
    PROVE  TypeOK'
<1>1. Answered(code) \in Idle
    BY DEF Idle
<1>2. Answered(code).step \notin Step
    BY DEF Answered, Answer, Step
<1> QED
    BY <1>1, <1>2, SlotType DEF Reply

\* A running handler has a call of its operation's shape, and typed locals.
LEMMA BusySlot ==
    ASSUME TypeOK, NEW r \in Request, Running(r)
    PROVE  req[r] \in Busy /\ LocalsOK(req[r]) /\ req[r].call \in Call
<1>1. req[r] \notin Idle
    BY DEF Running, Idle, Answered, Answer, Step
<1>2. req[r] \in Busy /\ LocalsOK(req[r])
    BY <1>1 DEF TypeOK
<1> QED
    BY <1>2, CallsAssumption DEF Busy

\* A call has the fields of its operation.
LEMMA CallShapes ==
    ASSUME NEW c \in Call
    PROVE  /\ c.op = "create_shipment" => c \in CreateShipmentCall
           /\ c.op = "update_shipment" => c \in UpdateShipmentCall
           /\ c.op \in {"get_shipment", "delete_shipment", "evaluate_shipment"}
                 => c \in OnShipmentCall
           /\ c.op = "create" => c \in CreateFleetCall
           /\ c.op = "update" => c \in UpdateFleetCall
           /\ c.op \in {"get", "delete"} => c \in OnFleetCall
    BY DEF Call, CreateShipmentCall, UpdateShipmentCall, OnShipmentCall,
        CreateFleetCall, UpdateFleetCall, OnFleetCall

\* A step that leaves the tables alone.
LEMMA LocalType ==
    ASSUME TypeOK, UNCHANGED tables, NEW r \in Request, NEW q \in Idle \cup Busy,
           q.step \in Step => LocalsOK(q),
           req' = [req EXCEPT ![r] = q]
    PROVE  TypeOK'
    BY SlotType DEF TypeOK, TablesOK, tables

\* Moving on to a statement that needs no more than the last one did.
LEMMA GotoType ==
    ASSUME TypeOK, UNCHANGED tables, NEW r \in Request, Running(r),
           NEW step \in Step, Goto(r, step),
           LocalsOK([req[r] EXCEPT !.step = step])
    PROVE  TypeOK'
<1> DEFINE q == [req[r] EXCEPT !.step = step]
<1>1. q \in Busy
    BY BusySlot DEF Busy
<1>2. req' = [req EXCEPT ![r] = q]
    BY DEF Goto
<1> HIDE DEF q
<1> QED
    BY <1>1, <1>2, LocalType DEF q

\* An answer that leaves the tables alone.
LEMMA AnswerType ==
    ASSUME TypeOK, UNCHANGED tables, NEW r \in Request, NEW code \in Answer,
           Reply(r, code)
    PROVE  TypeOK'
    BY ReplyType DEF TypeOK, TablesOK, tables

\* Keeping the row that was loaded, or the rows that will be written.
LEMMA KeepType ==
    ASSUME TypeOK, UNCHANGED tables, NEW r \in Request, Running(r),
           NEW step \in Step, NEW row \in ShipmentRow \cup FleetRow \cup {NULL},
           NEW seen \in SUBSET (ShipmentId \cup AlertId),
           LocalsOK([req[r] EXCEPT !.step = step, !.row = row, !.seen = seen]),
           req' = [req EXCEPT ![r] =
                     [req[r] EXCEPT !.step = step, !.row = row, !.seen = seen]]
    PROVE  TypeOK'
<1> DEFINE q == [req[r] EXCEPT !.step = step, !.row = row, !.seen = seen]
<1>1. q \in Busy
    BY BusySlot DEF Busy
<1> HIDE DEF q
<1> QED
    BY <1>1, LocalType DEF q

\* The look-up of a shipment keeps a row, not a gap.
LEMMA SelectShipmentType ==
    ASSUME TypeOK, NEW r \in Request,
           NEW op \in {"get_shipment", "update_shipment", "evaluate_shipment"},
           NEW next \in Step \ {"reread", "refresh"},
           SelectShipment(r, op, next)
    PROVE  TypeOK'
<1> DEFINE c == req[r].call
           row == shipments[c.shipment]
<1>1. Running(r) /\ UNCHANGED tables
    BY DEF SelectShipment, At, Running, Step
<1>2. CASE Owned(c.shipment, c.user) /\ Load(r, next)
  <2>1. c.shipment \in ShipmentId
    BY <1>1, BusySlot, CallShapes DEF SelectShipment, At, UpdateShipmentCall,
        OnShipmentCall
  <2>2. row \in ShipmentRow
    BY <1>2, <2>1 DEF Owned, Live, TypeOK
  <2>3. req[r] \in Busy /\ req[r].call.op = op
    BY <1>1, BusySlot DEF SelectShipment, At
  <2>4. req' = [req EXCEPT ![r] = [req[r] EXCEPT
                  !.step = next, !.row = row, !.seen = req[r].seen]]
    BY <1>2, <2>3 DEF Load, TypeOK, Busy
  <2>5. LocalsOK([req[r] EXCEPT
                    !.step = next, !.row = row, !.seen = req[r].seen])
    BY <2>2, <2>3 DEF LocalsOK, Busy
  <2> QED
    BY <1>1, <2>2, <2>3, <2>4, <2>5, KeepType DEF Busy
<1>3. CASE Reply(r, "not_found")
    BY <1>1, <1>3, AnswerType DEF Answer
<1> QED
    BY <1>2, <1>3 DEF SelectShipment

\* The look-up of a driver or a vehicle.
LEMMA GetRefType ==
    ASSUME TypeOK, NEW r \in Request, NEW k \in Kind,
           NEW next \in {"vehicle", "write"}, get_ref_or_404(r, k, next)
    PROVE  TypeOK'
<1>1. Running(r) /\ UNCHANGED tables
    BY DEF get_ref_or_404, Running, Step, Kind
<1>2. CASE Goto(r, next)
  <2>1. req[r] \in Busy /\ LocalsOK(req[r])
    BY <1>1, BusySlot
  <2>2. LocalsOK([req[r] EXCEPT !.step = next])
    BY <2>1 DEF LocalsOK, get_ref_or_404, Kind, Busy
  <2> QED
    BY <1>1, <1>2, <2>2, GotoType DEF Step
<1>3. CASE Reply(r, "not_found")
    BY <1>1, <1>3, AnswerType DEF Answer
<1> QED
    BY <1>2, <1>3 DEF get_ref_or_404

\* A column keeps its type, whichever of the three values wins.
LEMMA PatchedFields ==
    ASSUME NEW stored \in ShipmentRow, NEW loaded, NEW c,
           NEW new, new = Patched(stored, loaded, c)
    PROVE  /\ new.owner = stored.owner /\ new.tracking = stored.tracking
           /\ new.status = Column(stored.status, loaded.status, c.status)
           /\ \A k \in Kind :
                 new.ref[k] = Column(stored.ref[k], loaded.ref[k], c.ref[k])
           /\ new.priority =
                 Column(stored.priority, loaded.priority, c.priority)
<1> DEFINE st == Column(stored.status, loaded.status, c.status)
           rf == [k \in Kind |-> Column(stored.ref[k], loaded.ref[k], c.ref[k])]
           pr == Column(stored.priority, loaded.priority, c.priority)
<1>1. new = [stored EXCEPT !.status = st, !.ref = rf, !.priority = pr]
    BY Zenon DEF Patched
<1> HIDE DEF st, rf, pr
<1>2. /\ new.owner = stored.owner /\ new.tracking = stored.tracking
      /\ new.status = st /\ new.ref = rf /\ new.priority = pr
    BY <1>1 DEF ShipmentRow
<1> QED
    BY <1>2 DEF st, rf, pr

\* A row that the constraints accept is a row of the table.
LEMMA PatchedType ==
    ASSUME NEW stored \in ShipmentRow, NEW loaded \in ShipmentRow,
           NEW c \in UpdateShipmentCall, c.status # NULL,
           RowAccepted(Patched(stored, loaded, c))
    PROVE  Patched(stored, loaded, c) \in ShipmentRow
<1> DEFINE new == Patched(stored, loaded, c)
           st == Column(stored.status, loaded.status, c.status)
           rf == [k \in Kind |-> Column(stored.ref[k], loaded.ref[k], c.ref[k])]
           pr == Column(stored.priority, loaded.priority, c.priority)
<1>1. st \in ShipmentStatus
    BY DEF Column, ShipmentRow, UpdateShipmentCall
<1>2. pr \in Priority
  <2>1. new.priority = pr
    BY PatchedFields
  <2> QED
    BY <2>1 DEF Column, ShipmentRow, UpdateShipmentCall, RowAccepted
<1>3. rf \in [Kind -> FleetId \cup {NULL}]
    BY DEF Column, ShipmentRow, UpdateShipmentCall
<1>4. new = [stored EXCEPT !.status = st, !.ref = rf, !.priority = pr]
    BY Zenon DEF Patched
<1> HIDE DEF new, st, rf, pr
<1>5. new \in ShipmentRow
    BY <1>1, <1>2, <1>3, <1>4 DEF ShipmentRow
<1> QED
    BY <1>5 DEF new

\* The statements of the shipments router that only read.
LEMMA ReadOnlyShipmentType ==
    ASSUME TypeOK, NEW r \in Request,
           \/ ReadRoute(r) \/ CheckTracking(r) \/ RefreshAlert(r)
           \/ \E op \in {"create_shipment", "update_shipment"} : Reread(r, op)
           \/ CheckDeletable(r) \/ LoadCascade(r)
    PROVE  TypeOK'
<1>1. Running(r) /\ UNCHANGED tables
    BY DEF ReadRoute, CheckTracking, RefreshAlert, Reread, CheckDeletable,
        LoadCascade, At, Running, Step
<1>2. req[r] \in Busy /\ LocalsOK(req[r])
    BY <1>1, BusySlot
<1>3. CASE \E code \in Answer : Reply(r, code)
    BY <1>1, <1>3, AnswerType
<1>4. CASE CheckTracking(r)
  <2>1. CASE Goto(r, StepAfter(req[r].call, Kind))
    <3> DEFINE step == StepAfter(req[r].call, Kind)
    <3>1. step \in {"driver", "vehicle", "write"}
        BY DEF StepAfter
    <3>2. LocalsOK([req[r] EXCEPT !.step = step])
        BY <1>2, <1>4, <3>1 DEF LocalsOK, CheckTracking, At, Busy
    <3> QED
        BY <1>1, <2>1, <3>1, <3>2, GotoType DEF Step
  <2> QED
    BY <1>3, <1>4, <2>1 DEF CheckTracking, Answer
<1>5. CASE /\ CheckDeletable(r) /\ Load(r, "load")
           /\ Owned(req[r].call.shipment, req[r].call.user)
  <2> DEFINE row == shipments[req[r].call.shipment]
  <2>1. req[r].call.shipment \in ShipmentId
    BY <1>1, <1>5, BusySlot, CallShapes DEF CheckDeletable, At, OnShipmentCall
  <2>2. row \in ShipmentRow
    BY <1>5, <2>1 DEF Owned, Live, TypeOK
  <2>3. req' = [req EXCEPT ![r] = [req[r] EXCEPT
                  !.step = "load", !.row = row, !.seen = req[r].seen]]
    BY <1>2, <1>5 DEF Load, TypeOK, Busy
  <2>4. LocalsOK([req[r] EXCEPT
                    !.step = "load", !.row = row, !.seen = req[r].seen])
    BY <1>2 DEF LocalsOK, Busy
  <2> QED
    BY <1>1, <1>2, <2>2, <2>3, <2>4, KeepType DEF Busy, Step
<1>6. CASE LoadCascade(r)
  <2> DEFINE seen == AlertsOf(req[r].call.shipment)
  <2>1. req' = [req EXCEPT ![r] = [req[r] EXCEPT
                  !.step = "write", !.row = req[r].row, !.seen = seen]]
    BY <1>2, <1>6 DEF LoadCascade, TypeOK, Busy
  <2>2. LocalsOK([req[r] EXCEPT
                    !.step = "write", !.row = req[r].row, !.seen = seen])
    BY <1>2, <1>6 DEF LocalsOK, Busy, LoadCascade, At
  <2>3. /\ seen \in SUBSET (ShipmentId \cup AlertId)
        /\ req[r].row \in ShipmentRow \cup FleetRow \cup {NULL}
    BY <1>2 DEF AlertsOf, Busy
  <2> HIDE DEF seen
  <2> QED
    BY <1>1, <2>1, <2>2, <2>3, KeepType DEF Step
<1> QED
    BY <1>3, <1>4, <1>5, <1>6
        DEF ReadRoute, RefreshAlert, Reread, CheckDeletable, Answer

\* The insert stores a row and remembers its id.
LEMMA InsertShipmentType ==
    ASSUME TypeOK, NEW r \in Request, InsertShipment(r)
    PROVE  TypeOK'
<1> DEFINE c == req[r].call
<1>1. req[r] \in Busy /\ LocalsOK(req[r]) /\ c \in CreateShipmentCall
    BY BusySlot, CallShapes DEF InsertShipment, At, Running, Step
<1>2. CASE UNCHANGED tables /\ \E code \in Answer : Reply(r, code)
    BY <1>2, AnswerType
<1>3. ASSUME NEW s \in ShipmentId,
             shipments' = [shipments EXCEPT ![s] =
                  [owner |-> c.user, tracking |-> c.tracking,
                   status |-> "pending", ref |-> c.ref,
                   priority |-> c.priority]],
             routes' = routes \cup {s}, UNCHANGED <<alerts, fleet>>,
             req' = [req EXCEPT ![r].step = "reread", ![r].new = s]
      PROVE  TypeOK'
  <2> DEFINE q == [req[r] EXCEPT !.step = "reread", !.new = s]
  <2>1. [owner |-> c.user, tracking |-> c.tracking, status |-> "pending",
         ref |-> c.ref, priority |-> c.priority] \in ShipmentRow
    BY <1>1 DEF CreateShipmentCall, ShipmentRow, ShipmentStatus
  <2>2. TablesOK'
    BY <1>3, <2>1 DEF TablesOK, TypeOK
  <2>3. q \in Busy /\ LocalsOK(q)
    BY <1>1 DEF Busy, Step, LocalsOK
  <2>4. req' = [req EXCEPT ![r] = q]
    BY <1>1, <1>3 DEF TypeOK
  <2> HIDE DEF q
  <2> QED
    BY <2>2, <2>3, <2>4, SlotType
<1> QED
    BY <1>2, <1>3 DEF InsertShipment, Answer

\* The update stores a row and remembers its id.
LEMMA WriteShipmentType ==
    ASSUME TypeOK, NEW r \in Request, WriteShipment(r)
    PROVE  TypeOK'
<1> DEFINE c == req[r].call
           s == c.shipment
           row == Patched(shipments[s], req[r].row, c)
           q == [req[r] EXCEPT !.step = "reread", !.new = s]
<1>1. req[r] \in Busy /\ LocalsOK(req[r]) /\ c \in UpdateShipmentCall
    BY BusySlot, CallShapes DEF WriteShipment, At, Running, Step
<1>2. s \in ShipmentId
    BY <1>1 DEF UpdateShipmentCall
<1>3. q \in Busy /\ LocalsOK(q)
    BY <1>1, <1>2 DEF Busy, Step, LocalsOK, WriteShipment, At
<1>4. [req EXCEPT ![r].step = "reread", ![r].new = s] = [req EXCEPT ![r] = q]
    BY <1>1 DEF TypeOK
<1>5. CASE UNCHANGED tables /\ \E code \in Answer : Reply(r, code)
    BY <1>5, AnswerType
<1>6. CASE UNCHANGED tables /\ req' = [req EXCEPT ![r] = q]
    BY <1>3, <1>6, LocalType
<1>7. CASE /\ c.status # NULL /\ Live(shipments[s]) /\ RowAccepted(row)
           /\ shipments' = [shipments EXCEPT ![s] = row]
           /\ UNCHANGED <<routes, alerts, fleet>>
           /\ req' = [req EXCEPT ![r] = q]
  <2>1. shipments[s] \in ShipmentRow
    BY <1>2, <1>7 DEF TypeOK, Live
  <2>2. req[r].row \in ShipmentRow
    BY <1>1 DEF LocalsOK, WriteShipment, At
  <2>3. row \in ShipmentRow
    BY <1>1, <1>7, <2>1, <2>2, PatchedType
  <2>4. TablesOK'
    BY <1>7, <2>3 DEF TablesOK, TypeOK
  <2> HIDE DEF q
  <2> QED
    BY <1>3, <1>7, <2>4, SlotType
<1> HIDE DEF row, q
<1> QED
    BY <1>4, <1>5, <1>6, <1>7 DEF WriteShipment, Answer, row

\* The deletion leaves gaps where there were rows.
LEMMA EraseShipmentType ==
    ASSUME TypeOK, NEW r \in Request, EraseShipment(r)
    PROVE  TypeOK'
<1> DEFINE s == req[r].call.shipment
           seen == req[r].seen
<1>1. CASE Reply(r, "internal_error") /\ UNCHANGED tables
    BY <1>1, AnswerType DEF Answer
<1>2. CASE /\ shipments' = [shipments EXCEPT ![s] = GONE]
           /\ routes' = routes \ {s}
           /\ alerts' = [a \in AlertId |->
                            IF a \in seen THEN GONE ELSE alerts[a]]
           /\ Reply(r, "ok")
           /\ UNCHANGED fleet
  <2>1. TablesOK'
    BY <1>2 DEF TablesOK, TypeOK
  <2> QED
    BY <1>2, <2>1, ReplyType DEF Answer
<1> QED
    BY <1>1, <1>2 DEF EraseShipment

\* The alert is stored for a shipment and its id remembered.
LEMMA AssessType ==
    ASSUME TypeOK, NEW r \in Request, Assess(r)
    PROVE  TypeOK'
<1> DEFINE s == req[r].call.shipment
<1>1. req[r] \in Busy /\ LocalsOK(req[r]) /\ s \in ShipmentId
    BY BusySlot, CallShapes DEF Assess, At, Running, Step, OnShipmentCall
<1>2. CASE UNCHANGED tables /\ \E code \in Answer : Reply(r, code)
    BY <1>2, AnswerType
<1>3. ASSUME NEW a \in AlertId, alerts' = [alerts EXCEPT ![a] = s],
             req' = [req EXCEPT ![r].step = "refresh", ![r].new = a],
             UNCHANGED <<shipments, routes, fleet>>
      PROVE  TypeOK'
  <2> DEFINE q == [req[r] EXCEPT !.step = "refresh", !.new = a]
  <2>1. TablesOK'
    BY <1>1, <1>3 DEF TablesOK, TypeOK
  <2>2. q \in Busy /\ LocalsOK(q)
    BY <1>1 DEF Busy, Step, LocalsOK, Assess, At
  <2>3. req' = [req EXCEPT ![r] = q]
    BY <1>1, <1>3 DEF TypeOK
  <2> HIDE DEF q
  <2> QED
    BY <2>1, <2>2, <2>3, SlotType
<1> QED
    BY <1>2, <1>3 DEF Assess, Answer

\* Every statement of the shipments router.
LEMMA ShipmentStepType ==
    ASSUME TypeOK, NEW r \in Request, ShipmentStep(r)
    PROVE  TypeOK'
<1>1. CASE \/ SelectShipment(r, "get_shipment", "route")
           \/ SelectShipment(r, "evaluate_shipment", "assess")
           \/ SelectForUpdate(r)
  <2>1. StepAfter(req[r].call, Kind) \in {"driver", "vehicle", "write"}
    BY DEF StepAfter
  <2> QED
    BY <1>1, <2>1, SelectShipmentType DEF SelectForUpdate, Step
<1>2. CASE get_driver_or_404(r) \/ get_vehicle_or_404(r)
  <2>1. StepAfter(req[r].call, {"vehicle"}) \in {"vehicle", "write"}
    BY DEF StepAfter
  <2> QED
    BY <1>2, <2>1, GetRefType DEF get_driver_or_404, get_vehicle_or_404, Kind
<1> QED
    BY <1>1, <1>2, ReadOnlyShipmentType, InsertShipmentType, WriteShipmentType,
        EraseShipmentType, AssessType DEF ShipmentStep

\* The statements of the drivers and vehicles routers that only read.
LEMMA ReadOnlyFleetType ==
    ASSUME TypeOK, NEW r \in Request, NEW k \in Kind,
           \/ CheckKey(r, k) \/ get(r, k) \/ CheckNewKey(r, k)
           \/ \E op \in {"create", "update"} : Refresh(r, op, k)
           \/ CountActive(r, k) \/ LoadReferencing(r, k)
    PROVE  TypeOK'
<1>1. Running(r) /\ UNCHANGED tables
    BY DEF CheckKey, get, CheckNewKey, Refresh, CountActive, LoadReferencing,
        OnKind, At, Running, Step
<1>2. req[r] \in Busy /\ LocalsOK(req[r])
    BY <1>1, BusySlot
<1>3. CASE \E code \in Answer : Reply(r, code)
    BY <1>1, <1>3, AnswerType
<1>4. ASSUME NEW step \in {"write", "load"}, Goto(r, step),
             req[r].call.op \in {"create", "delete"} \/ req[r].step = "check"
      PROVE  TypeOK'
  <2>1. req[r].call.op # "update_shipment"
    BY <1>1 DEF CheckKey, get, CheckNewKey, Refresh, CountActive,
        LoadReferencing, OnKind, At
  <2>2. LocalsOK([req[r] EXCEPT !.step = step])
    BY <1>2, <1>4, <2>1 DEF LocalsOK, Busy
  <2> QED
    BY <1>1, <1>4, <2>2, GotoType DEF Step
<1>5. CASE LoadReferencing(r, k)
  <2> DEFINE seen == Referencing(k, req[r].call.id)
  <2>1. req' = [req EXCEPT ![r] = [req[r] EXCEPT
                  !.step = "write", !.row = req[r].row, !.seen = seen]]
    BY <1>2, <1>5 DEF LoadReferencing, TypeOK, Busy
  <2>2. LocalsOK([req[r] EXCEPT
                    !.step = "write", !.row = req[r].row, !.seen = seen])
    BY <1>2, <1>5 DEF LocalsOK, Busy, LoadReferencing, OnKind, At
  <2>3. /\ seen \in SUBSET (ShipmentId \cup AlertId)
        /\ req[r].row \in ShipmentRow \cup FleetRow \cup {NULL}
    BY <1>2 DEF Referencing, LiveShipments, Busy
  <2> HIDE DEF seen
  <2> QED
    BY <1>1, <2>1, <2>2, <2>3, KeepType DEF Step
<1> QED
    BY <1>3, <1>4, <1>5 DEF CheckKey, get, CheckNewKey, Refresh, CountActive,
        OnKind, At, Answer

\* The look-up of a driver or vehicle that will be changed or deleted.
LEMMA SelectFleetType ==
    ASSUME TypeOK, NEW r \in Request, NEW k \in Kind,
           SelectFleet(r, k) \/ SelectForDelete(r, k)
    PROVE  TypeOK'
<1> DEFINE c == req[r].call
           row == fleet[k][c.id]
<1>1. Running(r) /\ UNCHANGED tables
    BY DEF SelectFleet, SelectForDelete, OnKind, At, Running, Step
<1>2. /\ req[r] \in Busy /\ LocalsOK(req[r]) /\ c.id \in FleetId
      /\ c.op \in {"update", "delete"}
    BY <1>1, BusySlot, CallShapes DEF SelectFleet, SelectForDelete, OnKind, At,
        UpdateFleetCall, OnFleetCall
<1>3. CASE Reply(r, "not_found")
    BY <1>1, <1>3, AnswerType DEF Answer
<1>4. ASSUME NEW step \in {"check", "write", "count"}, LoadFleet(r, k, step),
             OwnedFleet(k, c.id, c.user)
      PROVE  TypeOK'
  <2>1. row \in FleetRow
    BY <1>2, <1>4 DEF OwnedFleet, Live, TypeOK
  <2>2. req' = [req EXCEPT ![r] = [req[r] EXCEPT
                  !.step = step, !.row = row, !.seen = req[r].seen]]
    BY <1>2, <1>4 DEF LoadFleet, TypeOK, Busy
  <2>3. LocalsOK([req[r] EXCEPT
                    !.step = step, !.row = row, !.seen = req[r].seen])
    BY <1>2, <1>4, <2>1 DEF LocalsOK, Busy
  <2>4. req[r].seen \in SUBSET (ShipmentId \cup AlertId)
    BY <1>2 DEF Busy
  <2> HIDE DEF row
  <2> QED
    BY <1>1, <2>1, <2>2, <2>3, <2>4, KeepType DEF Step
<1> QED
    BY <1>3, <1>4 DEF SelectFleet, SelectForDelete

\* The insert stores a row and remembers its id.
LEMMA InsertFleetType ==
    ASSUME TypeOK, NEW r \in Request, NEW k \in Kind, InsertFleet(r, k)
    PROVE  TypeOK'
<1> DEFINE c == req[r].call
<1>1. req[r] \in Busy /\ LocalsOK(req[r]) /\ c \in CreateFleetCall
    BY BusySlot, CallShapes DEF InsertFleet, OnKind, At, Running, Step
<1>2. CASE UNCHANGED tables /\ \E code \in Answer : Reply(r, code)
    BY <1>2, AnswerType
<1>3. ASSUME NEW f \in FleetId,
             fleet' = [fleet EXCEPT ![k][f] =
                 [owner |-> c.user, key |-> c.key, label |-> c.label]],
             ~TooLong(c),
             req' = [req EXCEPT ![r].step = "refresh", ![r].new = f],
             UNCHANGED <<shipments, routes, alerts>>
      PROVE  TypeOK'
  <2> DEFINE q == [req[r] EXCEPT !.step = "refresh", !.new = f]
  <2>1. [owner |-> c.user, key |-> c.key, label |-> c.label] \in FleetRow
    BY <1>1, <1>3 DEF CreateFleetCall, PostedLabel, FleetRow, TooLong, Kind
  <2>2. TablesOK'
    BY <1>3, <2>1 DEF TablesOK, TypeOK
  <2>3. q \in Busy /\ LocalsOK(q)
    BY <1>1 DEF Busy, Step, LocalsOK, InsertFleet, OnKind, At
  <2>4. req' = [req EXCEPT ![r] = q]
    BY <1>1, <1>3 DEF TypeOK
  <2> HIDE DEF q
  <2> QED
    BY <2>2, <2>3, <2>4, SlotType
<1> QED
    BY <1>2, <1>3 DEF InsertFleet, Answer

\* What a PATCH stores is a row again, of the same owner, whose key and label
\* are the stored ones or the ones it sent.
LEMMA FleetRowWritten ==
    ASSUME NEW c \in UpdateFleetCall, ~TooLong(c), NEW k, NEW f, NEW loaded,
           NEW stored \in FleetRow, NEW row, row = Edited(stored, loaded, c),
           FleetRowAccepted(k, f, row)
    PROVE  /\ row \in FleetRow /\ row.owner = stored.owner
           /\ row.key = Column(stored.key, loaded.key, c.key)
           /\ row.label = Column(stored.label, loaded.label, c.label)
<1>1. /\ row.owner = stored.owner
      /\ row.key = Column(stored.key, loaded.key, c.key)
      /\ row.label = Column(stored.label, loaded.label, c.label)
    BY DEF Edited, FleetRow
<1>2. row.key \in FleetKey \ Long
    BY <1>1 DEF Column, FleetRow, UpdateFleetCall, TooLong, FleetRowAccepted
<1>3. c.label \in Label \cup {NULL, UNSET}
    BY DEF UpdateFleetCall, PatchedLabel, Kind
<1>4. row.label \in Label \ Long
    BY <1>1, <1>3 DEF Column, FleetRow, TooLong, FleetRowAccepted
<1>5. row = [stored EXCEPT !.key = row.key, !.label = row.label]
    BY <1>1 DEF Edited
<1> QED
    BY <1>1, <1>2, <1>4, <1>5 DEF FleetRow

\* The update stores a row again and remembers its id.
LEMMA WriteFleetType ==
    ASSUME TypeOK, NEW r \in Request, NEW k \in Kind, WriteFleet(r, k)
    PROVE  TypeOK'
<1> DEFINE c == req[r].call
           q == [req[r] EXCEPT !.step = "refresh", !.new = c.id]
<1>1. req[r] \in Busy /\ LocalsOK(req[r]) /\ c \in UpdateFleetCall
    BY BusySlot, CallShapes DEF WriteFleet, OnKind, At, Running, Step
<1>2. c.id \in FleetId
    BY <1>1 DEF UpdateFleetCall
<1>3. q \in Busy /\ LocalsOK(q)
    BY <1>1, <1>2 DEF Busy, Step, LocalsOK, WriteFleet, OnKind, At
<1>4. [req EXCEPT ![r].step = "refresh", ![r].new = c.id]
        = [req EXCEPT ![r] = q]
    BY <1>1 DEF TypeOK
<1>5. CASE UNCHANGED tables /\ \E code \in Answer : Reply(r, code)
    BY <1>5, AnswerType
<1>6. CASE UNCHANGED tables /\ req' = [req EXCEPT ![r] = q]
    BY <1>3, <1>6, LocalType
<1> DEFINE loaded == req[r].row
           row == Edited(fleet[k][c.id], loaded, c)
<1>7. CASE /\ Live(fleet[k][c.id]) /\ ~TooLong(c)
           /\ FleetRowAccepted(k, c.id, row)
           /\ fleet' = [fleet EXCEPT ![k][c.id] = row]
           /\ UNCHANGED <<shipments, routes, alerts>>
           /\ req' = [req EXCEPT ![r] = q]
  <2>1. fleet[k][c.id] \in FleetRow
    BY <1>2, <1>7 DEF TypeOK, Live
  <2> HIDE DEF loaded
  <2>3. row \in FleetRow
    BY <1>1, <1>7, <2>1, FleetRowWritten
  <2> HIDE DEF row
  <2>4. TablesOK'
    BY <1>2, <1>7, <2>3 DEF TablesOK, TypeOK
  <2> HIDE DEF q
  <2> QED
    BY <1>3, <1>7, <2>4, SlotType
<1> HIDE DEF q
<1> QED
    BY <1>4, <1>5, <1>6, <1>7 DEF WriteFleet, Answer

\* The deletion clears references and leaves a gap.
LEMMA EraseFleetType ==
    ASSUME TypeOK, NEW r \in Request, NEW k \in Kind, EraseFleet(r, k)
    PROVE  TypeOK'
<1> DEFINE f == req[r].call.id
           cleared == req[r].seen \cap LiveShipments
<1>1. CASE Reply(r, "internal_error") /\ UNCHANGED tables
    BY <1>1, AnswerType DEF Answer
<1>2. CASE /\ shipments' = [s \in ShipmentId |->
                               IF s \in cleared
                               THEN [shipments[s] EXCEPT !.ref[k] = NULL]
                               ELSE shipments[s]]
           /\ fleet' = [fleet EXCEPT ![k][f] = GONE]
           /\ Reply(r, "ok")
           /\ UNCHANGED <<routes, alerts>>
  <2>1. ASSUME NEW s \in LiveShipments
        PROVE  [shipments[s] EXCEPT !.ref[k] = NULL] \in ShipmentRow
    <3>1. shipments[s] \in ShipmentRow
        BY DEF LiveShipments, Live, TypeOK
    <3>2. [shipments[s].ref EXCEPT ![k] = NULL] \in [Kind -> FleetId \cup {NULL}]
        BY <3>1 DEF ShipmentRow
    <3> QED
        BY <3>1, <3>2 DEF ShipmentRow
  <2>2. TablesOK'
    BY <1>2, <2>1 DEF TablesOK, TypeOK
  <2> QED
    BY <1>2, <2>2, ReplyType DEF Answer
<1> QED
    BY <1>1, <1>2 DEF EraseFleet

\* Every statement of the drivers and vehicles routers.
LEMMA FleetStepType ==
    ASSUME TypeOK, NEW r \in Request, NEW k \in Kind, FleetStep(r, k)
    PROVE  TypeOK'
    BY ReadOnlyFleetType, SelectFleetType, InsertFleetType, WriteFleetType,
        EraseFleetType DEF FleetStep

\* A call that comes in has no locals yet.
LEMMA StartType ==
    ASSUME TypeOK, NEW r \in Request, NEW c \in Calls, Start(r, c)
    PROVE  TypeOK'
<1> DEFINE q == [step |-> FirstStep(c), call |-> c,
                 row |-> NULL, seen |-> {}, new |-> NULL]
<1>1. q \in Busy /\ LocalsOK(q)
    BY DEF Busy, Step, FirstStep, LocalsOK
<1> HIDE DEF q
<1>2. req' = [req EXCEPT ![r] = q] /\ UNCHANGED tables
    BY DEF Start, q
<1> QED
    BY <1>1, <1>2, LocalType

\* Every table and every handler's locals keep their type, however many
\* requests overlap and wherever one dies: what a later statement of a handler
\* relies on (a loaded row, an id to read back) is there when it runs.
THEOREM TypeCorrect == Spec => []TypeOK
<1>1. StoreInit => TypeOK
    BY DEF StoreInit, TypeOK, Idle, Answered, Answer, Running, Step, Kind
<1>2. TypeOK /\ [Next]_vars => TypeOK'
  <2> SUFFICES ASSUME TypeOK, [Next]_vars PROVE TypeOK'
    OBVIOUS
  <2>1. ASSUME NEW r \in Request, NEW c \in Calls, Start(r, c) PROVE TypeOK'
    BY <2>1, StartType
  <2>2. ASSUME NEW r \in Request, Handle(r) PROVE TypeOK'
    BY <2>2, HandleSteps, ShipmentStepType, FleetStepType
  <2>3. ASSUME NEW r \in Request, Crash(r) PROVE TypeOK'
    BY <2>3, AnswerType DEF Crash, Answer
  <2>4. CASE UNCHANGED vars
    BY <2>4 DEF vars, TypeOK, Running, LocalsOK
  <2> QED
    BY <2>1, <2>2, <2>3, <2>4 DEF Next
<1> QED
    BY <1>1, <1>2, PTL DEF Spec
=============================================================================
